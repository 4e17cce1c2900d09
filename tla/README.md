# Lilly teams: a TLA+ verification project

Lilly is a Node.js backend that talks to models on behalf of several front
ends. Its *agent teams* let an owner hand assignments to a roster of teammates;
backend processes claim the assignments, run an executor for each, journal its
effects, and release the teammate's slot only when nothing of the executor can
still act. Each teammate may also own a private browser in a Kubernetes Pod
with a persistent profile, under a durable lease. Around the teams the backend
runs two more durable queues, the *workloads* (deferred and scheduled prompts)
and the *async lab* (webhook runs over Postgres and Valkey), and its own
releases take turns under a Kubernetes Lease. This directory models that core:
what is written on the durable rows, by whom, in which order, and what survives
crashes, lost replies, late effects and clocks that differ.

## 1. The system

### Components

| component | source | state it keeps | operations | hard part |
|---|---|---|---|---|
| Agent team row | `src/agent-teams/domain.js`, `service.js` | one JSON document per team: agents, tasks, claims, journal, results, recovery leases | owner commands, claims, journal, results, reconciliation, all under `SELECT ... FOR UPDATE` | interleaving of transactions of owner, workers, reviewers, controllers |
| Team runner | `runner.js`, `worker.js`, `runtime.js` | per process: `active`, `pendingAdmissions`, `unobservedTaskIds`, `admissionUncertain`, drain counters | tick (heartbeat, claim, launch), drain, start, stop, process | awaits between every two steps, lost replies, crash at any of them |
| Reconciler | `reconciler.js`, `execution-owner.js`, `retired-owner-reader.js`, `cgroup-reader.js`, `container-stop*.js` | none durable; an investigation per process | observe, take lease, read back, confirm, finish | stale observation, expired lease, executor that outlives its owner |
| Private browser lease | `computer-lease.js`, `../agent-computer/{recovery-helper,recovery-launch,recovery-write,lease-state,stop-evidence,profile-recovery-evidence}.js` | `task.computerLease`, `recoveryHelper`, `team.computerProfiles` | reserve, advance, record stop, record recovery, helper reserve/advance/launch/write | retried and racing supervisors, first evidence kept, closure only with proofs |
| Private browser supervisors | `../agent-computer/{kubernetes-supervisor,recovery-supervisor,recovery-controller,recovery-worker,profile-recovery,profile-lease,browser-node-adapter,recovery-node-adapter,stop-archive}.js` | flags and a copy of the lease in memory, per lease | provision, stop, recover, archive | crash between grant and Pod creation, requests that land late, failure before binding |
| Browser admission | `../agent-computer/supervised-runtime.js` | open browsers of a process | open, close, confirm | a close that races an open |
| Model broker | `worker-broker.js`, `shared-model-budget.js` | `activeModel`, `modelCalls`, budget | one model call at a time, budget, close | checks before awaits, used after them |
| Workloads | `src/workloads/{store,service,runner,schema,cron-utils}.js` | rows of workloads and runs in Postgres: status, due time, claim with expiry, idempotency key | owner's calls (create, edit, pause, resume, project plan, delete, run now), `claimDueRuns` (SKIP LOCKED), settlement, stages, next run | overlapping calls of several statements, whole-row write-backs, workers that lose their claims, a cancelled run whose key stays |
| Agent runs | `src/agent-runs` | status machine of runs | transitions under a run lock, idempotent creation | replays |
| Async lab | `src/async-lab/{service,store,valkey-live-bus}.js` | rows of runs in Postgres; hints, locks and idempotency keys in Valkey | submit, cancel, drain, claim, checkpoint, execute, release | read-modify-write of whole rows, locks that run out in use, two stores that fail apart |
| Remote runner, remote CLI | `src/remote-runner`, `src/remote-cli` | sessions to machines | dispatch, poll, reconnect | lost answers |
| Deployment coordination | `src/deployment-coordination.js`, `scripts/k3s-deployment-coordinator.js` | a Kubernetes Lease; ConfigMap and Deployment of two parts | take, renew, give back by compare-and-swap; apply, patch, roll out | clocks that differ, writes that land late, answers that never come |
| Foreground turns | `src/foreground-request-registry.js`, `foreground-turn-state.js` | abort controllers by request | register, cancel | re-registration |
| Conversation runtime | `src/conversation-orchestrator.js`, `openai-client.js`, `orchestration/`, `agent-sdk/` | conversation text | prompts, model and tool calls | text processing; nothing a model checker decides |
| Documents, media | `src/documents`, `artifacts`, `podcast`, `video`, `tts`, ... | files | rendering | none here |
| HTTP, sessions, storage | `src/routes`, `ws`, `session-store.js`, `postgres.js` | requests, sessions | handlers | only the row lock matters here, and it is modelled |

### How they interact

```
 owner / HTTP ----commands----> team row <---- claim, heartbeat, result ---- runner (per process)
 teammate's worker --journal---> (Postgres,                                   | launches
 reviewer task -----verdict----> FOR UPDATE)                                  v
 reconciler --lease, finish----> |   ^                                    executor (may outlive
        ^ observes executors     |   +--- artifact writes land in their    its process)
        |                        |        own tables, perhaps late
 supervisors / controllers ------+-- lease, stop, recovery, helper records
```

All durable state of a team is one row; `TeamStore.mutate` (`store.js:93`)
locks it, lets a handler edit a copy, and commits. A handler that throws changes
nothing. Processes never talk to each other: they meet only in the row. What
makes the system hard is that a *reply* is not the *commit*: every call of a
process may fail before, at, or after its commit, and the process may be gone.

Workloads, the async lab and the release coordinator are separate from the
teams and from each other. They share no row lock: the workloads rely on single
SQL statements with a claim that expires, the async lab on the same and on locks
in Valkey, the coordinator on the resource version of the objects it patches. In
all three the question is what a process may still do after it was overtaken.

### What makes each part correct

* Row: concurrency limit, one task per teammate, disjoint writes, dependencies
  accepted, independent review, no unsettled effect or open browser behind a
  released task, at most one execution of an assignment.
* Runner: never more executors than capacity; a drain that says "settled" tells
  the truth; no slot of a living process is forgotten; a revoked tick launches
  nothing.
* Reconciler: a slot is freed only behind an executor that has ended; the slots
  of a dead process are freed in the end; a task that was investigated never
  counts as done.
* Lease: one open lease per teammate, one profile, closure only with proofs,
  one launch and one write per helper, records never replaced.
* Supervisors: one helper Pod and one write are ever requested; a used Pod is
  deleted only behind an archived stop; a closed lease means that no Pod,
  container or lock is left; a profile has one writer at a time.
* Workloads: an enabled workload has a next run; no run is executed
  twice at once; a stage follows its run; what is due is settled in the end.
* Async lab: requests with one key get one run; a run, and a target, has one
  executor; an adapter is not launched twice without cause; every run ends.
* Deployment: who writes holds the Lease; what a release reports is deployed.

## 2. Modules

| module | models | extends / instantiates |
|---|---|---|
| `BrowserTurn` | abstract specification: one teammate, its tasks one after the other and the browser of each | - |
| `TeamTasks` | the team row: one action per transaction | instantiates `BrowserTurn` |
| `TeamTasksProofs` | theorems about it | `TeamTasks`, `TLAPS` |
| `WorkSlots` | abstract specification: what a team promises about its slots | - |
| `TeamRunner` | runner, executor, journal and reconciler of several processes around `TeamTasks` | extends `TeamTasks`, instantiates `WorkSlots` |
| `TeamRunnerProofs` | theorems about it | extends `TeamRunner`, `TeamTasksProofs` |
| `ComputerLease` | the lease of a teammate's browser and its recovery helper | instantiates `BrowserTurn` |
| `ComputerLeaseProofs` | theorems about it | `ComputerLease`, `TLAPS` |
| `ProfileRecovery` | the runs of the node service that settle a profile through a helper Pod, and the cluster as far as it concerns them | extends `ComputerLease` |
| `ProfileRecoveryProofs` | theorems about it | `ProfileRecovery`, `TLAPS` |
| `ProfileCustody` | abstract specification: what a teammate may rely on about its browser profile | - |
| `BrowserSupervisor` | the backend's supervisor of one browser: provisioning, stop, clean-up | extends `ProfileRecovery`, instantiates `ProfileCustody` |
| `BrowserSupervisorProofs` | theorems about it | extends `BrowserSupervisor`, `ComputerLeaseProofs`, `ProfileRecoveryProofs` |
| `Workloads` | one scheduled workload: its rows, its owner, the workers | standard modules |
| `WorkloadsProofs` | theorems about it | `Workloads`, `FiniteSetTheorems`, `TLAPS` |
| `AsyncLab` | submission, cancellation and the drains of several processes over Postgres and Valkey | standard modules |
| `AsyncLabProofs` | theorems about it | `AsyncLab`, `FiniteSetTheorems`, `TLAPS` |
| `SharedLease` | abstract specification: a lease that nothing enforces, told in one time | standard modules |
| `ReleaseLease` | releases of the backend under a Kubernetes Lease | instantiates `SharedLease` |
| `ReleaseLeaseProofs` | theorems about it | `ReleaseLease`, `TLAPS` |
| `MCTeamTasks`, `MCTeamRunner`, `MCComputerLease`, `MCProfileRecovery`, `MCBrowserSupervisor`, `MCWorkloads`, `MCAsyncLab`, `MCReleaseLease` | constants and symmetry of the instances | the module named |

An operator called `X_Y`, defined right before `X`, states a bug one could
plausibly write in `X` (a dropped guard, a stale check, a lost bookkeeping
step). It is never part of a next-state relation. Replacing `X` by it makes the
property it is paired with in `PROJECT.json` fail: that shows the property has
something to say about the code.

### TeamTasks and the code

Tasks are numbered in the order of `team.tasks`, which is the order in which
`claimTasks` visits them.

| variable | in the row |
|---|---|
| `executionEnabled`, `enabled`, `resting` | `team.execution.enabled`, `agent.enabled`, `agent.restUntil` in the future |
| `created`, `spec` | `team.tasks.length`; what a task was asked to do: agent, write targets, reviewer, dependencies, `reviewOf` |
| `status`, `worker`, `cancelRequested` | `task.status`, `task.worker.id`, `task.cancelRequestedAt` |
| `journal` | `task.operations[callId].status` |
| `computer` | whether `task.computerLease` exists and `isBrowserLeaseClosed` |
| `lease`, `leaseId` | `task.worker.reconciliation` and which of them is current |
| `output`, `review` | whether `task.result.artifacts` is nonempty, who gave the verdict |

Actions carry the names of the handlers (`Enqueue`, `ReviewTask`,
`ClaimEnabled`, `BeginOperation`, `SettleOperation`, `RecordResult`,
`Unobserved`, `BeginReconciliation`, `FinishReconciliation`, ...). A claim takes
the whole batch that the loop of `claimTasks` would take, characterised by
`Greedy`: the set whose members are exactly the tasks that fit beside the active
ones and the members before them. Write targets are sequences of path segments,
so prefix overlap is real. The clock appears only as rests and recovery leases
that may run out at any moment.

`TeamTasks` keeps of a lease only `none`, `open` or `closed`, and `ComputerLease` of
a task only what its lease depends on. What the two must agree on is
`BrowserTurn`: the task in progress is a teammate's turn, a recovered one
included. `Turn(a)` is the mapping for a teammate of the row, `Turn` the one for
the owner of the leases.

### TeamRunner and the code

A step of a process goes from one `await` to the next. `Worker` is the set of
process boots; `Crash` loses the memory of one and leaves its claim in flight
(`orphan`) and its executor (`alive`) behind. `faults` bounds lost replies and
failed calls. `exec[t]` says where `process(team, task)` waits, `tick[w]` where
`runTick` waits, `probe[w]` where the investigation of the reconciler is.
`effect` is the artifact store: a write that was dispatched may land long after
its caller has gone. `journaled()` is four steps: the reservation in the row
(`Reserve`), the heartbeat whose answer must allow the call (`Checkpoint`), the
dispatch after it (`Dispatch`, where only the abort signal is looked at: the
answer may be stale by then), and the landing. The heartbeat, the taking of a
recovery lease and its release commit and answer in one step.

Simplifications: one team per process; every journalled call is an artifact
write, the only kind the reconciler can read back; the observer of executors is
truthful; the reconciler investigates one task at a time and its paging is the
fairness of `Observe`; when the cancellation of an unstarted admission fails,
the rest of `pendingAdmissions` is moved to `unobservedTaskIds` in the same
step; browsers and rests are left to `TeamTasks` (`BrowserUser = {}`).

### ComputerLease and the code

One teammate: leases of different teammates never meet. An update is any
combination of a phase and of the objects a caller may report; the action's
guard is the code's validation. Bindings and receipts are opaque values: a
receipt is *of* a binding (its fingerprint) and carries what was *seen* (its
time and source). `Closed` is `isBrowserLeaseClosed`. A replayed call that
returns the stored record is the no-change case. `launches` and `writes` are
history variables that count the replies with `dispatch: true`. Left out: fields
that the reservation fixes for good (image, names, hashes), timestamps and
reasons, and the caller's own claims `podStopped` and `profileReleased`, which
the code demands but never takes as proof.

### ProfileRecovery and the code

`at[n][t]` says at which await the run of a node-service boot `n` for task `t`
waits in `recovery-supervisor.js` (`once`) or, from `settle` to `recovered`, in
`recovery-controller.js`. `grant` is the `dispatch` flag of the last grant it
asked for; only the reply carries it, so that a lost reply leaves it false.
`Update` is the code's `update`: a call that fails passes if the read that
follows finds what it wanted stored. `Abandon` ends a run at any await (error,
time limit, abort, crash); the code then calls again or never.

The cluster is in the model because the code's promises are about it:
`helperPod` and `helperRuns` are the Pod object and its container, which part
when a Pod is removed by force; `inFlight` holds creations that got no answer;
`command` is the recovery command in the helper, which moves the directory
(`lock`) whether or not its caller is still there.

### BrowserSupervisor and the code

`place[t]` is the await of the supervisor, `record` its variable of that name
(the last answer it got, not the row), `memory` its flags: `attempted`
(`podAttempted`), `podUnknown` and `volumeUnknown` (`uncertainPod`,
`uncertainProfile`), `found` (a Pod was found by the clean-up), `unsaved`
(`persistenceError`). `Persists` is a call of `persist` between two awaits:
`Saves`, or `Unsaved` when it is refused, lost, or committed without an answer.
`CallRecover` is where `observeTermination` of the node adapter starts a run of
`ProfileRecovery`; `NobodyToAsk` is the same call for a lease that is bound to
no node. Checks of identities, manifests and images are one outcome, `Fails`.
A browser is `used` once it was started in a running container. For
`ProfileCustody`, a task has the profile while its lease is open, a browser
counts as started once it is used, and a task's lock is in the profile while it
is `active`. A teammate is
not stopped and execution is not switched off here: both only make the row
refuse reservations, which `ComputerLease` covers.

### Workloads and the code

One workload with a schedule and at most one stage. The runs of the schedule are
named by the tick at which they are due, as their idempotency key is
(`schema.js:372`); the other runs (by hand, as a stage) have keys that nothing
else makes. `Inserted` is `enqueueRun` with its `ON CONFLICT DO NOTHING`: a row
with the key, in whatever status, is returned as it is. The routes, the admin API
and the agent tools call the service side by side and no lock spans the
statements of a call, so that `Client` is the set of calls that may be under way
at a time. A call that makes several statements is several actions, with `call[c]`
naming the one still to be made, and between two of them all other calls and all
workers may act; `job[w][r]` is the same for `executeClaimedRun`.
`updateProjectPlan` and `persistProjectReview` are a read and a write of the
whole row, `enabled` included (`PlanReads`, `PlanWrites`, `ReviewReads`,
`ReviewWrites`). `lost` is a history variable: it says that something happened
after which the code does not queue the next run by itself. There are four such
things: the run it would queue had been cancelled (`Inserted`); the worker or
the call ended before its INSERT (`Interrupts`, `CallFails`); a pause cancelled
runs after another call had enabled the workload (`PauseCancels`); and a write
of the plan or of a review enabled again what was paused meanwhile (`Writes`).

Simplifications: each behaviour starts in a scenario, which says which calls are ever
made, which of the bounded runs by hand or of stages are over from before (`past`, which
leaves no room for others) and how many of the faults are used up; the proofs hold
for every set of scenarios. The clock counts periods; a timer that is late is any delay of
`Tick`; a heartbeat keeps a claim alive unless it comes late (`Lapse` of a claim
in use, a counted fault); the workload is never created anew, and its creation
has ended before anybody calls. An `updateWorkload` that changes both `enabled` and
the prompt is a `Pause` or an `Edit`, as its payload ends up; its one UPDATE
writes the row as its own earlier read and the payload have it, whatever became of
the row since, so that an `Edit` may also enable what was paused in between.
`Pause`, `Resume` and `Edit` read and write the row in one action: what they read
matters only for `enabled`, which they set. The write-backs of the agent company
(`service.js:1092`) and of long-agent mode (1737, 1819) are left out with these
modes.

### AsyncLab and the code

`row` is the table, and `copy[w]`, `wish[r]` are the copies that `updateRun`
writes back: `updateRun` reads a row, patches it in memory and stores all of it,
so that between `Reads` and `Writes` (`CancelRead` and `CancelWrite`) another
process may have changed what is overwritten. `cancelRun` has read the row once
more before that (`CancelLooks`): whether it writes "cancelled" follows from the
first read, everything else it writes from the second. `claimRun`, `refreshClaim` and
`releaseClaim` are single statements. `sub[q]` is where `createRun` waits,
`pc[w]` where `processRun` does. `runLock`, `targetLock`, `keyOwner` and `queue`
are Valkey's; while it is not `reachable` every process takes its own fallback
for them, which excludes nobody. The sweep visits the rows it listed one after
the other (`todo`), although they may have changed since.

`excuse` is a history variable that records what broke a guard of a run: its
lock or its claim ran out or was overwritten while in use, the target's lock was
lost, its worker crashed or threw. The properties say which guards must be
broken for a promise to fail. A statement of the store that throws is taken not
to have been committed.

### ReleaseLease and the code

A release is one process of the coordinator. `pc` is its place in
`withDeploymentLease` and the operation under it, `wire` the writes that `kubectl` sent and
the API server has not handled: whoever sent one may have timed out, been killed
or died. `Takes`, `Renews` and `Finishes` send the patches that test the Lease's
resource version, `AppliesConfig` a ConfigMap that tests nothing,
`PatchesDeployment` one that tests the Deployment's version. Every host has its
own clock (`skew`), and the Lease's times are those of its holder. The
assumption `Duration + MaxSkew <= StaleAfter` says how far clocks may differ:
`isLeaseStale` waits for `max(duration, 120)` seconds and a duration lies
between 60 and 600. A Lease of 60 seconds tolerates clocks that differ by 60; the
default of 120 tolerates none, and neither does anything longer: there the
promises below hold for hosts whose clocks agree. For `SharedLease` all times are
turned back by what the clock that wrote them is ahead (`Expiry`, `Trusted`); a
release trusts the Lease from its look at it (`ready`) to the end of its write.

## 3. Runs

| run | question | instance and why it is enough |
|---|---|---|
| `admission` | may two tasks be in progress together, is any executed twice, who may give a verdict? types of the row | 3 agents, 2 of them reviewers, limit 2, 3 tasks chosen among requests for `src`, `src/app` (overlapping), `docs` and nothing, one agent asked twice, all dependency sets: every pair of collisions, and a third task that waits for a slot or reviews another |
| `journal` | what is on record when a slot is released, and after a stop? | 2 tasks of one agent, 3 calls of which 2 ask for the same effect, 2 recovery leases so that a lapsed one meets its successor, stop and resume |
| `capacity` | executors within capacity; drains, stops, restarts, lost replies | 1 process with room for 2 of 3 tasks, so that one executor ends while a claim is awaited, 2 overlapping drains, 1 fault; symmetry of the teammates |
| `recovery` | slots freed only behind ended executors, late writes, a dead process's slots released, a stop that reaches its executor | 2 processes, one crashes, 1 task, 1 call, 2 leases, 1 fault; refinement of `WorkSlots` and liveness |
| `leases` | is a browser opened and closed in its task's turn, with one profile, proven closures, and records that last? refinement of `BrowserTurn` | 2 tasks of one teammate, 2 volumes, so that a wrong one may be reported, one of every other object |
| `settlement` | is the profile settled by one helper and one write, truly? | 1 task, 2 boots that run at once and again without bound, browser lock retired or not; symmetry of the boots |
| `supervision` | what may be deleted, what is left behind a closed lease, is the profile in the custody of one task and one writer? refinement of `ProfileCustody` | 2 tasks in a row, each with browser and helper, 1 boot; provisioning may fail anywhere, and 1 fault falls on any call of either; symmetry of the tasks |
| `startup` | does the clean-up before binding close the lease, as the comment says? | no faults; TLC finds the failure that does not |
| `workloads` | does the schedule go on, is a run executed once at a time, do stages follow, is what is due settled? | 2 workers of which one may die, a first tick and the slot after it, a stage on success, 3 scenarios: 2 calls of the owner at a time, which is what two of them need to meet between their statements, with 1 exception or late heartbeat and no further runs; 1 call at a time and one run by hand or as a stage; such a run with 1 exception or late heartbeat and no calls; under fairness |
| `resume` | is an enabled workload always scheduled? | no faults and no stage; TLC finds the owner's edit that silences it |
| `asynclab` | one run per key, one executor, one adapter, an end for every run that lasts | 2 processes, one of which may die, 3 scenarios: a webhook delivered twice and cancelled with 1 fault; one run with 2 faults, enough to break both of its guards; two runs for one target; under fairness |
| `release` | is the Lease one that a release may trust, is what is reported deployed? refinement of `SharedLease` | 2 releases of backend, frontend or both, `Duration` 2, `StaleAfter` 3, clocks 1 apart, time to 2: long enough to renew, to expire at one host and not at the other, and to be taken over; symmetry of the releases |

Bounds: `MaxTasks` (the code's own limit), `MaxLeases` (recovery leases per
task), `MaxDrains`, `MaxFaults`. The last recovery lease is not allowed to lapse
(`Lapse`) and an investigation that holds it is not given up (`GiveUp`), so that
the bound does not forge a stuck state: in the code leases never run out.
`MaxTime` and `MaxExtra` bound the clock and the runs by hand of `Workloads`,
`Client` its calls at a time (never their number), and its `Scenario` says which of
calls, further runs and faults go together, as a run with all of them is too large;
`MaxTime` the clock of `ReleaseLease`; `Scenario` of `AsyncLab` bounds requests,
cancellations and faults together, so that a run is small in one of them when it is
large in another. The repository itself deploys two replicas of the async lab
(`k8s/async-lab/async-lab.yaml:272`).
`MaxFaults` also bounds, in `BrowserSupervisor`, clean-up timeouts, abandoned
recovery runs and forced removals; `ProfileRecovery` by itself needs no bound,
and neither does `ComputerLease`: their states are finite. Instances that use
symmetry check safety only.

### Properties

Invariants: `ConcurrencyBound`, `OneTaskPerAgent`, `DisjointWrites`,
`DependenciesAccepted`, `IndependentReview`, `QuietWhenReleased`;
`CapacityRespected`, `DrainHonest`, `SettledIsOver`;
`ProfileContinuity`, `ClosedIsProven`;
`HelperPostedOnce`, `RecoveredOnce`, `ReceiptIsTrue`, `ClosedIsQuiet`;
`UsedPodArchived`, `ClosedMeansGone`;
`ScheduleKept`, `OneExecutor` (of `Workloads` and of `AsyncLab`),
`StageAfterRun`; `AnsweredAlike`, `TargetExclusive`, `LaunchedOnce`;
`ReportsTrue`. One run checks types, `TypeOK`; the types of the
other modules with proofs are proved, not run.

Action properties: `StopSticks`, `ExecutedAtMostOnce`, `RevokedNeverLaunches`,
`StopReachesEffects`, `RecordsLast`, `OutcomeLasts`. Refinement: `SlotsRespected`
(`TeamRunner` implements `WorkSlots`: a slot is held by the row, executed by
`alive`, freed by a release), `TurnHonored` (`ComputerLease` implements
`BrowserTurn`: a browser is opened in its task's turn, once and before a stop, and
the turn passes on with the browser closed), `ProfileInCustody` (supervisors, recovery runs and
row implement `ProfileCustody`: the profile is had by one task from reservation
to closure, written by its browser and then by its helper, each started once,
and given up unlocked) and `LeaseHonored` (`ReleaseLease` implements
`SharedLease`: the Lease is taken only when it has expired in true time, renewed
by its holder, and given up only when the holder no longer trusts it). Liveness: `RecoveredEventually`,
`StopReachesExecutor`, `DueRunsSettle`, `RunsEnd`.

Five invariants are proved and not run, since what is run implies them or leaves
them no room: `OneOpenLease` (part of `TurnHonored`), `OneWriter` and
`HelperAfterStop` (parts of `ProfileInCustody`, the
second as far as the files are concerned), `WritesCovered` (of `LeaseHonored`),
and `StageOnce` of `Workloads`, a run is continued by one stage: its instance has
room for a single one. `TurnsHonored`, the refinement of `BrowserTurn` by the row
for all teammates at once, is proved and not run either: TLC agrees on an instance
like `admission`, where one claim may begin the turns of two, but needs too long for it.

### Three disagreements

`kubernetes-supervisor.js:148` promises that a startup that fails before its
container is bound to a node keeps "the original never-used-container cleanup
path". `startup` refutes `NeverUsedIsClosed` without a single lost call: the Pod
is created and recorded, the startup fails, the clean-up deletes the Pod and
then asks `observeTermination` to confirm the end. Every observer the
repository configures needs the node binding that this lease does not have
(`node-rpc-client.js:31`, `browser-node-adapter.js:27`), so the lease ends in
phase `reconciliation` and stays open. The unit test of the path passes
because its observer is a mock. No profile is at risk: what is lost is progress.

`resume` refutes `AlwaysScheduled`, again without a fault. Pausing a workload, or
editing its prompt, cancels the queued run and keeps its row, and the row keeps
its idempotency key, made of the workload and the instant. Resuming, or the rest
of the edit, then queues the next run: before the next tick that is the same
instant and the same key, `ON CONFLICT DO NOTHING` returns the cancelled row
(`store.js:439`), and no error is raised (`service.js:1344`), although
`createWorkload` treats the same outcome as one (`service.js:652`). The workload
is enabled, its owner is told that it was resumed, and no run of it ever comes.
`ScheduleKept`, which does pass, takes this and the other things that `lost` records
(section 2) as its exceptions, and says that no others are needed: however the
calls overlap each other and the workers, an enabled workload whose schedule has
met none of these has a next run or somebody about to queue it. Each of
them is needed: leave one out of the model's `lost`, and TLC finds the loss.
What the exceptions name is what the code does not guard against; the hazards of
`PROJECT.json` that they excuse are listed there as covered by no property.

The third is stated by the last exception of `OutcomeLasts` in the run `asynclab`,
without which TLC refutes it, with no fault. `cancelRun` decides by a read of the
row that the run is queued, and then writes and reports "Queued run cancelled
before execution." (`service.js:917`); a test says that it "cancels queued runs
without executing them" (`service.test.js:980`). Between the read and the write a
worker may claim the run and read it in order to mark it as running; its copy is
then stored over the cancellation, and the adapter is launched. The test makes
the two calls one after the other. `CancelledUnexecuted` is the promise itself; it
is not checked by a run of its own, and to see it refuted, run `AsyncLab.cfg` with
`Scenario <- CancelScenario` and `CancelledUnexecuted` as its only invariant (15
steps, in seconds). What does hold is weaker: the adapter is launched once
(`LaunchedOnce`), and the outcome of a run changes only as `OutcomeLasts` says.

### Fairness

`TickStep` and `InvestigationStep` are weakly fair: the runner and the
reconciler are driven by interval timers (`runtime.js:164`), and a process that
is up answers its own awaits. A process that may crash gets the same fairness;
its steps are disabled once it is dead. `Observe` is strongly fair, because the
sweep of `listUnsettled` returns to every unsettled task in turn, whatever the
reconciler was busy with; `Boot` and `Observe` are fair only for processes that
do not crash. `Lapse` is weakly fair: leases end by the database
clock. Executors get no
fairness: the code makes no assumption that a model ever answers. `RecoveredEventually` is
therefore stated only for executors that are gone (`Recoverable`).

In `Workloads` the ticks of a living worker and the steps of its jobs are weakly
fair (interval timers, and executions that have time limits), and so is the end
of a claim that nobody renews; the owner owes nothing. In `AsyncLab` a process
goes on until it dies, drains again at every tick of its timer, an outage of
Valkey ends, and leases that nobody renews run out; requests, cancellations and
faults are not fair. Nothing live is claimed of `ReleaseLease`: a release that
waits gives up.

## 4. Proofs

`TeamTasksProofs` proves, for every set of agents, tasks, calls and every limit,
all the safety properties of `TeamTasks` that a run checks:

* `RowInvariant`, `TypeCorrect`: types together with `Numbering` (tasks are
  numbered without gaps and exist exactly with their request). The types alone
  are not inductive: a result makes the task's teammate rest, so one must know
  that the task has a request.
* `Lifecycle` (lemma): what one transaction can do to a status, read off the
  actions once. `SlotsOnlyByClaim` and `ClaimedBatch` follow: only a claim
  occupies slots, and then by a set that `Greedy` describes.
* `ActiveTasksApart`, `WritesApart`: `OneTaskPerAgent` and `DisjointWrites`.
  Within a batch a task is claimed beside those before it; overlap is symmetric.
* `ConcurrencyRespected`: `ConcurrencyBound`. The greatest task of a batch
  (lemma `GreatestOf`, by the well-foundedness of strict inclusion on finite
  sets) was taken below the limit, so the batch ends at most at the limit.
* `AcceptedBeforeUse`: `DependenciesAccepted`. A claim looks at its
  dependencies, and by `Lifecycle` acceptance is final.
* `RestedWhenReleased`: `QuietWhenReleased`. The lemma `EffectsInSlot` says what
  strengthens it: an effect or a browser can be open only in a slot.
* `VerdictsIndependent`: `IndependentReview`, since only `ReviewTask` writes a
  verdict (lemma `VerdictsOnlyByReview`) and what a task was asked never changes.
* `StopsLast` and `ClaimedOnce`: the action properties `StopSticks` and
  `ExecutedAtMostOnce`, one walk through the actions (lemma `StoppedAndDone`).
* `TurnsAreHonored`: `TurnsHonored`, the refinement of `BrowserTurn` by every
  teammate. Tasks that a transaction adds do not count for a turn (`TurnsOfOld`, with
  `NothingBeforeClaim`: nothing is on record for a task that was never claimed);
  so a step is one of the teammate's turn only if it touches its old tasks
  (`OthersTurn`), and then the task in progress is the only one (`AloneInTurn`). A batch of
  claims is one step of the row, and at most one of each teammate (`ClaimTurn`).

`TeamRunnerProofs` proves all the safety properties of `TeamRunner`, and both of
its refinements, for any number of processes, tasks, calls, drains, leases and
faults. No layer of `RunnerInv` is inductive without those before it:

* `Row`, `Memory`: types. `RowSteps` shows that every step of a process is a
  transaction of `TeamTasks` or leaves the row alone. `RunnerImplementsRow`
  (`RunnerSpec => Spec`) follows, and with it every theorem of `TeamTasksProofs`
  holds of the running system. The lemmas of that module about one transaction
  (`RowStep`, `Lifecycle`, `SlotsOnlyByClaim`) are what the other layers cite.
* `Lives`: what a process may remember at each await of its tick; nothing, once
  it is dead. A drain that has settled found the memory empty.
* `Room`: capacity that was read while a claim was being sent can only grow until the reply,
  since nothing but the same tick launches: `RunnerCapacity`.
* `Held`: a task is in at most one place, a reply on its way, waiting to be
  cancelled, executed or under investigation. A worker is `alive` only in a
  slot, and what a reconciler investigates is quiescent and stays so.
* `Accounts`: as long as no admission is uncertain, a living process knows every unreleased
  task it ever claimed. This is what makes a drain honest, and the
  reason why `runTick` must note a lost reply before anything else.

`RunnerKeepsRow` states what the row's theorems make of the running system.
`RunnerDrains`, `RunnerSettles`, `RunnerRevokes` and `RunnerStops` follow, the
last two action by action. `RunnerImplementsSlots` (`RunnerSpec =>
SlotsRespected`) maps every step to one of `WorkSlots` or to a stutter: a claim
takes slots (`SlotsTaken`, with `ConcurrencyBound` of the row), a launch executes,
a report or a recovery frees (`SlotFreed`), the rest leaves them (`SlotsKept`).

`ComputerLeaseProofs` proves all the safety properties of `ComputerLease`. The
inductive invariant `IInv` has three layers over the types: `Sound` (which pairs
of lease and helper may be on record), `Counted` (what was granted is what the
helper remembers) and `Held` (an open lease keeps its task in the slot, and one
task of the teammate is in a slot). `UpdatedLease` and `AdvancedHelper` show that
an accepted update leaves a sound record; `Recorded` lifts that to the table;
`LeaseInvariant` goes through the actions. The promises then follow in a few
lines, `RecordsAreFinal` by one more walk through the actions, and `TurnIsHonored`
(`Spec => TurnHonored`) by another: of the many updates only reservation and
closure are steps of `BrowserTurn` (`SamePhase`, `AdvanceTurns`), since on a
sound record the phase says whether a lease is open (`OpenByPhase`). Its `TypeOK` is proved
and not checked by a run; `OneProfile` (`ProfileContinuity`) is stated for every task.

`ProfileRecoveryProofs` proves the four promises of `ProfileRecovery`, for
any number of node boots, tasks and objects, with every run given up anywhere:

* `TokensHeld`, and from it `SettledOnce` and `WrittenAtMostOnce`
  (`HelperPostedOnce`, `RecoveredOnce`).
  The bounds on the history are not inductive: `Tokens` adds who may still
  send. At most one run holds the right to post (or to dispatch), the helper
  remembers it was handed out, and as long as somebody holds it nothing was
  sent. Transactions only make the helper grow (`AdvanceGrows`), so a right is
  never handed out twice; `LaunchHandsOut`, `LookupKeeps`, `CreateUses`,
  `IntentHandsOut` and `DispatchUses` are the steps that touch one.
* `RetirementSeen`: `ReceiptIsTrue`. In `Evidence` the directory has moved, or
  there is no receipt, no finished command and no run about to write a receipt.
* `QuietOnceClosed`: `ClosedIsQuiet`. `Remains` relates what the cluster still
  has of a helper to the record: nothing before the first request; a recorded
  stop means that its container has exited; a closed helper has no Pod, and
  one that was launched has its stop. `Tokens` is needed once more: that the
  Pod is gone says little while somebody may still ask for it.

`BrowserSupervisorProofs` is about the composed system: supervisors, recovery
runs, the row and the cluster. `SystemKeepsRecord` (`SystemSpec => Spec`) maps
every step to a transaction of `ComputerLease` or to a stutter: for this a
supervisor's updates must be well formed (`RequestsAreUpdates`), whatever its
copy of the lease and the answers it found. The invariants of the layers below
carry over with it (`Carried`: `IInv`, `Tokens`, `Evidence` and `Remains`, by
`SystemCarries`), so that the system's own invariant, `Managed`, can rest on
them. It says of one supervisor, wherever it waits:
* `Remembers`: its copy is an earlier state of the row, which forgets nothing;
* `Known`: a Pod that it does not know of, and does not hold uncertain, was never
  asked for. This is what the flags `podAttempted` and `uncertainPod` are for;
* `Placed`: while it provisions nothing is being deleted, and once it goes on
  from its last look at the Pod no request is in flight;
* `Archived`: a browser that could be used is bound, and is given up only with
  its stop on record, which was read from a container that had exited;
* `Gone`: what is closed, or about to be, has no Pod, and its profile is
  untouched, released or recovered.

`PodsArchived` and `ClosedIsGone` follow from one task's `Managed`.
`ProfileHasOneWriter` joins all the layers: a running browser means an open lease without a
stop on record (`Archived`), a running helper an open one with it (`Remains`),
and of the leases of the teammate one is open (`IInv`).

`CustodyIsKept` (`SystemSpec => ProfileInCustody`) is the refinement of
`ProfileCustody`, and needs all the layers at once. What the abstract
specification asks of each of its actions is what was proved of states before:
custody is received from nobody because one lease of the teammate is open, a
browser starts with no lock because the lock of an earlier task is gone once its
lease is closed (`Gone`), a helper starts once because its Pod is requested once
(`Tokens`), and the profile is surrendered without writers and lock because a
closed lease has neither. What the states do not tell is how they follow one
another: a step is a transaction of the row, which receives or surrenders the
profile (`RowPasses`), or one of a container or a lock, under the open lease
(`ContainersPass`), or it changes nothing of this (`StepsAct`). `SystemSettlesOnce` and
`SystemKeepsLeases` state for the composed system what `ProfileRecoveryProofs`
and `ComputerLeaseProofs` promise of their parts.

`ReleaseLeaseProofs` proves `WritesCovered` and `ReportsTrue` for any number of
releases, durations and clocks that differ by no more than `StaleAfter -
Duration`. Neither is inductive; the chain of invariants is
* `Pending`, `Sent`: who may still have which write on its way;
* `Tested`: what a write that will pass its test can rely on. A renewal or a
  release that still matches is the holder's; a take that matches finds the Lease free or
  `StaleAfter` old by its sender's clock;
* `Leased`: a release that works under a Lease that has not ended by its own
  clock holds it. Another may only take it `StaleAfter` after its renewal by a
  clock that is at most `MaxSkew` ahead: this is the only use of the assumption;
* `Done`: past its patch, and while it holds the Lease, the template is its own,
  and every other patch under way fails its test.

`LeaseIsHonored` (`Spec => LeaseHonored`) maps every step to one of
`SharedLease` or to a stutter. A write that passes its test is an `Acquire`, a
`Renew` or a `Drop` of the abstract lease at the moment it lands, whoever still
waits for its answer; `Tested` says that it is one that the abstract lease
allows, `Pending` that the holder has no trust left when it drops, and `Timely`,
the one new layer, that no write carries a time that its sender's clock has yet
to show. The assumption on the clocks is what makes staleness by a foreign clock
imply expiry in true time. `Covered` (`WritesCovered`) says the same of the states alone.

`AsyncLabProofs` proves the four invariants and the action property of the async lab for any number of
processes, requests, steps and faults. `IInv` is, over the types, `Copies` (what
a copy may be of), `Claimed` and `Locked` (who executes a run holds its claim and
its lock, or they are excused), `Held` (the same of the target), `Keyed` (a key
names one row, and who was answered was answered with it) and `Launches` (an
adapter that was launched without excuse has its run ended, asked to be
cancelled, or still in the hands of a worker that is past its launch). Each has a lemma of its own
with one step per action; `PresenceStep` (a row is never removed) and
`GuardsExclude` (two executors mean two broken guards) carry what they share.

`OutcomesLast` (`Spec => OutcomeLasts`) is the action property that the end of a
run stands. A worker that has read a run before it ended may write its copy back
afterwards, so that the proof needs one more layer, `Working`: the run that a worker executes
is open, or was cancelled under its hands, or its claim was broken. The exceptions in the property are the
three ways in which the code does overwrite an end, each found by TLC: a broken
claim; the one write of a cancellation that read the run before its end; and
a worker that goes on with a run which was cancelled under its hands, the race that
section 3 reports as a disagreement with the test.

`WorkloadsProofs` proves the invariants of `Workloads` for any number of
workers, ticks, runs by hand, exceptions and late heartbeats:

* `Rows`: which rows of the schedule can exist by now, that a job's run was due,
  and that there is always a last row of the schedule (`Top`).
* `Claims`: where no heartbeat was late, who executes a run holds its claim, a claim that
  ran out is nobody's, and whoever has settled a run left it settled.
  `ClaimedIsFree` says what a tick takes is executed by nobody.
* `Kept` strengthens `ScheduleKept`, which is far from inductive: that something
  is pending says nothing about what becomes of it. It speaks of the last row of
  the schedule only, and of a workload that is enabled, has not met one of the
  losses, and has no call under way that is still to queue a run (`Unattended`).
  There, that row is not cancelled, unless a deletion is under way (`Lasts`); if it
  is settled, its worker still owes the next (`Owed`); and a worker that believes the
  workload to be paused, and will therefore queue nothing, has a later row after
  its own (`Outrun`). Nothing is assumed of the other calls: any number of
  them may be anywhere. The lemmas `KeptEnsures` and `KeptEnsureNext` are the two steps
  that queue a row, and `KeptFrame` is all the others; `CallsWrite`, `CallsCancel`
  and `CallMoves` say what the statements of the owner change.
* `Once` strengthens `StageOnce`. An exception after the stage was queued takes the
  run through `failRun` and `scheduleFollowupStage` again; nothing in the tables keeps
  it from queueing the stage twice. `Past` says why it does not: a stage on
  success is not due to a run that has failed by then, a stage on failure is queued
  only on the second way, which ends at the next exception. For a stage that
  follows every outcome there is no such reason, and TLC finds the second one
  after a single exception: `StageOnce` excepts it.

Assumptions are `TeamAssumption`, `RunnerAssumption`, `LeaseAssumption`, `RecoveryAssumption`,
`SupervisorAssumption`, `AsyncAssumption`, `WorkloadAssumption` and `ReleaseAssumption`: the
constants have the types the code gives them, "none" is not one of the values,
the stopped browser that a recovery starts from had a volume and was seen
to stop, a scenario of `Workloads` names calls, further runs that are already
over, and faults within their bounds (`ScenarioAssumption`), requests with one key are for one target, and clocks differ by at most
what the timeouts leave.

Model-checked only: the liveness of `TeamRunner`, `Workloads` and `AsyncLab`,
which is beyond the prover used.

## 5. Plan

1. *Browser admission* (`supervised-runtime.js`) over `BrowserSupervisor`, and
   progress: a closed supervisor without faults closes its lease. Retries of
   `stop()` and of a recovery that failed do not exist in the code, so that
   progress can only be promised for a run that nothing interrupts.
2. *Model broker*: single flight and budget across awaits, close during a call.
3. *Row, second part*: routines, command receipts and their limit, messages.
4. *Agent runs* (status transitions under a run lock) and *foreground turns*.
5. An abstract specification shared between components: the claim with an expiry
   that `Workloads` and `AsyncLab` have in common.

## 6. Not modelled

The components listed in `PROJECT.json` with status `not_modelled`, each with
its reason: pure I/O (transport, file rendering), text processing (prompts,
model clients), user interfaces and packaging, and the concurrent subsystems
that the plan keeps for later. By lines these are nearly all of the repository:
what is modelled is its concurrent core. In the modelled part: routines,
receipts of commands, engine sessions and messages of the row; worker tools
other than artifact writes; the reads of `/proc`, cgroups and the container
runtime behind the observation of executors, taken as truthful; retries by
sub-agents and long-agent mode of the workloads; the event stream of the async
lab. Some hazards of `PROJECT.json` have no property: the helper that was moved to
reconciliation before its launch, which only an operator can resolve, and those
against which the code has no guard and makes no promise (of the workloads, the stale
write-back of `enabled`, the late cancellation of a pause, the worker that dies
before it queues the next run, the result of a worker whose heartbeat was late;
of the releases, the ConfigMap that lands late; of the async lab, the run that is
cancelled under its worker's hands, and the target's lock that runs out in use).
Properties name the latter as exceptions instead.

To check: `tlc -config <run>.cfg <module>.tla` for each run of `PROJECT.json`,
`tlapm <module>.tla` for `TeamTasksProofs`, `TeamRunnerProofs`,
`ComputerLeaseProofs`, `ProfileRecoveryProofs`, `BrowserSupervisorProofs`,
`WorkloadsProofs`, `ReleaseLeaseProofs` and `AsyncLabProofs`.
