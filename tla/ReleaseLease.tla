---------------------------- MODULE ReleaseLease ----------------------------
(***************************************************************************)
(* Releases of the shared backend (scripts/k3s-deployment-coordinator.js   *)
(* with src/deployment-coordination.js).  A release takes a Kubernetes     *)
(* Lease by compare-and-swap, renews it while it works, applies a          *)
(* ConfigMap, patches a Deployment, waits for its rollout and gives the    *)
(* Lease back.  Nothing at the cluster fences its writes: it asks whether  *)
(* it still owns the Lease, then writes.                                   *)
(*                                                                         *)
(* A write travels: kubectl may time out, be killed or lose the answer     *)
(* while the API server still commits it.  Every host has its own clock.   *)
(* A nested release (run -- ... deploy-release) is the process of its      *)
(* parent here, whose identity it uses and which waits for it.             *)
(*                                                                         *)
(* An operator X_Y states a bug one could plausibly write in X.            *)
(***************************************************************************)
EXTENDS Integers

CONSTANTS
    Release,        \* processes, each with an owner identity of its own
    Nobody,         \* holderIdentity: ""
    Original,       \* what was deployed before all of them
    Duration,       \* leaseDurationSeconds
    StaleAfter,     \* max(leaseDurationSeconds, DEFAULT_STALE_AFTER_SECONDS)
    MaxSkew,        \* the clocks of two hosts differ by no more
    MaxTime         \* bound on the clock

ASSUME ReleaseAssumption ==
    /\ Nobody \notin Release /\ Original \notin Release
    /\ {Duration, StaleAfter, MaxSkew, MaxTime} \subseteq Nat
    /\ Duration + MaxSkew <= StaleAfter

Part == {"backend", "frontend"}

VARIABLES
    now, skew,      \* the time, and what a host's clock is ahead of it
    lease,          \* the Lease: holder, renewTime, resourceVersion
    config,         \* per part, the release whose ConfigMap is applied
    template,       \* per part, the release whose pod template is deployed
    version,        \* per part, the resourceVersion of the Deployment
    wire,           \* writes on their way
    pc,             \* what each release does next, or awaits
    part,           \* the part it works on
    expected,       \* --expected-image
    seen,           \* the resourceVersion its patch will test
    until,          \* the end of its lease as it last read it
    renewing,       \* its renewal is awaited
    aborted,        \* controller.signal.aborted
    reported,       \* it has found everything done
    late            \* history: a ConfigMap was applied by no holder

cluster == <<lease, config, template, version, late>>
local == <<pc, part, expected, seen, until, renewing, aborted, reported>>
vars == <<now, skew, cluster, wire, local>>

\* What a write tests (seen) and when it was made: zero where it does not say.
Write ==
    [by : Release, kind : {"take", "renew", "release", "config", "patch"},
     part : Part, seen : Nat, time : Nat]

\* From the Lease acquired to the end of the operation.
Working == {"starting", "checking", "ready", "applying", "observing", "asserting",
            "patching", "rolling", "closing"}

ReleaseTypeOK ==
    /\ now \in 0..MaxTime
    /\ skew \in [Release -> 0..MaxSkew]
    /\ lease \in [holder : Release \cup {Nobody}, renew : Nat, version : Nat]
    /\ config \in [Part -> Release \cup {Original}]
    /\ template \in [Part -> Release \cup {Original}]
    /\ version \in [Part -> Nat]
    /\ wire \subseteq Write
    /\ pc \in [Release -> Working \cup {"idle", "acquiring", "taking", "finishing",
                                        "releasing", "ended", "dead"}]
    /\ part \in [Release -> Part]
    /\ expected \in [Release -> Release \cup {Original}]
    /\ seen \in [Release -> Nat]
    /\ until \in [Release -> Nat]
    /\ renewing \in [Release -> BOOLEAN]
    /\ aborted \in [Release -> BOOLEAN]
    /\ reported \in [Release -> BOOLEAN]
    /\ late \in BOOLEAN

\* No Lease is there yet: version 0.
Init ==
    /\ now = 0
    /\ skew \in [Release -> 0..MaxSkew]
    /\ lease = [holder |-> Nobody, renew |-> 0, version |-> 0]
    /\ config = [t \in Part |-> Original]
    /\ template = [t \in Part |-> Original]
    /\ version = [t \in Part |-> 0]
    /\ wire = {}
    /\ pc = [p \in Release |-> "idle"]
    /\ part = [p \in Release |-> "backend"]
    /\ expected = [p \in Release |-> Original]
    /\ seen = [p \in Release |-> 0]
    /\ until = [p \in Release |-> 0]
    /\ renewing = [p \in Release |-> FALSE]
    /\ aborted = [p \in Release |-> FALSE]
    /\ reported = [p \in Release |-> FALSE]
    /\ late = FALSE

Ticks ==
    /\ now < MaxTime
    /\ now' = now + 1
    /\ UNCHANGED <<skew, cluster, wire, local>>

Clock(p) == now + skew[p]
Goes(p, to) == pc' = [pc EXCEPT ![p] = to]
Sends(p, kind, tested, time) ==
    wire' = wire \cup {[by |-> p, kind |-> kind, part |-> part[p],
                        seen |-> tested, time |-> time]}

-----------------------------------------------------------------------------
(* Taking the Lease.                                                       *)

\* The image is read before the release begins, and passed to it.
Begins(p) ==
    /\ pc[p] = "idle"
    /\ Goes(p, "acquiring")
    /\ part' \in {[part EXCEPT ![p] = t] : t \in Part}
    /\ expected' = [expected EXCEPT ![p] = template["backend"]]
    /\ UNCHANGED <<now, skew, cluster, wire, seen, until, renewing, aborted, reported>>

isLeaseStale(p) ==
    lease.holder = Nobody \/ Clock(p) - lease.renew >= StaleAfter

\* create, or a patch of a stale Lease.
Takes(p) ==
    /\ pc[p] = "acquiring" /\ lease.holder # p /\ isLeaseStale(p)
    /\ Sends(p, "take", lease.version, Clock(p))
    /\ Goes(p, "taking")
    /\ UNCHANGED <<now, skew, cluster, part, expected, seen, until, renewing, aborted,
                   reported>>

\* waitSeconds are over, a signal came, or a call failed: there is nothing to
\* release, whatever may have happened to the take.
StopsWaiting(p) ==
    /\ pc[p] \in {"acquiring", "taking"}
    /\ Goes(p, "ended")
    /\ UNCHANGED <<now, skew, cluster, wire, part, expected, seen, until, renewing,
                   aborted, reported>>

-----------------------------------------------------------------------------
(* Working under it.                                                       *)

\* assertOwned.
Owned(p) == lease.holder = p /\ Clock(p) < lease.renew + Duration

ReadsUntil(p) == until' = [until EXCEPT ![p] = lease.renew + Duration]

\* Every error in the operation, an abort and a signal included, ends it; what
\* is on its way stays there.
Fails(p) ==
    /\ pc[p] \in Working
    /\ Goes(p, "finishing")
    /\ UNCHANGED <<now, skew, cluster, wire, part, expected, seen, until, renewing,
                   aborted, reported>>

\* assertImage, for whatever the release is to do.
Starts(p) ==
    /\ pc[p] = "starting" /\ template["backend"] = expected[p]
    /\ Goes(p, "checking")
    /\ UNCHANGED <<now, skew, cluster, wire, part, expected, seen, until, renewing,
                   aborted, reported>>

Checks(p) ==
    /\ pc[p] = "checking" /\ ~aborted[p] /\ Owned(p)
    /\ ReadsUntil(p)
    /\ Goes(p, "ready")
    /\ UNCHANGED <<now, skew, cluster, wire, part, expected, seen, renewing, aborted,
                   reported>>

\* assertImage again, before each of the backend's writes.
ImageAsExpected(p) == part[p] = "backend" => template["backend"] = expected[p]

AppliesConfig(p) ==
    /\ pc[p] = "ready" /\ ~aborted[p] /\ ImageAsExpected(p)
    /\ Sends(p, "config", 0, 0)
    /\ Goes(p, "applying")
    /\ UNCHANGED <<now, skew, cluster, part, expected, seen, until, renewing, aborted,
                   reported>>

ReadsDeployment(p) ==
    /\ pc[p] = "observing" /\ ImageAsExpected(p)
    /\ seen' = [seen EXCEPT ![p] = version[part[p]]]
    /\ Goes(p, "asserting")
    /\ UNCHANGED <<now, skew, cluster, wire, part, expected, until, renewing, aborted,
                   reported>>

PatchesDeployment(p) ==
    /\ pc[p] = "asserting" /\ ~aborted[p] /\ Owned(p)
    /\ ReadsUntil(p)
    /\ Sends(p, "patch", seen[p], 0)
    /\ Goes(p, "patching")
    /\ UNCHANGED <<now, skew, cluster, part, expected, seen, renewing, aborted, reported>>

\* The rollout is over and the image is still the one deployed; deploy-release
\* goes on with the frontend.
RollsOut(p) ==
    /\ pc[p] = "rolling" /\ ~aborted[p]
    /\ part[p] = "backend" => template["backend"] = p
    /\ \/ Goes(p, "closing") /\ UNCHANGED part
       \/ /\ part[p] = "backend"
          /\ part' = [part EXCEPT ![p] = "frontend"]
          /\ Goes(p, "checking")
    /\ UNCHANGED <<now, skew, cluster, wire, expected, seen, until, renewing, aborted,
                   reported>>

Closes(p) ==
    /\ pc[p] = "closing" /\ ~aborted[p] /\ Owned(p)
    /\ ReadsUntil(p)
    /\ reported' = [reported EXCEPT ![p] = TRUE]
    /\ Goes(p, "finishing")
    /\ UNCHANGED <<now, skew, cluster, wire, part, expected, seen, renewing, aborted>>

\* finally: the renewal is awaited, and only the own Lease is released.
Finishes(p) ==
    /\ pc[p] = "finishing" /\ ~renewing[p]
    /\ IF lease.holder = p
       THEN Sends(p, "release", lease.version, 0) /\ Goes(p, "releasing")
       ELSE Goes(p, "ended") /\ UNCHANGED wire
    /\ UNCHANGED <<now, skew, cluster, part, expected, seen, until, renewing, aborted,
                   reported>>

\* The Lease cannot be read, or the answer does not come.
FailsToRelease(p) ==
    /\ pc[p] = "releasing" \/ (pc[p] = "finishing" /\ ~renewing[p])
    /\ Goes(p, "ended")
    /\ UNCHANGED <<now, skew, cluster, wire, part, expected, seen, until, renewing,
                   aborted, reported>>

\* The timer.  Bound: a Lease that was renewed at this instant is not renewed
\* again.
Renews(p) ==
    /\ pc[p] \in Working /\ ~renewing[p] /\ ~aborted[p]
    /\ Owned(p) /\ lease.renew < Clock(p)
    /\ Sends(p, "renew", lease.version, Clock(p))
    /\ renewing' = [renewing EXCEPT ![p] = TRUE]
    /\ UNCHANGED <<now, skew, cluster, pc, part, expected, seen, until, aborted, reported>>

\* The Lease is not ours any more, or a call failed or timed out.
FailsToRenew(p) ==
    /\ pc[p] \in Working \/ renewing[p]
    /\ pc[p] # "dead" /\ ~aborted[p]
    /\ aborted' = [aborted EXCEPT ![p] = TRUE]
    /\ renewing' = [renewing EXCEPT ![p] = FALSE]
    /\ UNCHANGED <<now, skew, cluster, wire, pc, part, expected, seen, until, reported>>

Crash(p) ==
    /\ pc[p] \notin {"idle", "ended", "dead"}
    /\ Goes(p, "dead")
    /\ UNCHANGED <<now, skew, cluster, wire, part, expected, seen, until, renewing,
                   aborted, reported>>

-----------------------------------------------------------------------------
(* The API server.  It answers, or the answer is lost.                     *)

\* kubectl's caller is still there and gets the answer.
Answers(p, awaited, to) ==
    \/ pc[p] = awaited /\ ~aborted[p] /\ Goes(p, to)
    \/ UNCHANGED pc

\* buildLeasePatch, buildRenewPatch and buildReleasePatch test the version.
Matches_Holder(w) == w.kind = "take" \/ lease.holder = w.by
Matches(w) == lease.version = w.seen

Becomes(holder, renew) ==
    lease' = [holder |-> holder, renew |-> renew, version |-> lease.version + 1]

CommitsTake(w) ==
    /\ w.kind = "take"
    /\ IF Matches(w)
       THEN Becomes(w.by, w.time) /\ Answers(w.by, "taking", "starting")
       ELSE UNCHANGED lease /\ Answers(w.by, "taking", "acquiring")
    /\ UNCHANGED <<config, template, version, late, renewing, aborted>>

\* A renewal that is refused aborts the release; one nobody awaits is no news.
CommitsRenew(w) ==
    /\ w.kind = "renew"
    /\ IF Matches(w) THEN Becomes(w.by, w.time) ELSE UNCHANGED lease
    /\ \/ /\ renewing[w.by] /\ pc[w.by] # "dead"
          /\ renewing' = [renewing EXCEPT ![w.by] = FALSE]
          /\ aborted' = [aborted EXCEPT ![w.by] = IF Matches(w) THEN @ ELSE TRUE]
       \/ UNCHANGED <<renewing, aborted>>
    /\ UNCHANGED <<config, template, version, late, pc>>

CommitsRelease(w) ==
    /\ w.kind = "release"
    /\ IF Matches(w) THEN Becomes(Nobody, 0) ELSE UNCHANGED lease
    /\ \/ pc[w.by] = "releasing" /\ Goes(w.by, "ended")
       \/ UNCHANGED pc
    /\ UNCHANGED <<config, template, version, late, renewing, aborted>>

\* kubectl apply: no test of anything.
CommitsConfig(w) ==
    /\ w.kind = "config"
    /\ config' = [config EXCEPT ![w.part] = w.by]
    /\ late' = (late \/ lease.holder # w.by)
    /\ Answers(w.by, "applying", "observing")
    /\ UNCHANGED <<lease, template, version, renewing, aborted>>

\* buildDeploymentImagePatch tests the version, which the controller's own
\* updates of the status change too.
Unchanged_Image(w) == w.part = "backend" => template["backend"] = expected[w.by]
Unchanged(w) == version[w.part] = w.seen

CommitsPatch(w) ==
    /\ w.kind = "patch"
    /\ \/ /\ Unchanged(w)
          /\ template' = [template EXCEPT ![w.part] = w.by]
          /\ version' = [version EXCEPT ![w.part] = @ + 1]
          /\ Answers(w.by, "patching", "rolling")
       \/ UNCHANGED <<template, version>> /\ Answers(w.by, "patching", "finishing")
    /\ UNCHANGED <<lease, config, late, renewing, aborted>>

Commits(w) ==
    /\ \/ CommitsTake(w) \/ CommitsRenew(w) \/ CommitsRelease(w)
       \/ CommitsConfig(w) \/ CommitsPatch(w)
    /\ wire' = wire \ {w}
    /\ UNCHANGED <<now, skew, part, expected, seen, until, reported>>

-----------------------------------------------------------------------------
Step(p) ==
    \/ Begins(p) \/ Takes(p) \/ StopsWaiting(p)
    \/ Fails(p) \/ Starts(p) \/ Checks(p) \/ AppliesConfig(p) \/ ReadsDeployment(p)
    \/ PatchesDeployment(p) \/ RollsOut(p) \/ Closes(p)
    \/ Finishes(p) \/ FailsToRelease(p)
    \/ Renews(p) \/ FailsToRenew(p) \/ Crash(p)

Next ==
    \/ Ticks
    \/ \E p \in Release : Step(p)
    \/ \E w \in wire : Commits(w)

Spec == Init /\ [][Next]_vars

-----------------------------------------------------------------------------
(* What the coordinator promises.                                          *)

\* k8s/DEPLOYMENT.md:235: a release that writes, having found its Lease unexpired
\* at its own clock, holds it until that moment, whatever other hosts' clocks
\* say and whoever waits for it.
WritesCovered ==
    \A p \in Release :
        pc[p] \in {"ready", "applying", "patching"} /\ Clock(p) < until[p] =>
            lease.holder = p

\* The same in the one time that no host can read: what a clock shows is turned
\* back by what that clock is ahead.
Expiry == IF lease.holder = Nobody THEN 0
          ELSE lease.renew + Duration - skew[lease.holder]
Trusted == [p \in Release |->
              IF pc[p] \in {"ready", "applying", "patching"}
              THEN until[p] - skew[p] ELSE 0]

Shared == INSTANCE SharedLease WITH
    time <- now, holder <- lease.holder, expiry <- Expiry, trusted <- Trusted

\* deployment-coordination.js:139, k3s-deployment-coordinator.js:79: however late
\* the writes and however far apart the clocks, the Lease goes from release to
\* release as SharedLease says.
LeaseHonored == Shared!Spec

\* k3s-deployment-coordinator.js:186: what a release reports as done is there
\* while it holds the Lease: the template is its own, however late others' writes
\* come, and so is the ConfigMap if none was applied too late.
ReportsTrue ==
    \A p \in Release :
        reported[p] /\ lease.holder = p =>
            /\ template[part[p]] = p
            /\ config[part[p]] = p \/ late
=============================================================================
