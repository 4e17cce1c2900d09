------------------------- MODULE ReleaseLeaseProofs -------------------------
(***************************************************************************)
(* What the coordinator promises for any number of releases and any        *)
(* bounds, as long as the clocks differ by no more than StaleAfter exceeds *)
(* Duration.                                                               *)
(*                                                                         *)
(* Pending and Sent say who may still have which write on its way, Tested  *)
(* what a write that will pass its test can rely on, Leased that a release *)
(* which works loses its Lease to nobody before it has run out, and Done   *)
(* that a patch which could replace a finished one fails its test.  Each   *)
(* is inductive together with those before it.                             *)
(***************************************************************************)
EXTENDS ReleaseLease, TLAPS

Over == {"finishing", "releasing", "ended", "dead"}

Pending ==
    /\ \A w \in wire : w.kind = "take" =>
          /\ pc[w.by] \in {"taking", "ended", "dead"}
          /\ ~reported[w.by]
          /\ w.time <= now + MaxSkew
    /\ \A v, w \in wire : v.kind = "take" /\ w.kind = "take" /\ v.by = w.by => v = w
    /\ \A w \in wire : w.kind = "release" => pc[w.by] \in {"releasing", "ended", "dead"}
    /\ \A p \in Release : pc[p] \in {"idle", "acquiring", "taking"} => until[p] = 0
    /\ \A p \in Release : pc[p] \notin Over => ~reported[p]

Sent ==
    /\ \A w \in wire : w.kind \in {"config", "patch"} =>
          \/ pc[w.by] \in Over
          \/ w.kind = "config" /\ pc[w.by] = "applying" /\ w.part = part[w.by]
          \/ w.kind = "patch" /\ pc[w.by] = "patching" /\ w.part = part[w.by]
    /\ \A v, w \in wire :
          v.by = w.by /\ {v.kind, w.kind} \subseteq {"config", "patch"} =>
              pc[w.by] \in Over \/ v = w

Tested ==
    /\ \A w \in wire : w.kind \in {"take", "renew", "release"} => w.seen <= lease.version
    /\ \A w \in wire : w.seen = lease.version =>
          /\ w.kind = "take" =>
                lease.holder = Nobody \/ w.time >= lease.renew + StaleAfter
          /\ w.kind = "renew" => lease.holder = w.by /\ lease.renew <= w.time
          /\ w.kind = "release" => lease.holder = w.by
    /\ \A w \in wire : w.kind = "patch" => w.seen <= version[w.part]
    /\ \A p \in Release : pc[p] = "asserting" => seen[p] <= version[part[p]]

Leased ==
    \A p \in Release : pc[p] \in Working =>
        /\ Clock(p) < until[p] => lease.holder = p
        /\ lease.holder = p => until[p] <= lease.renew + Duration

Patched(p) == pc[p] \in {"rolling", "closing"} \/ reported[p]
Configured(p) == Patched(p) \/ pc[p] \in {"observing", "asserting", "patching"}

Done ==
    \A p \in Release : lease.holder = p =>
        /\ Patched(p) =>
              /\ template[part[p]] = p
              /\ \A w \in wire :
                    w.kind = "patch" /\ w.part = part[p] /\ w.by # p =>
                        w.seen < version[w.part]
        /\ Configured(p) => config[part[p]] = p \/ late

IInv == ReleaseTypeOK /\ Pending /\ Sent /\ Tested /\ Leased /\ Done
-----------------------------------------------------------------------------
\* Every step keeps the types.
LEMMA TypedStep ==
    ReleaseTypeOK /\ [Next]_vars => ReleaseTypeOK'
<1> SUFFICES ASSUME ReleaseTypeOK, [Next]_vars PROVE ReleaseTypeOK'
  OBVIOUS
<1> USE DEF ReleaseTypeOK, Write, Part, Working
<1> /\ {Duration, StaleAfter, MaxSkew, MaxTime} \subseteq Nat
    /\ Duration \in Nat /\ StaleAfter \in Nat /\ MaxSkew \in Nat /\ MaxTime \in Nat
    /\ Duration + MaxSkew <= StaleAfter
    /\ Nobody \notin Release
  BY ReleaseAssumption
<1>1. CASE Ticks
  BY <1>1 DEF Ticks, cluster, local
<1>2. ASSUME NEW p \in Release, Step(p) PROVE ReleaseTypeOK'
  <2>1. CASE Begins(p)
    BY <2>1 DEF Begins, cluster, local, Goes
  <2>2. CASE Takes(p)
    BY <2>2 DEF Takes, cluster, local, isLeaseStale, Sends, Goes, Clock
  <2>3. CASE StopsWaiting(p)
    BY <2>3 DEF StopsWaiting, cluster, local, Goes
  <2>4. CASE Fails(p)
    BY <2>4 DEF Fails, cluster, local, Goes
  <2>5. CASE Starts(p)
    BY <2>5 DEF Starts, cluster, local, Goes
  <2>6. CASE Checks(p)
    BY <2>6 DEF Checks, cluster, local, Owned, ReadsUntil, Goes, Clock
  <2>7. CASE AppliesConfig(p)
    BY <2>7 DEF AppliesConfig, cluster, local, ImageAsExpected, Sends, Goes
  <2>8. CASE ReadsDeployment(p)
    BY <2>8 DEF ReadsDeployment, cluster, local, ImageAsExpected, Goes
  <2>9. CASE PatchesDeployment(p)
    BY <2>9 DEF PatchesDeployment, cluster, local, Owned, ReadsUntil, Sends,
       Goes, Clock
  <2>10. CASE RollsOut(p)
    BY <2>10 DEF RollsOut, cluster, local, Goes
  <2>11. CASE Closes(p)
    BY <2>11 DEF Closes, cluster, local, Owned, ReadsUntil, Goes, Clock
  <2>12. CASE Finishes(p)
    BY <2>12 DEF Finishes, cluster, local, Sends, Goes
  <2>13. CASE FailsToRelease(p)
    BY <2>13 DEF FailsToRelease, cluster, local, Goes
  <2>14. CASE Renews(p)
    BY <2>14 DEF Renews, cluster, local, Owned, Sends, Clock
  <2>15. CASE FailsToRenew(p)
    BY <2>15 DEF FailsToRenew, cluster, local
  <2>16. CASE Crash(p)
    BY <2>16 DEF Crash, cluster, local, Goes
  <2> QED
    BY <1>2, <2>1, <2>2, <2>3, <2>4, <2>5, <2>6, <2>7, <2>8, <2>9, <2>10,
       <2>11, <2>12, <2>13, <2>14, <2>15, <2>16 DEF Step
<1>3. ASSUME NEW w \in wire, Commits(w) PROVE ReleaseTypeOK'
  <2> /\ wire' = wire \ {w}
      /\ UNCHANGED <<now, skew, part, expected, seen, until, reported>>
    BY <1>3 DEF Commits
  <2>1. CASE CommitsTake(w)
    BY <2>1 DEF CommitsTake, Matches, Becomes, Answers, Goes
  <2>2. CASE CommitsRenew(w)
    <3>1. aborted' \in [Release -> BOOLEAN] /\ renewing' \in [Release -> BOOLEAN]
      <4>1. CASE Matches(w)
        BY <2>2, <4>1 DEF CommitsRenew
      <4>2. CASE ~Matches(w)
        BY <2>2, <4>2 DEF CommitsRenew
      <4> QED
        BY <4>1, <4>2
    <3>2. lease' \in [holder : Release \cup {Nobody}, renew : Nat, version : Nat]
      BY <2>2 DEF CommitsRenew, Becomes
    <3> QED
      BY <2>2, <3>1, <3>2 DEF CommitsRenew
  <2>3. CASE CommitsRelease(w)
    BY <2>3 DEF CommitsRelease, Matches, Becomes, Goes
  <2>4. CASE CommitsConfig(w)
    BY <2>4 DEF CommitsConfig, Answers, Goes
  <2>5. CASE CommitsPatch(w)
    BY <2>5 DEF CommitsPatch, Unchanged, Answers, Goes
  <2> QED
    BY <1>3, <2>1, <2>2, <2>3, <2>4, <2>5 DEF Commits
<1>4. CASE UNCHANGED vars
  BY <1>4 DEF vars, cluster, local
<1> QED
  BY <1>1, <1>2, <1>3, <1>4 DEF Next

\* A release that has sent its take waits for it, or is over; it sends no
\* second one.
LEMMA PendingStep ==
    ReleaseTypeOK /\ Pending /\ [Next]_vars => Pending'
<1> SUFFICES ASSUME ReleaseTypeOK, Pending, [Next]_vars PROVE Pending'
  OBVIOUS
<1> USE DEF ReleaseTypeOK, Write, Pending, Over, Working
<1> /\ {Duration, StaleAfter, MaxSkew, MaxTime} \subseteq Nat
    /\ Duration \in Nat /\ StaleAfter \in Nat /\ MaxSkew \in Nat /\ MaxTime \in Nat
    /\ Duration + MaxSkew <= StaleAfter
    /\ Nobody \notin Release
  BY ReleaseAssumption
<1>1. CASE Ticks
  BY <1>1 DEF Ticks, cluster, local
<1>2. ASSUME NEW p \in Release, Step(p) PROVE Pending'
  <2>1. CASE Begins(p)
    BY <2>1 DEF Begins, cluster, local, Goes
  <2>2. CASE Takes(p)
    <3> DEFINE W == [by |-> p, kind |-> "take", part |-> part[p],
                     seen |-> lease.version, time |-> Clock(p)]
    <3>1. /\ wire' = wire \cup {W} /\ pc' = [pc EXCEPT ![p] = "taking"]
          /\ UNCHANGED <<now, reported, until>>
          /\ pc[p] = "acquiring"
      BY <2>2 DEF Takes, Sends, Goes, cluster
    <3>2. W.by = p /\ W.kind = "take" /\ W.time <= now + MaxSkew /\ ~reported[p]
      BY <3>1 DEF Clock
    <3>3. \A v \in wire : v.kind = "take" => v.by # p
      BY <3>1
    <3> HIDE DEF W
    <3> QED
      BY <3>1, <3>2, <3>3
  <2>3. CASE StopsWaiting(p)
    BY <2>3 DEF StopsWaiting, cluster, local, Goes
  <2>4. CASE Fails(p)
    BY <2>4 DEF Fails, cluster, local, Goes
  <2>5. CASE Starts(p)
    BY <2>5 DEF Starts, cluster, local, Goes
  <2>6. CASE Checks(p)
    BY <2>6 DEF Checks, cluster, local, Owned, ReadsUntil, Goes, Clock
  <2>7. CASE AppliesConfig(p)
    BY <2>7 DEF AppliesConfig, cluster, local, ImageAsExpected, Sends, Goes
  <2>8. CASE ReadsDeployment(p)
    BY <2>8 DEF ReadsDeployment, cluster, local, ImageAsExpected, Goes
  <2>9. CASE PatchesDeployment(p)
    BY <2>9 DEF PatchesDeployment, cluster, local, Owned, ReadsUntil, Sends,
       Goes, Clock
  <2>10. CASE RollsOut(p)
    BY <2>10 DEF RollsOut, cluster, local, Goes
  <2>11. CASE Closes(p)
    BY <2>11 DEF Closes, cluster, local, Owned, ReadsUntil, Goes, Clock
  <2>12. CASE Finishes(p)
    BY <2>12 DEF Finishes, cluster, local, Sends, Goes
  <2>13. CASE FailsToRelease(p)
    BY <2>13 DEF FailsToRelease, cluster, local, Goes
  <2>14. CASE Renews(p)
    BY <2>14 DEF Renews, cluster, local, Owned, Sends, Clock
  <2>15. CASE FailsToRenew(p)
    BY <2>15 DEF FailsToRenew, cluster, local
  <2>16. CASE Crash(p)
    BY <2>16 DEF Crash, cluster, local, Goes
  <2> QED
    BY <1>2, <2>1, <2>2, <2>3, <2>4, <2>5, <2>6, <2>7, <2>8, <2>9, <2>10,
       <2>11, <2>12, <2>13, <2>14, <2>15, <2>16 DEF Step
<1>3. ASSUME NEW w \in wire, Commits(w) PROVE Pending'
  <2> /\ wire' = wire \ {w}
      /\ UNCHANGED <<now, skew, part, expected, seen, until, reported>>
    BY <1>3 DEF Commits
  <2>1. CASE CommitsTake(w)
    BY <2>1 DEF CommitsTake, Matches, Becomes, Answers, Goes
  <2>2. CASE CommitsRenew(w)
    BY <2>2 DEF CommitsRenew, Matches, Becomes
  <2>3. CASE CommitsRelease(w)
    BY <2>3 DEF CommitsRelease, Matches, Becomes, Goes
  <2>4. CASE CommitsConfig(w)
    BY <2>4 DEF CommitsConfig, Answers, Goes
  <2>5. CASE CommitsPatch(w)
    BY <2>5 DEF CommitsPatch, Unchanged, Answers, Goes
  <2> QED
    BY <1>3, <2>1, <2>2, <2>3, <2>4, <2>5 DEF Commits
<1>4. CASE UNCHANGED vars
  BY <1>4 DEF vars, cluster, local
<1> QED
  BY <1>1, <1>2, <1>3, <1>4 DEF Next

\* A release that goes on has no ConfigMap or patch on its way but the one it
\* waits for.
LEMMA SentStep ==
    ReleaseTypeOK /\ Sent /\ [Next]_vars => Sent'
<1> SUFFICES ASSUME ReleaseTypeOK, Sent, [Next]_vars PROVE Sent'
  OBVIOUS
<1> USE DEF ReleaseTypeOK, Write, Sent, Over
<1>1. CASE Ticks
  BY <1>1 DEF Ticks, cluster, local
<1>2. ASSUME NEW p \in Release, Step(p) PROVE Sent'
  <2>1. CASE Begins(p)
    BY <2>1 DEF Begins, cluster, local, Goes
  <2>2. CASE Takes(p)
    <3> DEFINE W == [by |-> p, kind |-> "take", part |-> part[p],
                     seen |-> lease.version, time |-> Clock(p)]
    <3>1. /\ wire' = wire \cup {W} /\ UNCHANGED part
          /\ pc[p] = "acquiring" /\ pc' = [pc EXCEPT ![p] = "taking"]
      BY <2>2 DEF Takes, Sends, Goes
    <3>2. W.by = p /\ W.kind = "take" /\ W.part = part[p]
      OBVIOUS
    <3> HIDE DEF W
    <3> QED
      BY <3>1, <3>2
  <2>3. CASE StopsWaiting(p)
    BY <2>3 DEF StopsWaiting, cluster, local, Goes
  <2>4. CASE Fails(p)
    BY <2>4 DEF Fails, cluster, local, Goes
  <2>5. CASE Starts(p)
    BY <2>5 DEF Starts, cluster, local, Goes
  <2>6. CASE Checks(p)
    BY <2>6 DEF Checks, cluster, local, Owned, ReadsUntil, Goes, Clock
  <2>7. CASE AppliesConfig(p)
    <3> DEFINE W == [by |-> p, kind |-> "config", part |-> part[p],
                     seen |-> 0, time |-> 0]
    <3>1. /\ wire' = wire \cup {W} /\ UNCHANGED part
          /\ pc[p] = "ready" /\ pc' = [pc EXCEPT ![p] = "applying"]
      BY <2>7 DEF AppliesConfig, Sends, Goes
    <3>2. W.by = p /\ W.kind = "config" /\ W.part = part[p]
      OBVIOUS
    <3> HIDE DEF W
    <3> QED
      BY <3>1, <3>2
  <2>8. CASE ReadsDeployment(p)
    BY <2>8 DEF ReadsDeployment, cluster, local, ImageAsExpected, Goes
  <2>9. CASE PatchesDeployment(p)
    <3> DEFINE W == [by |-> p, kind |-> "patch", part |-> part[p],
                     seen |-> seen[p], time |-> 0]
    <3>1. /\ wire' = wire \cup {W} /\ UNCHANGED part
          /\ pc[p] = "asserting" /\ pc' = [pc EXCEPT ![p] = "patching"]
      BY <2>9 DEF PatchesDeployment, Sends, Goes
    <3>2. W.by = p /\ W.kind = "patch" /\ W.part = part[p]
      OBVIOUS
    <3> HIDE DEF W
    <3> QED
      BY <3>1, <3>2
  <2>10. CASE RollsOut(p)
    BY <2>10 DEF RollsOut, cluster, local, Goes
  <2>11. CASE Closes(p)
    BY <2>11 DEF Closes, cluster, local, Owned, ReadsUntil, Goes, Clock
  <2>12. CASE Finishes(p)
    <3>1. CASE lease.holder # p
      BY <2>12, <3>1 DEF Finishes, cluster, Goes
    <3>2. CASE lease.holder = p
      <4> DEFINE W == [by |-> p, kind |-> "release", part |-> part[p],
                       seen |-> lease.version, time |-> 0]
      <4>1. /\ wire' = wire \cup {W} /\ UNCHANGED part
            /\ pc[p] = "finishing" /\ pc' = [pc EXCEPT ![p] = "releasing"]
        BY <2>12, <3>2 DEF Finishes, Sends, Goes
      <4>2. W.by = p /\ W.kind = "release" /\ W.part = part[p]
        OBVIOUS
      <4> HIDE DEF W
      <4> QED
        BY <4>1, <4>2
    <3> QED
      BY <3>1, <3>2
  <2>13. CASE FailsToRelease(p)
    BY <2>13 DEF FailsToRelease, cluster, local, Goes
  <2>14. CASE Renews(p)
    <3> DEFINE W == [by |-> p, kind |-> "renew", part |-> part[p],
                     seen |-> lease.version, time |-> Clock(p)]
    <3>1. /\ wire' = wire \cup {W} /\ UNCHANGED part
          /\ UNCHANGED pc
      BY <2>14 DEF Renews, Sends
    <3>2. W.by = p /\ W.kind = "renew" /\ W.part = part[p]
      OBVIOUS
    <3> HIDE DEF W
    <3> QED
      BY <3>1, <3>2
  <2>15. CASE FailsToRenew(p)
    BY <2>15 DEF FailsToRenew, cluster, local
  <2>16. CASE Crash(p)
    BY <2>16 DEF Crash, cluster, local, Goes
  <2> QED
    BY <1>2, <2>1, <2>2, <2>3, <2>4, <2>5, <2>6, <2>7, <2>8, <2>9, <2>10,
       <2>11, <2>12, <2>13, <2>14, <2>15, <2>16 DEF Step
<1>3. ASSUME NEW w \in wire, Commits(w) PROVE Sent'
  <2> /\ wire' = wire \ {w}
      /\ UNCHANGED <<now, skew, part, expected, seen, until, reported>>
    BY <1>3 DEF Commits
  <2>1. CASE CommitsTake(w)
    BY <2>1 DEF CommitsTake, Matches, Becomes, Answers, Goes
  <2>2. CASE CommitsRenew(w)
    BY <2>2 DEF CommitsRenew, Matches, Becomes
  <2>3. CASE CommitsRelease(w)
    BY <2>3 DEF CommitsRelease, Matches, Becomes, Goes
  <2>4. CASE CommitsConfig(w)
    BY <2>4 DEF CommitsConfig, Answers, Goes
  <2>5. CASE CommitsPatch(w)
    BY <2>5 DEF CommitsPatch, Unchanged, Answers, Goes
  <2> QED
    BY <1>3, <2>1, <2>2, <2>3, <2>4, <2>5 DEF Commits
<1>4. CASE UNCHANGED vars
  BY <1>4 DEF vars, cluster, local
<1> QED
  BY <1>1, <1>2, <1>3, <1>4 DEF Next

\* A write that would pass its test was made of the Lease as it is.
LEMMA TestedStep ==
    ReleaseTypeOK /\ Tested /\ [Next]_vars => Tested'
<1> SUFFICES ASSUME ReleaseTypeOK, Tested, [Next]_vars PROVE Tested'
  OBVIOUS
<1> USE DEF ReleaseTypeOK, Write, Tested, Working
<1> /\ {Duration, StaleAfter, MaxSkew, MaxTime} \subseteq Nat
    /\ Duration \in Nat /\ StaleAfter \in Nat /\ MaxSkew \in Nat /\ MaxTime \in Nat
    /\ Duration + MaxSkew <= StaleAfter
    /\ Nobody \notin Release
  BY ReleaseAssumption
<1>1. CASE Ticks
  BY <1>1 DEF Ticks, cluster, local
<1>2. ASSUME NEW p \in Release, Step(p) PROVE Tested'
  <2>1. CASE Begins(p)
    BY <2>1 DEF Begins, cluster, local, Goes
  <2>2. CASE Takes(p)
    <3> DEFINE W == [by |-> p, kind |-> "take", part |-> part[p],
                     seen |-> lease.version, time |-> Clock(p)]
    <3>1. /\ wire' = wire \cup {W} /\ pc' = [pc EXCEPT ![p] = "taking"]
          /\ UNCHANGED <<lease, version, seen, part>>
      BY <2>2 DEF Takes, Sends, Goes, cluster
    <3>2. W.kind = "take" /\ W.seen = lease.version
      OBVIOUS
    <3>3. lease.holder = Nobody \/ W.time >= lease.renew + StaleAfter
      BY <2>2 DEF Takes, isLeaseStale, Clock
    <3> HIDE DEF W
    <3> QED
      BY <3>1, <3>2, <3>3
  <2>3. CASE StopsWaiting(p)
    BY <2>3 DEF StopsWaiting, cluster, local, Goes
  <2>4. CASE Fails(p)
    BY <2>4 DEF Fails, cluster, local, Goes
  <2>5. CASE Starts(p)
    BY <2>5 DEF Starts, cluster, local, Goes
  <2>6. CASE Checks(p)
    BY <2>6 DEF Checks, cluster, local, Owned, ReadsUntil, Goes, Clock
  <2>7. CASE AppliesConfig(p)
    BY <2>7 DEF AppliesConfig, cluster, local, ImageAsExpected, Sends, Goes
  <2>8. CASE ReadsDeployment(p)
    BY <2>8 DEF ReadsDeployment, cluster, local, ImageAsExpected, Goes
  <2>9. CASE PatchesDeployment(p)
    BY <2>9 DEF PatchesDeployment, cluster, local, Owned, ReadsUntil, Sends,
       Goes, Clock
  <2>10. CASE RollsOut(p)
    BY <2>10 DEF RollsOut, cluster, local, Goes
  <2>11. CASE Closes(p)
    BY <2>11 DEF Closes, cluster, local, Owned, ReadsUntil, Goes, Clock
  <2>12. CASE Finishes(p)
    BY <2>12 DEF Finishes, cluster, local, Sends, Goes
  <2>13. CASE FailsToRelease(p)
    BY <2>13 DEF FailsToRelease, cluster, local, Goes
  <2>14. CASE Renews(p)
    BY <2>14 DEF Renews, cluster, local, Owned, Sends, Clock
  <2>15. CASE FailsToRenew(p)
    BY <2>15 DEF FailsToRenew, cluster, local
  <2>16. CASE Crash(p)
    BY <2>16 DEF Crash, cluster, local, Goes
  <2> QED
    BY <1>2, <2>1, <2>2, <2>3, <2>4, <2>5, <2>6, <2>7, <2>8, <2>9, <2>10,
       <2>11, <2>12, <2>13, <2>14, <2>15, <2>16 DEF Step
<1>3. ASSUME NEW w \in wire, Commits(w) PROVE Tested'
  <2> /\ wire' = wire \ {w}
      /\ UNCHANGED <<now, skew, part, expected, seen, until, reported>>
    BY <1>3 DEF Commits
  <2>1. CASE CommitsTake(w)
    BY <2>1 DEF CommitsTake, Matches, Becomes, Answers, Goes
  <2>2. CASE CommitsRenew(w)
    BY <2>2 DEF CommitsRenew, Matches, Becomes
  <2>3. CASE CommitsRelease(w)
    BY <2>3 DEF CommitsRelease, Matches, Becomes, Goes
  <2>4. CASE CommitsConfig(w)
    BY <2>4 DEF CommitsConfig, Answers, Goes
  <2>5. CASE CommitsPatch(w)
    BY <2>5 DEF CommitsPatch, Unchanged, Answers, Goes
  <2> QED
    BY <1>3, <2>1, <2>2, <2>3, <2>4, <2>5 DEF Commits
<1>4. CASE UNCHANGED vars
  BY <1>4 DEF vars, cluster, local
<1> QED
  BY <1>1, <1>2, <1>3, <1>4 DEF Next

\* A release that works loses its Lease to a take only when that take was made
\* after the end it had read: StaleAfter makes up for the skew.
LEMMA LeasedStep ==
    ReleaseTypeOK /\ Pending /\ Tested /\ Leased /\ [Next]_vars => Leased'
<1> SUFFICES ASSUME ReleaseTypeOK, Pending, Tested, Leased, [Next]_vars PROVE Leased'
  OBVIOUS
<1> USE DEF ReleaseTypeOK, Write, Pending, Tested, Leased, Over, Working,
        Clock
<1> /\ {Duration, StaleAfter, MaxSkew, MaxTime} \subseteq Nat
    /\ Duration \in Nat /\ StaleAfter \in Nat /\ MaxSkew \in Nat /\ MaxTime \in Nat
    /\ Duration + MaxSkew <= StaleAfter
    /\ Nobody \notin Release
  BY ReleaseAssumption
<1>1. CASE Ticks
  BY <1>1 DEF Ticks, cluster, local
<1>2. ASSUME NEW p \in Release, Step(p) PROVE Leased'
  <2>1. CASE Begins(p)
    BY <2>1 DEF Begins, cluster, local, Goes
  <2>2. CASE Takes(p)
    BY <2>2 DEF Takes, cluster, local, isLeaseStale, Sends, Goes
  <2>3. CASE StopsWaiting(p)
    BY <2>3 DEF StopsWaiting, cluster, local, Goes
  <2>4. CASE Fails(p)
    BY <2>4 DEF Fails, cluster, local, Goes
  <2>5. CASE Starts(p)
    BY <2>5 DEF Starts, cluster, local, Goes
  <2>6. CASE Checks(p)
    BY <2>6 DEF Checks, cluster, local, Owned, ReadsUntil, Goes
  <2>7. CASE AppliesConfig(p)
    BY <2>7 DEF AppliesConfig, cluster, local, ImageAsExpected, Sends, Goes
  <2>8. CASE ReadsDeployment(p)
    BY <2>8 DEF ReadsDeployment, cluster, local, ImageAsExpected, Goes
  <2>9. CASE PatchesDeployment(p)
    BY <2>9 DEF PatchesDeployment, cluster, local, Owned, ReadsUntil, Sends,
       Goes
  <2>10. CASE RollsOut(p)
    BY <2>10 DEF RollsOut, cluster, local, Goes
  <2>11. CASE Closes(p)
    BY <2>11 DEF Closes, cluster, local, Owned, ReadsUntil, Goes
  <2>12. CASE Finishes(p)
    BY <2>12 DEF Finishes, cluster, local, Sends, Goes
  <2>13. CASE FailsToRelease(p)
    BY <2>13 DEF FailsToRelease, cluster, local, Goes
  <2>14. CASE Renews(p)
    BY <2>14 DEF Renews, cluster, local, Owned, Sends
  <2>15. CASE FailsToRenew(p)
    BY <2>15 DEF FailsToRenew, cluster, local
  <2>16. CASE Crash(p)
    BY <2>16 DEF Crash, cluster, local, Goes
  <2> QED
    BY <1>2, <2>1, <2>2, <2>3, <2>4, <2>5, <2>6, <2>7, <2>8, <2>9, <2>10,
       <2>11, <2>12, <2>13, <2>14, <2>15, <2>16 DEF Step
<1>3. ASSUME NEW w \in wire, Commits(w) PROVE Leased'
  <2> /\ wire' = wire \ {w}
      /\ UNCHANGED <<now, skew, part, expected, seen, until, reported>>
    BY <1>3 DEF Commits
  <2>1. CASE CommitsTake(w)
    BY <2>1 DEF CommitsTake, Matches, Becomes, Answers, Goes
  <2>2. CASE CommitsRenew(w)
    BY <2>2 DEF CommitsRenew, Matches, Becomes
  <2>3. CASE CommitsRelease(w)
    BY <2>3 DEF CommitsRelease, Matches, Becomes, Goes
  <2>4. CASE CommitsConfig(w)
    BY <2>4 DEF CommitsConfig, Answers, Goes
  <2>5. CASE CommitsPatch(w)
    BY <2>5 DEF CommitsPatch, Unchanged, Answers, Goes
  <2> QED
    BY <1>3, <2>1, <2>2, <2>3, <2>4, <2>5 DEF Commits
<1>4. CASE UNCHANGED vars
  BY <1>4 DEF vars, cluster, local
<1> QED
  BY <1>1, <1>2, <1>3, <1>4 DEF Next

\* What the holder has patched stays: a patch of another release that tests the
\* Deployment as it is would have been sent by its holder.
LEMMA DoneStep ==
    ReleaseTypeOK /\ Pending /\ Sent /\ Tested /\ Done /\ [Next]_vars => Done'
<1> SUFFICES ASSUME ReleaseTypeOK, Pending, Sent, Tested, Done, [Next]_vars PROVE Done'
  OBVIOUS
<1> USE DEF ReleaseTypeOK, Write, Pending, Sent, Tested, Done, Patched,
        Configured, Over, Working
<1> /\ {Duration, StaleAfter, MaxSkew, MaxTime} \subseteq Nat
    /\ Duration \in Nat /\ StaleAfter \in Nat /\ MaxSkew \in Nat /\ MaxTime \in Nat
    /\ Duration + MaxSkew <= StaleAfter
    /\ Nobody \notin Release
  BY ReleaseAssumption
<1>1. CASE Ticks
  BY <1>1 DEF Ticks, cluster, local
<1>2. ASSUME NEW p \in Release, Step(p) PROVE Done'
  <2>1. CASE Begins(p)
    BY <2>1 DEF Begins, cluster, local, Goes
  <2>2. CASE Takes(p)
    BY <2>2 DEF Takes, cluster, local, isLeaseStale, Sends, Goes, Clock
  <2>3. CASE StopsWaiting(p)
    BY <2>3 DEF StopsWaiting, cluster, local, Goes
  <2>4. CASE Fails(p)
    BY <2>4 DEF Fails, cluster, local, Goes
  <2>5. CASE Starts(p)
    BY <2>5 DEF Starts, cluster, local, Goes
  <2>6. CASE Checks(p)
    BY <2>6 DEF Checks, cluster, local, Owned, ReadsUntil, Goes, Clock
  <2>7. CASE AppliesConfig(p)
    BY <2>7 DEF AppliesConfig, cluster, local, ImageAsExpected, Sends, Goes
  <2>8. CASE ReadsDeployment(p)
    BY <2>8 DEF ReadsDeployment, cluster, local, ImageAsExpected, Goes
  <2>9. CASE PatchesDeployment(p)
    BY <2>9 DEF PatchesDeployment, cluster, local, Owned, ReadsUntil, Sends,
       Goes, Clock
  <2>10. CASE RollsOut(p)
    BY <2>10 DEF RollsOut, cluster, local, Goes
  <2>11. CASE Closes(p)
    BY <2>11 DEF Closes, cluster, local, Owned, ReadsUntil, Goes, Clock
  <2>12. CASE Finishes(p)
    BY <2>12 DEF Finishes, cluster, local, Sends, Goes
  <2>13. CASE FailsToRelease(p)
    BY <2>13 DEF FailsToRelease, cluster, local, Goes
  <2>14. CASE Renews(p)
    BY <2>14 DEF Renews, cluster, local, Owned, Sends, Clock
  <2>15. CASE FailsToRenew(p)
    BY <2>15 DEF FailsToRenew, cluster, local
  <2>16. CASE Crash(p)
    BY <2>16 DEF Crash, cluster, local, Goes
  <2> QED
    BY <1>2, <2>1, <2>2, <2>3, <2>4, <2>5, <2>6, <2>7, <2>8, <2>9, <2>10,
       <2>11, <2>12, <2>13, <2>14, <2>15, <2>16 DEF Step
<1>3. ASSUME NEW w \in wire, Commits(w) PROVE Done'
  <2> /\ wire' = wire \ {w}
      /\ UNCHANGED <<now, skew, part, expected, seen, until, reported>>
    BY <1>3 DEF Commits
  <2>1. CASE CommitsTake(w)
    BY <2>1 DEF CommitsTake, Matches, Becomes, Answers, Goes
  <2>2. CASE CommitsRenew(w)
    BY <2>2 DEF CommitsRenew, Matches, Becomes
  <2>3. CASE CommitsRelease(w)
    BY <2>3 DEF CommitsRelease, Matches, Becomes, Goes
  <2>4. CASE CommitsConfig(w)
    <3> SUFFICES ASSUME NEW q \in Release, lease.holder = q PROVE
              /\ Patched(q)' => Patched(q)
              /\ Configured(q)' => config'[part[q]] = q \/ late'
      BY <2>4 DEF CommitsConfig
    <3>1. Patched(q)' => Patched(q)
      BY <2>4 DEF CommitsConfig, Answers, Goes
    <3>2. CASE Configured(q)
      <4>1. config[part[q]] = q \/ late
        BY <3>2
      <4>2. config'[part[q]] = w.by \/ config'[part[q]] = config[part[q]]
        BY <2>4 DEF CommitsConfig
      <4> QED
        BY <2>4, <3>1, <4>1, <4>2 DEF CommitsConfig
    <3>3. CASE ~Configured(q) /\ Configured(q)'
      <4>1. w.by = q /\ pc[q] = "applying" /\ w.part = part[q]
        BY <2>4, <3>3 DEF CommitsConfig, Answers, Goes
      <4> QED
        BY <2>4, <3>1, <4>1 DEF CommitsConfig
    <3> QED
      BY <3>1, <3>2, <3>3
  <2>5. CASE CommitsPatch(w)
    <3> SUFFICES ASSUME NEW q \in Release, lease.holder = q PROVE
              /\ Patched(q)' =>
                    /\ template'[part[q]] = q
                    /\ \A v \in wire \ {w} :
                          v.kind = "patch" /\ v.part = part[q] /\ v.by # q =>
                              v.seen < version'[v.part]
              /\ Configured(q)' => Configured(q)
      BY <2>5 DEF CommitsPatch
    <3>1. Configured(q)' => Configured(q)
      BY <2>5 DEF CommitsPatch, Answers, Goes
    <3>2. CASE Unchanged(w) /\ w.part = part[q] /\ w.by = q
      <4>1. CASE /\ template' = [template EXCEPT ![w.part] = w.by]
                 /\ version' = [version EXCEPT ![w.part] = version[w.part] + 1]
        <5>0. version'[part[q]] = version[part[q]] + 1
          <6>1. version \in [Part -> Nat] /\ w.part \in Part
            OBVIOUS
          <6> QED
            BY ONLY <3>2, <4>1, <6>1
        <5>1. \A v \in wire : v.kind = "patch" /\ v.part = part[q] =>
                  v.seen <= version[v.part] /\ version'[v.part] = version[v.part] + 1
          BY <5>0
        <5>2. \A v \in wire : v.seen \in Nat /\ v.part \in Part
          OBVIOUS
        <5>3. template'[part[q]] = q
          BY <3>2, <4>1
        <5> QED
          BY <3>1, <5>1, <5>2, <5>3
      <4>2. CASE UNCHANGED <<template, version>> /\ Answers(w.by, "patching", "finishing")
        BY <2>5, <3>1, <3>2, <4>2 DEF CommitsPatch, Answers, Goes
      <4>3. \/ /\ template' = [template EXCEPT ![w.part] = w.by]
               /\ version' = [version EXCEPT ![w.part] = version[w.part] + 1]
            \/ UNCHANGED <<template, version>> /\ Answers(w.by, "patching", "finishing")
        BY <2>5 DEF CommitsPatch
      <4> QED
        BY ONLY <4>1, <4>2, <4>3
    <3>3. CASE w.by # q
      BY <2>5, <3>1, <3>3 DEF CommitsPatch, Unchanged, Answers, Goes
    <3>4. CASE w.by = q /\ ~(Unchanged(w) /\ w.part = part[q])
      BY <2>5, <3>1, <3>4 DEF CommitsPatch, Unchanged, Answers, Goes
    <3> QED
      BY <3>2, <3>3, <3>4
  <2> QED
    BY <1>3, <2>1, <2>2, <2>3, <2>4, <2>5 DEF Commits
<1>4. CASE UNCHANGED vars
  BY <1>4 DEF vars, cluster, local
<1> QED
  BY <1>1, <1>2, <1>3, <1>4 DEF Next

\* Before anything was sent, nothing is on its way and nobody holds the Lease.
LEMMA Initially == Init => IInv
<1> SUFFICES ASSUME Init PROVE IInv
  OBVIOUS
<1> USE DEF Init
<1>1. ReleaseTypeOK
  <2> 0 \in 0..MaxTime
    BY ReleaseAssumption
  <2> QED
    BY DEF ReleaseTypeOK, Part
<1>2. Pending /\ Sent /\ Tested
  BY DEF Pending, Sent, Tested, Over
<1>3. Leased
  BY DEF Leased, Working
<1>4. Done
  BY ReleaseAssumption DEF Done
<1> QED
  BY <1>1, <1>2, <1>3, <1>4 DEF IInv

\* The invariant: what is in flight, and what the holder may rely on.
LEMMA Invariant == Spec => []IInv
<1>1. IInv /\ [Next]_vars => IInv'
  BY TypedStep, PendingStep, SentStep, TestedStep, LeasedStep, DoneStep DEF IInv
<1> QED
  BY Initially, <1>1, PTL DEF Spec

\* The coordinator's records, the cluster's objects and the writes in flight
\* keep their types.
THEOREM Typed == Spec => []ReleaseTypeOK
<1>1. IInv => ReleaseTypeOK
  BY DEF IInv
<1> QED
  BY Invariant, <1>1, PTL

\* A release that is writing, and found its Lease to run until a moment that has
\* not come at its own clock, is the holder: no other host's clock, wait or late
\* take makes another holder before.
THEOREM Covered == Spec => []WritesCovered
<1>1. IInv => WritesCovered
  BY DEF IInv, Leased, WritesCovered, Working
<1> QED
  BY Invariant, <1>1, PTL

\* While a release that reported its work as done holds the Lease, the Deployment
\* runs its template, whatever patches are still on their way, and the ConfigMap
\* is its own unless one was applied by no holder.
THEOREM Reported == Spec => []ReportsTrue
<1>1. IInv => ReportsTrue
  BY DEF IInv, Done, Patched, Configured, ReportsTrue
<1> QED
  BY Invariant, <1>1, PTL
-----------------------------------------------------------------------------
(* The coordinator implements SharedLease.                                 *)

\* A write carries a time that the sender's clock has shown.
Timely ==
    \A w \in wire : w.kind \in {"take", "renew"} => w.time <= now + skew[w.by]

LEMMA TimelyStep ==
    ReleaseTypeOK /\ Timely /\ [Next]_vars => Timely'
<1> SUFFICES ASSUME ReleaseTypeOK, Timely, [Next]_vars PROVE Timely'
  OBVIOUS
<1> /\ now \in Nat /\ skew \in [Release -> Nat] /\ wire \subseteq Write
    /\ MaxTime \in Nat /\ MaxSkew \in Nat
  BY ReleaseAssumption DEF ReleaseTypeOK
<1>1. ASSUME wire' \subseteq wire, UNCHANGED <<now, skew>> PROVE Timely'
  BY <1>1 DEF Timely
<1>2. ASSUME NEW p \in Release, NEW kind, NEW tested, NEW time,
             Sends(p, kind, tested, time), UNCHANGED <<now, skew>>,
             kind \in {"take", "renew"} => time = Clock(p)
      PROVE  Timely'
  <2> DEFINE W == [by |-> p, kind |-> kind, part |-> part[p],
                   seen |-> tested, time |-> time]
  <2>1. wire' = wire \cup {W}
    BY <1>2 DEF Sends
  <2>2. W.by = p /\ W.kind = kind /\ W.time = time
    OBVIOUS
  <2> HIDE DEF W
  <2> QED
    BY <1>2, <2>1, <2>2 DEF Timely, Clock
<1>3. CASE Ticks
  BY <1>3 DEF Ticks, Timely, Write
<1>4. ASSUME NEW p \in Release, Step(p) PROVE Timely'
  <2>1. CASE Takes(p) \/ AppliesConfig(p) \/ PatchesDeployment(p) \/ Renews(p)
    BY <1>2, <2>1 DEF Takes, AppliesConfig, PatchesDeployment, Renews
  <2>2. CASE Finishes(p)
    BY <1>1, <1>2, <2>2 DEF Finishes
  <2> QED
    BY <1>1, <1>4, <2>1, <2>2
    DEF Step, Begins, StopsWaiting, Fails, Starts, Checks, ReadsDeployment,
        RollsOut, Closes, FailsToRelease, FailsToRenew, Crash
<1>5. ASSUME NEW w \in wire, Commits(w) PROVE Timely'
  BY <1>1, <1>5 DEF Commits
<1>6. CASE UNCHANGED vars
  BY <1>1, <1>6 DEF vars
<1> QED
  BY <1>3, <1>4, <1>5, <1>6 DEF Next

Writing == {"ready", "applying", "patching"}
Elsewhere == {"starting", "checking", "observing", "asserting", "rolling", "closing",
              "idle", "acquiring", "taking", "finishing", "releasing", "ended",
              "dead"}

\* What a step of p makes of its trust, and of nobody else's.
LEMMA TrustMoves ==
    ASSUME ReleaseTypeOK, NEW p \in Release, NEW to, NEW end,
           Goes(p, to), until' = [until EXCEPT ![p] = end], UNCHANGED skew
    PROVE  Trusted' = [Trusted EXCEPT
                         ![p] = IF to \in Writing THEN end - skew[p] ELSE 0]
  BY DEF ReleaseTypeOK, Goes, Trusted, Writing

LEMMA LetsGo ==
    ASSUME ReleaseTypeOK, NEW p \in Release, NEW to \in Elsewhere,
           Goes(p, to), until' = [until EXCEPT ![p] = until'[p]],
           UNCHANGED <<now, skew, lease>>
    PROVE  Shared!LetGo(p)
<1>1. Trusted' = [Trusted EXCEPT ![p] = 0]
  BY TrustMoves DEF Writing, Elsewhere
<1>2. UNCHANGED Expiry
  BY DEF Expiry
<1> QED
  BY <1>1, <1>2 DEF Shared!LetGo

LEMMA OwnersTrust ==
    ASSUME ReleaseTypeOK, NEW p \in Release, NEW to \in Writing, Owned(p),
           Goes(p, to), ReadsUntil(p), UNCHANGED <<now, skew, lease>>
    PROVE  Shared!Trust(p)
<1>1. lease.holder = p /\ p # Nobody
  BY ReleaseAssumption DEF Owned
<1>2. Expiry = lease.renew + Duration - skew[p] /\ UNCHANGED Expiry
  BY <1>1 DEF Expiry
<1>3. now < Expiry
  BY <1>2, ReleaseAssumption DEF Owned, Clock, ReleaseTypeOK
<1>4. Trusted' = [Trusted EXCEPT ![p] = Expiry]
  <2> DEFINE end == lease.renew + Duration
  <2>1. until' = [until EXCEPT ![p] = end]
    BY DEF ReadsUntil
  <2>2. Expiry = end - skew[p]
    BY <1>2, ReleaseAssumption DEF ReleaseTypeOK
  <2> HIDE DEF end
  <2> QED
    BY <2>1, <2>2, TrustMoves
<1> QED
  BY <1>1, <1>2, <1>3, <1>4 DEF Shared!Trust

\* A step of a release leaves the Lease alone: it starts or stops to trust it.
LEMMA StepShared ==
    ASSUME ReleaseTypeOK, NEW p \in Release, Step(p)
    PROVE  [Shared!Next]_(Shared!leaseVars)
<1>0. until \in [Release -> Nat] /\ pc \in [Release -> Writing \cup Elsewhere]
  BY DEF ReleaseTypeOK, Working, Writing, Elsewhere
<1>1. UNCHANGED <<now, skew, lease>>
  BY DEF Step, Begins, Takes, StopsWaiting, Fails, Starts, Checks,
         AppliesConfig, ReadsDeployment, PatchesDeployment, RollsOut, Closes,
         Finishes, FailsToRelease, Renews, FailsToRenew, Crash, cluster
<1>2. ASSUME UNCHANGED Trusted PROVE UNCHANGED Shared!leaseVars
  BY <1>1, <1>2 DEF Shared!leaseVars, Expiry
<1>3. CASE \/ Begins(p) \/ Takes(p) \/ StopsWaiting(p) \/ Fails(p) \/ Starts(p)
           \/ ReadsDeployment(p) \/ RollsOut(p) \/ Finishes(p)
           \/ FailsToRelease(p) \/ Crash(p)
  <2>1. until' = [until EXCEPT ![p] = until'[p]]
    BY <1>0, <1>3
    DEF Begins, Takes, StopsWaiting, Fails, Starts, ReadsDeployment, RollsOut,
        Finishes, FailsToRelease, Crash
  <2>2. \E to \in Elsewhere : Goes(p, to)
    BY <1>3
    DEF Begins, Takes, StopsWaiting, Fails, Starts, ReadsDeployment, RollsOut,
        Finishes, FailsToRelease, Crash, Elsewhere
  <2>3. Shared!LetGo(p)
    BY <1>1, <2>1, <2>2, LetsGo
  <2> QED
    BY <2>3 DEF Shared!Next
<1>4. CASE Closes(p)
  <2>1. until' = [until EXCEPT ![p] = until'[p]] /\ Goes(p, "finishing")
    BY <1>0, <1>4 DEF Closes, ReadsUntil
  <2>2. Shared!LetGo(p)
    BY <1>1, <2>1, LetsGo DEF Elsewhere
  <2> QED
    BY <2>2 DEF Shared!Next
<1>5. CASE Checks(p) \/ PatchesDeployment(p)
  <2>1. Owned(p) /\ ReadsUntil(p) /\ \E to \in Writing : Goes(p, to)
    BY <1>5 DEF Checks, PatchesDeployment, Writing
  <2>2. Shared!Trust(p)
    BY <1>1, <2>1, OwnersTrust
  <2> QED
    BY <2>2 DEF Shared!Next
<1>6. CASE AppliesConfig(p)
  <2>1. /\ pc[p] = "ready" /\ pc' = [pc EXCEPT ![p] = "applying"]
        /\ UNCHANGED <<until, skew>>
    BY <1>6 DEF AppliesConfig, Goes
  <2>2. UNCHANGED Trusted
    BY <1>0, <2>1 DEF Trusted
  <2> QED
    BY <1>2, <2>2
<1>7. CASE Renews(p) \/ FailsToRenew(p)
  <2>1. UNCHANGED Trusted
    BY <1>7 DEF Renews, FailsToRenew, Trusted
  <2> QED
    BY <1>2, <2>1
<1> QED
  BY <1>3, <1>4, <1>5, <1>6, <1>7 DEF Step

\* A commit moves the Lease, or lets its sender go on and stop trusting it.
LEMMA CommitShared ==
    ASSUME ReleaseTypeOK, Pending, Tested, Timely, NEW w \in wire, Commits(w)
    PROVE  [Shared!Next]_(Shared!leaseVars)
<1> DEFINE p == w.by
<1> USE DEF Over
<1>0. /\ w \in Write /\ p \in Release /\ p # Nobody /\ w.time \in Nat
      /\ now \in Nat /\ skew \in [Release -> Nat] /\ skew[p] <= MaxSkew
      /\ until \in [Release -> Nat] /\ pc \in [Release -> Writing \cup Elsewhere]
      /\ lease \in [holder : Release \cup {Nobody}, renew : Nat, version : Nat]
      /\ Duration \in Nat /\ StaleAfter \in Nat /\ MaxSkew \in Nat
      /\ Duration + MaxSkew <= StaleAfter
  BY ReleaseAssumption
  DEF ReleaseTypeOK, Write, Working, Writing, Elsewhere
<1>1. UNCHANGED <<now, skew, until>>
  BY DEF Commits
<1>2. ASSUME UNCHANGED lease, NEW from, NEW to \in Elsewhere,
             Answers(p, from, to)
      PROVE  [Shared!Next]_(Shared!leaseVars)
  <2>1. CASE UNCHANGED pc
    BY <1>1, <1>2, <2>1 DEF Shared!leaseVars, Expiry, Trusted
  <2>2. CASE Goes(p, to)
    <3>1. until' = [until EXCEPT ![p] = until'[p]]
      BY <1>0, <1>1
    <3>2. Shared!LetGo(p)
      BY <1>0, <1>1, <1>2, <2>2, <3>1, LetsGo
    <3> QED
      BY <1>0, <3>2 DEF Shared!Next
  <2> QED
    BY <1>2, <2>1, <2>2 DEF Answers
<1>3. ASSUME Becomes(p, w.time), w.time <= Clock(p)
      PROVE  /\ lease'.holder = p /\ Expiry' = w.time + Duration - skew[p]
             /\ Expiry' <= now + Duration
  <2>1. lease'.holder = p /\ lease'.renew = w.time
    BY <1>3 DEF Becomes
  <2>2. Expiry' = w.time + Duration - skew[p]
    BY <1>0, <1>1, <2>1 DEF Expiry
  <2> QED
    BY <1>0, <1>3, <2>1, <2>2 DEF Clock
<1>4. ASSUME CommitsTake(w), Matches(w) PROVE Shared!Acquire(p)
  <2>1. /\ Becomes(p, w.time) /\ Answers(p, "taking", "starting")
        /\ w.time <= Clock(p) /\ w.time <= now + MaxSkew
        /\ lease.holder = Nobody \/ w.time >= lease.renew + StaleAfter
    BY <1>4 DEF CommitsTake, Matches, Tested, Timely, Pending, Clock
  <2>2. lease.holder = Nobody \/ Expiry <= now
    BY <1>0, <2>1 DEF Expiry
  <2>3. UNCHANGED Trusted
    BY <1>0, <1>1, <2>1 DEF Answers, Goes, Trusted
  <2> QED
    BY <1>1, <1>3, <2>1, <2>2, <2>3 DEF Shared!Acquire, Shared!Grants
<1>5. ASSUME CommitsRenew(w), Matches(w) PROVE Shared!Renew(p)
  <2>1. /\ Becomes(p, w.time) /\ UNCHANGED pc
        /\ w.time <= Clock(p) /\ lease.holder = p /\ lease.renew <= w.time
    BY <1>5 DEF CommitsRenew, Matches, Tested, Timely, Clock
  <2>2. Expiry = lease.renew + Duration - skew[p]
    BY <1>0, <2>1 DEF Expiry
  <2>3. Expiry' >= Expiry
    BY <1>0, <1>3, <2>1, <2>2
  <2>4. UNCHANGED Trusted
    BY <1>1, <2>1 DEF Trusted
  <2> QED
    BY <1>1, <1>3, <2>1, <2>3, <2>4 DEF Shared!Renew, Shared!Grants
<1>6. ASSUME CommitsRelease(w), Matches(w) PROVE Shared!Drop(p)
  <2>1. /\ Becomes(Nobody, 0) /\ lease.holder = p
        /\ pc[p] \in {"releasing", "ended", "dead"}
        /\ UNCHANGED pc \/ (pc[p] = "releasing" /\ Goes(p, "ended"))
    BY <1>6 DEF CommitsRelease, Matches, Tested, Pending
  <2>2. Trusted[p] = 0 /\ UNCHANGED Trusted
    BY <1>0, <1>1, <2>1 DEF Goes, Trusted
  <2>3. lease'.holder = Nobody /\ Expiry' = 0
    BY <2>1 DEF Becomes, Expiry
  <2> QED
    BY <1>0, <1>1, <2>1, <2>2, <2>3 DEF Shared!Drop
<1>7. CASE CommitsTake(w) /\ ~Matches(w)
  BY <1>2, <1>7 DEF CommitsTake, Elsewhere
<1>8. CASE (CommitsRenew(w) \/ CommitsRelease(w)) /\ ~Matches(w)
  <2>1. /\ UNCHANGED lease
        /\ UNCHANGED pc \/ (pc[p] = "releasing" /\ Goes(p, "ended"))
    BY <1>8 DEF CommitsRenew, CommitsRelease
  <2>2. UNCHANGED Trusted
    BY <1>0, <1>1, <2>1 DEF Goes, Trusted
  <2> QED
    BY <1>1, <2>1, <2>2 DEF Shared!leaseVars, Expiry
<1>9. CASE CommitsConfig(w)
  BY <1>2, <1>9 DEF CommitsConfig, Elsewhere
<1>10. CASE CommitsPatch(w)
  <2>1. /\ UNCHANGED lease
        /\ \E to \in {"rolling", "finishing"} : Answers(p, "patching", to)
    BY <1>10 DEF CommitsPatch
  <2> QED
    BY <1>2, <2>1 DEF Elsewhere
<1> QED
  BY <1>0, <1>4, <1>5, <1>6, <1>7, <1>8, <1>9, <1>10 DEF Commits, Shared!Next

\* deployment-coordination.js:139, k3s-deployment-coordinator.js:79: the Lease is
\* taken only where it has expired in the one time no host can read, renewed by
\* its holder for Duration at most, and given up by a release that has stopped
\* trusting it, whatever its writes and everyone's clocks do.
THEOREM LeaseIsHonored == Spec => LeaseHonored
<1>1. Init => Shared!Init /\ Timely
  <2> SUFFICES ASSUME Init PROVE Shared!Init /\ Timely
    OBVIOUS
  <2> QED
    BY DEF Init, Shared!Init, Expiry, Trusted, Timely
<1>2. ReleaseTypeOK /\ Timely /\ [Next]_vars => Timely'
  BY TimelyStep
<1>3. IInv /\ Timely /\ [Next]_vars => [Shared!Next]_(Shared!leaseVars)
  <2> SUFFICES ASSUME IInv, Timely, [Next]_vars
               PROVE  [Shared!Next]_(Shared!leaseVars)
    OBVIOUS
  <2>1. CASE Ticks
    BY <2>1 DEF Ticks, cluster, local, Expiry, Trusted, Shared!Passes, Shared!Next
  <2>2. CASE UNCHANGED vars
    BY <2>2 DEF vars, cluster, local, Expiry, Trusted, Shared!leaseVars
  <2> QED
    BY <2>1, <2>2, StepShared, CommitShared DEF IInv, Next
<1>4. IInv => ReleaseTypeOK
  BY DEF IInv
<1> QED
  BY <1>1, <1>2, <1>3, <1>4, Invariant, PTL DEF Spec, LeaseHonored, Shared!Spec

=============================================================================
