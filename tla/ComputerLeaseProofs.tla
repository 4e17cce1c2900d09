------------------------- MODULE ComputerLeaseProofs -------------------------
(***************************************************************************)
(* What the lease of a private browser promises for any number of tasks    *)
(* and objects.  Sound says which pairs of a lease and its helper can be   *)
(* on record, Counted ties the grants that were given out to what the      *)
(* helper remembers, and Held ties the leases to the slots of their tasks. *)
(* Together with the types they are inductive.                             *)
(***************************************************************************)
EXTENDS ComputerLease, TLAPS

Late == {"closing", "reconciliation", "closed"}

SoundLease(l) ==
    /\ l.phase = "none" => l = NoLease
    /\ l.binding # None => l.pod # None /\ l.pvc # None /\ l.container # None
    /\ l.stop # None => StopProven(l)
    /\ l.recovery # None => RecoveryProven(l) /\ l.phase \in Late

SoundHelper(h) ==
    /\ h.phase = "none" => h = NoHelper
    /\ h.phase = "reserved" => ~h.launched
    /\ h.pod # None \/ h.container # None => h.launched
    /\ h.binding # None => h.pod # None /\ h.container # None
    /\ h.stop # None => HelperStopProven(h)
    /\ h.phase = "ready" => h.binding # None
    /\ h.write # None => h.binding # None
    /\ h.phase = "closed" => HelperClosed(h)

Sound(l, h) ==
    /\ SoundLease(l)
    /\ SoundHelper(h)
    /\ h.phase # "none" => StopProven(l) /\ l.phase \in Late
    /\ l.phase = "closed" => Closed(l, h)

Counted(t) ==
    /\ launches[t] = 0 \/ (launches[t] = 1 /\ helper[t].launched)
    /\ writes[t] = IF helper[t].write = None THEN 0 ELSE 1

Held ==
    /\ \A t \in Task : status[t] = "queued" => lease[t].phase = "none"
    /\ \A t, u \in Task : MayReport(t) /\ MayReport(u) => t = u
    /\ \A t \in Task : Open(t) => MayReport(t)

IInv ==
    /\ TypeOK
    /\ \A t \in Task : Sound(lease[t], helper[t]) /\ Counted(t)
    /\ Held
    /\ ProfileContinuity

-----------------------------------------------------------------------------
(* Records: what an update makes of a sound pair.                          *)

LEMMA UpdatedLease ==
    ASSUME NEW l \in Leases, NEW h \in Helpers, NEW u \in Updates, Sound(l, h),
           u.phase \in LeaseStep[l.phase],
           Keeps(l.pod, u.pod), Keeps(l.pvc, u.pvc),
           Keeps(l.container, u.container), Keeps(l.binding, u.binding),
           u.binding # None => /\ Updated(l, u).pod # None
                               /\ Updated(l, u).pvc # None
                               /\ Updated(l, u).container # None,
           Closable(Updated(l, u), h)
    PROVE  Updated(l, u) \in Leases /\ Sound(Updated(l, u), h)
<1>. DEFINE n == Updated(l, u)
<1>1. n.phase = u.phase /\ n.stop = l.stop /\ n.recovery = l.recovery
  BY DEF Updated, Leases
<1>2. /\ n.pod = Attach(l.pod, u.pod) /\ n.pvc = Attach(l.pvc, u.pvc)
      /\ n.container = Attach(l.container, u.container)
      /\ n.binding = Attach(l.binding, u.binding)
  BY DEF Updated, Leases
<1>8. n \in Leases
  <2>1. /\ Attach(l.pod, u.pod) \in Maybe(Pod)
        /\ Attach(l.pvc, u.pvc) \in Maybe(Pvc)
        /\ Attach(l.container, u.container) \in Maybe(Container)
        /\ Attach(l.binding, u.binding) \in Maybe(Binding)
    BY DEF Attach, Leases, Updates
  <2>2. u.phase \in {"reserved", "provisioning", "ready", "closing",
                     "reconciliation", "closed"}
    BY DEF Updates
  <2>. QED
    BY <2>1, <2>2 DEF Updated, Leases
<1>3. l.binding # None => n.binding = l.binding
  BY <1>2 DEF Attach, Keeps
<1>4. StopProven(l) => StopProven(n)
  BY <1>1, <1>3 DEF StopProven
<1>5. RecoveryProven(l) => RecoveryProven(n)
  BY <1>1, <1>3, <1>4 DEF RecoveryProven, StopProven
<1>6. u.phase # "none" /\ (l.phase \in Late => u.phase \in Late)
  BY DEF Updates, LeaseStep, Late, Leases
<1>7. n.binding # None => n.pod # None /\ n.pvc # None /\ n.container # None
  BY <1>2 DEF Attach, Sound, SoundLease
<1>. QED
  BY <1>1, <1>4, <1>5, <1>6, <1>7, <1>8 DEF Sound, SoundLease, Closable

LEMMA AdvancedHelper ==
    ASSUME NEW h \in Helpers, NEW u \in HelperUpdates, SoundHelper(h),
           u.phase \in HelperStep[h.phase],
           u.pod # None \/ u.container # None => Advanced(h, u).launched,
           Keeps(h.pod, u.pod), Keeps(h.container, u.container),
           Keeps(h.binding, u.binding),
           u.binding # None => /\ Advanced(h, u).pod # None
                               /\ Advanced(h, u).container # None,
           u.stop # None => /\ Advanced(h, u).binding # None
                            /\ u.stop.of = Advanced(h, u).binding,
           Advanced(h, u).phase = "ready" => Advanced(h, u).binding # None,
           HelperClosable(h, Advanced(h, u))
    PROVE  /\ Advanced(h, u) \in Helpers
           /\ SoundHelper(Advanced(h, u))
           /\ Advanced(h, u).write = h.write
           /\ h.launched => Advanced(h, u).launched
           /\ h.phase # "none" /\ Advanced(h, u).phase # "none"
<1>. DEFINE n == Advanced(h, u)
<1>1. /\ n.phase = u.phase
      /\ n.launched = (h.launched \/ u.phase = "provisioning")
      /\ n.write = h.write
  BY DEF Advanced, Helpers
<1>2. /\ n.pod = Attach(h.pod, u.pod)
      /\ n.container = Attach(h.container, u.container)
      /\ n.binding = Attach(h.binding, u.binding)
      /\ n.stop = Attach(u.stop, h.stop)
  BY DEF Advanced, Helpers, KeepFirst
<1>3. n \in Helpers
  <2>1. /\ Attach(h.pod, u.pod) \in Maybe(Pod)
        /\ Attach(h.container, u.container) \in Maybe(Container)
        /\ Attach(h.binding, u.binding) \in Maybe(Binding)
        /\ Attach(u.stop, h.stop) \in Maybe(Receipt)
    BY DEF Attach, Helpers, HelperUpdates
  <2>2. u.phase \in {"reserved", "provisioning", "ready", "closing",
                     "reconciliation", "closed"}
    BY DEF HelperUpdates
  <2>3. (h.launched \/ u.phase = "provisioning") \in BOOLEAN
    BY DEF Helpers
  <2>. QED
    BY <2>1, <2>2, <2>3 DEF Advanced, Helpers, KeepFirst
<1>4. h.phase # "none" /\ n.phase # "none"
  BY <1>1 DEF HelperStep, HelperUpdates, Helpers
<1>5. h.binding # None => n.binding = h.binding
  BY <1>2 DEF Attach, Keeps
<1>6. n.pod # None \/ n.container # None => n.launched
  BY <1>1, <1>2 DEF Attach, SoundHelper
<1>7. n.binding # None => n.pod # None /\ n.container # None
  BY <1>2 DEF Attach, SoundHelper
<1>8. n.stop # None => HelperStopProven(n)
  BY <1>2, <1>5, <1>7 DEF Attach, SoundHelper, HelperStopProven
<1>9. n.phase = "reserved" => ~n.launched
  BY <1>1 DEF HelperStep, Helpers, SoundHelper
<1>10. n.phase = "closed" => HelperClosed(n)
  BY DEF HelperClosable, HelperClosed
<1>11. n.write # None => n.binding # None
  BY <1>1, <1>5 DEF SoundHelper
<1>12. SoundHelper(n)
  BY <1>4, <1>6, <1>7, <1>8, <1>9, <1>10, <1>11 DEF SoundHelper
<1>. QED
  BY <1>1, <1>3, <1>4, <1>12

-----------------------------------------------------------------------------
(* The table of leases.                                                    *)

\* A transaction that replaces the records of one task in its slot, whose lease
\* exists and is not closed, keeps the invariant if it leaves a sound pair.
LEMMA Recorded ==
    ASSUME IInv, NEW t \in Task, NEW l \in Leases, NEW h \in Helpers,
           MayReport(t), lease[t].phase \notin {"none", "closed"},
           UNCHANGED work,
           lease' = [lease EXCEPT ![t] = l], helper' = [helper EXCEPT ![t] = h],
           Sound(l, h),
           SameProfile(l.pvc), profile' = Attach(profile, l.pvc),
           lease[t].pvc # None => l.pvc = lease[t].pvc,
           launches' \in [Task -> Nat], writes' \in [Task -> Nat],
           \A v \in Task : v # t =>
                launches'[v] = launches[v] /\ writes'[v] = writes[v],
           Counted(t)'
    PROVE  IInv'
<1>. USE DEF IInv
<1>1. /\ lease' \in [Task -> Leases] /\ helper' \in [Task -> Helpers]
      /\ lease'[t] = l /\ helper'[t] = h
      /\ \A v \in Task : v # t => lease'[v] = lease[v] /\ helper'[v] = helper[v]
  BY DEF TypeOK
<1>2. TypeOK'
  <2>1. profile' \in Maybe(Pvc)
    BY DEF Attach, TypeOK, Leases
  <2>. QED
    BY <1>1, <2>1 DEF TypeOK, work
<1>3. \A v \in Task : Sound(lease[v], helper[v])' /\ Counted(v)'
  BY <1>1 DEF Counted
<1>4. \A v \in Task : MayReport(v)' <=> MayReport(v)
  BY DEF MayReport, work
<1>5. \A v \in Task : v # t => (Open(v)' <=> Open(v))
  BY <1>1 DEF Open
<1>6. Held'
  <2>1. \A v \in Task : status'[v] = "queued" => lease'[v].phase = "none"
    BY <1>1 DEF Held, MayReport, work
  <2>. QED
    BY <1>4, <1>5, <2>1 DEF Held
<1>7. ProfileContinuity'
  <2>1. \A v \in Task : v # t => ~Open(v)
    BY DEF Held
  <2>2. Open(t) /\ lease[t].pvc = profile
    BY DEF Open, Closed, ProfileContinuity
  <2>3. \A v \in Task : lease'[v].pvc \in {None, profile'}
    BY <1>1 DEF ProfileContinuity, Attach, SameProfile
  <2>4. l.pvc = profile'
    BY <2>2 DEF Attach
  <2>. QED
    BY <1>1, <1>5, <2>1, <2>3, <2>4 DEF ProfileContinuity
<1>. QED
  BY <1>2, <1>3, <1>6, <1>7

LEMMA Initial == Init => IInv
<1>. SUFFICES ASSUME Init PROVE IInv
  OBVIOUS
<1>1. NoLease \in Leases /\ NoHelper \in Helpers
  BY DEF NoLease, Leases, NoHelper, Helpers, Maybe
<1>2. TypeOK
  BY <1>1 DEF Init, TypeOK, Maybe
<1>3. Sound(NoLease, NoHelper)
  BY DEF Sound, SoundLease, SoundHelper, NoLease, NoHelper, Late
<1>4. \A t \in Task : Counted(t)
  <2>1. \A t \in Task : helper[t].write = None /\ launches[t] = 0 /\ writes[t] = 0
    BY DEF Init, NoHelper
  <2>. QED
    BY <2>1 DEF Counted
<1>5. Held /\ ProfileContinuity
  BY DEF Init, Held, ProfileContinuity, MayReport, Open, NoLease
<1>. QED
  BY <1>2, <1>3, <1>4, <1>5 DEF Init, IInv

LEMMA LeaseStepKeeps ==
    ASSUME IInv, [Next]_vars
    PROVE  IInv'
<1>1. ASSUME NEW t \in Task
      PROVE  /\ lease[t] \in Leases /\ helper[t] \in Helpers
             /\ Sound(lease[t], helper[t]) /\ Counted(t)
             /\ lease[t].pvc \in {None, profile}
  BY DEF IInv, TypeOK, ProfileContinuity
<1>2. ASSUME UNCHANGED <<lease, helper, profile, launches, writes>>,
             executionEnabled' \in BOOLEAN, cancelRequested' \subseteq Task,
             status' = status
      PROVE  IInv'
  <2>1. TypeOK'
    BY <1>2 DEF IInv, TypeOK
  <2>2. \A v \in Task : Counted(v)'
    BY <1>2 DEF IInv, Counted
  <2>3. Held' /\ ProfileContinuity'
    BY <1>2 DEF IInv, Held, MayReport, Open, ProfileContinuity
  <2>. QED
    BY <1>2, <2>1, <2>2, <2>3 DEF IInv
<1>3. ASSUME NEW on \in BOOLEAN, ConfigureExecution(on) PROVE IInv'
  BY <1>2, <1>3 DEF ConfigureExecution, granted, IInv, TypeOK
<1>4. CASE StopAgent
  BY <1>2, <1>4 DEF StopAgent, granted, IInv, TypeOK
<1>5. ASSUME NEW t \in Task, Claim(t) \/ Unobserved(t) \/ ReleaseTask(t)
      PROVE  IInv'
  <2>1. UNCHANGED <<executionEnabled, cancelRequested, lease, helper, profile,
                    launches, writes>>
    BY <1>5 DEF Claim, Unobserved, ReleaseTask, granted
  <2>2. TypeOK'
    BY <1>5, <2>1 DEF IInv, TypeOK, Claim, Unobserved, ReleaseTask
  <2>3. \A v \in Task : Counted(v)'
    BY <2>1 DEF IInv, Counted
  <2>4. Held'
    <3>1. CASE Claim(t)
      BY <2>1, <3>1 DEF IInv, TypeOK, Held, Claim, MayReport, Open
    <3>2. CASE Unobserved(t)
      BY <2>1, <3>2 DEF IInv, TypeOK, Held, Unobserved, MayReport, Open
    <3>3. CASE ReleaseTask(t)
      BY <2>1, <3>3 DEF IInv, TypeOK, Held, ReleaseTask, MayReport, Open
    <3>. QED
      BY <1>5, <3>1, <3>2, <3>3
  <2>5. ProfileContinuity'
    BY <2>1 DEF IInv, ProfileContinuity, Open
  <2>. QED
    BY <2>1, <2>2, <2>3, <2>4, <2>5 DEF IInv
<1>6. ASSUME NEW t \in Task, ReserveComputer(t) PROVE IInv'
  <2>1. /\ Reservation \in Leases /\ Reservation.phase = "reserved"
        /\ Reservation.pvc = profile /\ Reservation.binding = None
        /\ Reservation.stop = None /\ Reservation.recovery = None
    BY DEF Reservation, NoLease, Leases, Maybe, IInv, TypeOK
  <2>2. helper[t] = NoHelper
    BY <1>1, <1>6 DEF ReserveComputer, NoLease, Sound, SoundHelper, Late
  <2>3. Sound(Reservation, NoHelper)
    BY <2>1 DEF Sound, SoundLease, SoundHelper, NoHelper
  <2>4. MayReport(t) /\ \A v \in Task : ~Open(v)
    BY <1>6 DEF ReserveComputer, MayAct, MayReport
  <2>5. /\ UNCHANGED <<work, helper, profile, launches, writes>>
        /\ lease' \in [Task -> Leases] /\ lease'[t] = Reservation
        /\ \A v \in Task : v # t => lease'[v] = lease[v]
    BY <1>6, <2>1 DEF ReserveComputer, granted, IInv, TypeOK
  <2>6. TypeOK'
    BY <2>5 DEF IInv, TypeOK, work
  <2>7. \A v \in Task : Sound(lease[v], helper[v])' /\ Counted(v)'
    BY <1>1, <2>2, <2>3, <2>5 DEF Counted
  <2>8. Held' /\ ProfileContinuity'
    <3>1. \A v \in Task : Open(v)' => v = t
      BY <2>4, <2>5 DEF Open
    <3>2. Held'
      BY <2>4, <2>5, <3>1 DEF IInv, Held, MayReport, work
    <3>3. ProfileContinuity'
      BY <1>1, <2>1, <2>5, <3>1 DEF ProfileContinuity
    <3>. QED
      BY <3>2, <3>3
  <2>. QED
    BY <2>6, <2>7, <2>8 DEF IInv
<1>7. ASSUME NEW t \in Task, NEW u \in Updates, AdvanceComputer(t, u)
      PROVE  IInv'
  <2>. DEFINE l == Updated(lease[t], u)
  <2>1. l \in Leases /\ Sound(l, helper[t])
    BY <1>1, <1>7, UpdatedLease DEF AdvanceComputer
  <2>2. lease[t].phase \notin {"none", "closed"}
    BY <1>7 DEF AdvanceComputer, LeaseStep
  <2>3. lease[t].pvc # None => l.pvc = lease[t].pvc
    BY <1>1, <1>7 DEF AdvanceComputer, Keeps, Updated, Attach, Leases
  <2>4. helper' = [helper EXCEPT ![t] = helper[t]]
    BY <1>7 DEF AdvanceComputer, IInv, TypeOK
  <2>5. Counted(t)'
    BY <1>1, <1>7 DEF AdvanceComputer, Counted, granted
  <2>. QED
    BY <1>1, <1>7, <2>1, <2>2, <2>3, <2>4, <2>5, Recorded
       DEF AdvanceComputer, granted, IInv, TypeOK
<1>8. ASSUME NEW t \in Task, NEW r \in Receipt, RecordStop(t, r) PROVE IInv'
  <2>. DEFINE l == [lease[t] EXCEPT !.stop = KeepFirst(@, r)]
  <2>1. /\ lease' = [lease EXCEPT ![t] = l] /\ MayReport(t)
        /\ helper' = [helper EXCEPT ![t] = helper[t]]
        /\ UNCHANGED <<work, profile, launches, writes>>
    BY <1>8 DEF RecordStop, granted, IInv, TypeOK
  <2>2. CASE lease[t].stop # None
    <3>1. l = lease[t]
      BY <1>1, <2>2 DEF KeepFirst, Attach, Leases
    <3>2. lease' = lease
      BY <2>1, <3>1 DEF IInv, TypeOK
    <3>. QED
      BY <1>2, <2>1, <3>2 DEF work, IInv, TypeOK, RecordStop
  <2>3. CASE lease[t].stop = None
    <3>1. /\ l.phase = lease[t].phase /\ l.pod = lease[t].pod
          /\ l.pvc = lease[t].pvc /\ l.container = lease[t].container
          /\ l.binding = lease[t].binding /\ l.stop = r
          /\ l.recovery = lease[t].recovery
      BY <1>1, <2>3 DEF KeepFirst, Attach, Leases
    <3>2. l \in Leases
      BY <1>1, <2>3 DEF KeepFirst, Attach, Leases, Maybe
    <3>3. lease[t].phase \notin {"none", "closed"} /\ StopProven(l)
      BY <1>1, <1>8, <2>3, <3>1, LeaseAssumption
         DEF RecordStop, StopProven, Sound, SoundLease, NoLease
    <3>4. Sound(l, helper[t])
      BY <1>1, <2>3, <3>1, <3>3 DEF Sound, SoundLease, RecoveryProven, StopProven
    <3>5. SameProfile(l.pvc) /\ profile' = Attach(profile, l.pvc)
      BY <1>1, <2>1, <3>1 DEF SameProfile, Attach
    <3>6. Counted(t)'
      BY <1>1, <2>1 DEF Counted
    <3>. QED
      BY <1>1, <2>1, <3>1, <3>2, <3>3, <3>4, <3>5, <3>6, Recorded
         DEF IInv, TypeOK
  <2>. QED
    BY <2>2, <2>3
<1>9. ASSUME NEW t \in Task, NEW r \in Receipt, RecordRecovery(t, r)
      PROVE  IInv'
  <2>. DEFINE l == [lease[t] EXCEPT !.recovery = r]
  <2>1. /\ lease' = [lease EXCEPT ![t] = l] /\ MayReport(t)
        /\ helper' = [helper EXCEPT ![t] = helper[t]]
        /\ UNCHANGED <<work, profile, launches, writes>>
    BY <1>9 DEF RecordRecovery, granted, IInv, TypeOK
  <2>2. CASE lease[t].recovery # None
    <3>1. l = lease[t]
      BY <1>1, <1>9, <2>2 DEF RecordRecovery, Leases
    <3>2. lease' = lease
      BY <2>1, <3>1 DEF IInv, TypeOK
    <3>. QED
      BY <1>2, <2>1, <3>2 DEF work, IInv, TypeOK
  <2>3. CASE lease[t].recovery = None
    <3>1. /\ l.phase = lease[t].phase /\ l.pod = lease[t].pod
          /\ l.pvc = lease[t].pvc /\ l.container = lease[t].container
          /\ l.binding = lease[t].binding /\ l.stop = lease[t].stop
          /\ l.recovery = r
      BY <1>1 DEF Leases
    <3>2. l \in Leases
      BY <1>1 DEF Leases, Maybe
    <3>3. lease[t].phase \in {"closing", "reconciliation"} /\ RecoveryProven(l)
      BY <1>9, <2>3, <3>1, LeaseAssumption
         DEF RecordRecovery, RecoveryProven, StopProven
    <3>4. Sound(l, helper[t])
      BY <1>1, <3>1, <3>3 DEF Sound, SoundLease, RecoveryProven, StopProven, Late
    <3>5. SameProfile(l.pvc) /\ profile' = Attach(profile, l.pvc)
      BY <1>1, <2>1, <3>1 DEF SameProfile, Attach
    <3>6. Counted(t)'
      BY <1>1, <2>1 DEF Counted
    <3>. QED
      BY <1>1, <2>1, <3>1, <3>2, <3>3, <3>4, <3>5, <3>6, Recorded
         DEF IInv, TypeOK
  <2>. QED
    BY <2>2, <2>3
<1>10. ASSUME NEW t \in Task, NEW h \in Helpers, MayReport(t), Settling(t),
              helper' = [helper EXCEPT ![t] = h],
              UNCHANGED <<work, lease, profile>>,
              SoundHelper(h), StopProven(lease[t]),
              launches' \in [Task -> Nat], writes' \in [Task -> Nat],
              \A v \in Task : v # t =>
                  launches'[v] = launches[v] /\ writes'[v] = writes[v],
              Counted(t)'
       PROVE  IInv'
  <2>1. lease' = [lease EXCEPT ![t] = lease[t]]
    BY <1>10 DEF IInv, TypeOK
  <2>2. Sound(lease[t], h)
    BY <1>1, <1>10 DEF Sound, Settling, Late
  <2>3. /\ lease[t].phase \notin {"none", "closed"}
        /\ SameProfile(lease[t].pvc) /\ profile' = Attach(profile, lease[t].pvc)
    BY <1>1, <1>10 DEF Settling, SameProfile, Attach
  <2>. QED
    BY <1>1, <1>10, <2>1, <2>2, <2>3, Recorded
<1>11. ASSUME NEW t \in Task, ReserveHelper(t) PROVE IInv'
  <2>. DEFINE h == [NoHelper EXCEPT !.phase = "reserved"]
  <2>1. h \in Helpers /\ SoundHelper(h) /\ ~h.launched /\ h.write = None
    BY DEF NoHelper, Helpers, SoundHelper, Maybe
  <2>2. helper' = [helper EXCEPT ![t] = h]
    BY <1>11 DEF ReserveHelper
  <2>3. Counted(t)'
    BY <1>1, <1>11, <2>1, <2>2 DEF ReserveHelper, granted, Counted, NoHelper,
       IInv, TypeOK
  <2>. QED
    BY <1>10, <1>11, <2>1, <2>2, <2>3 DEF ReserveHelper, granted, IInv, TypeOK
<1>12. ASSUME NEW t \in Task, BeginLaunch(t) PROVE IInv'
  <2>. DEFINE h == [helper[t] EXCEPT !.phase = "provisioning", !.launched = TRUE]
  <2>1. helper' = [helper EXCEPT ![t] = h] /\ helper[t].phase = "reserved"
    BY <1>1, <1>12 DEF BeginLaunch, GrantsLaunch
  <2>2. /\ h.phase = "provisioning" /\ h.launched
        /\ h.pod = helper[t].pod /\ h.container = helper[t].container
        /\ h.binding = helper[t].binding /\ h.stop = helper[t].stop
        /\ h.write = helper[t].write /\ h \in Helpers
    BY <1>1 DEF Helpers
  <2>3. SoundHelper(h)
    BY <1>1, <2>2 DEF Sound, SoundHelper, HelperStopProven
  <2>4. StopProven(lease[t])
    BY <1>1, <2>1 DEF Sound
  <2>5. Counted(t)'
    BY <1>1, <1>12, <2>1, <2>2 DEF BeginLaunch, GrantsLaunch, Counted, IInv, TypeOK
  <2>6. /\ launches' \in [Task -> Nat] /\ writes' \in [Task -> Nat]
        /\ \A v \in Task : v # t =>
              launches'[v] = launches[v] /\ writes'[v] = writes[v]
    BY <1>12 DEF BeginLaunch, IInv, TypeOK
  <2>7. MayReport(t) /\ Settling(t) /\ UNCHANGED <<work, lease, profile>>
    BY <1>12 DEF BeginLaunch
  <2>. QED
    BY <1>10, <2>1, <2>2, <2>3, <2>4, <2>5, <2>6, <2>7
<1>13. ASSUME NEW t \in Task, NEW u \in HelperUpdates, AdvanceHelper(t, u)
       PROVE  IInv'
  <2>. DEFINE h == Advanced(helper[t], u)
  <2>1. /\ h \in Helpers /\ SoundHelper(h) /\ h.write = helper[t].write
        /\ helper[t].launched => h.launched
        /\ helper[t].phase # "none"
    BY <1>1, <1>13, AdvancedHelper DEF AdvanceHelper, Sound
  <2>2. StopProven(lease[t])
    BY <1>1, <2>1 DEF Sound
  <2>3. Counted(t)'
    BY <1>1, <1>13, <2>1 DEF AdvanceHelper, Counted, granted, IInv, TypeOK
  <2>. QED
    BY <1>10, <1>13, <2>1, <2>2, <2>3 DEF AdvanceHelper, granted, IInv, TypeOK
<1>14. ASSUME NEW t \in Task, NEW pin \in Pin, ReserveWrite(t, pin)
       PROVE  IInv'
  <2>. DEFINE h == [helper[t] EXCEPT !.write = pin]
  <2>1. helper' = [helper EXCEPT ![t] = h] /\ helper[t].phase = "ready"
    BY <1>14 DEF ReserveWrite
  <2>2. /\ h.phase = helper[t].phase /\ h.launched = helper[t].launched
        /\ h.pod = helper[t].pod /\ h.container = helper[t].container
        /\ h.binding = helper[t].binding /\ h.stop = helper[t].stop
        /\ h.write = pin /\ h \in Helpers
    BY <1>1 DEF Helpers, Maybe
  <2>3. SoundHelper(h)
    BY <1>1, <2>1, <2>2 DEF Sound, SoundHelper, HelperStopProven
  <2>4. StopProven(lease[t])
    BY <1>1, <2>1 DEF Sound
  <2>5. Counted(t)'
    BY <1>1, <1>14, <2>1, <2>2, LeaseAssumption
       DEF ReserveWrite, GrantsWrite, Counted, IInv, TypeOK
  <2>6. /\ launches' \in [Task -> Nat] /\ writes' \in [Task -> Nat]
        /\ \A v \in Task : v # t =>
              launches'[v] = launches[v] /\ writes'[v] = writes[v]
    BY <1>14 DEF ReserveWrite, IInv, TypeOK
  <2>7. MayReport(t) /\ Settling(t) /\ UNCHANGED <<work, lease, profile>>
    BY <1>14 DEF ReserveWrite
  <2>. QED
    BY <1>10, <2>1, <2>2, <2>3, <2>4, <2>5, <2>6, <2>7
<1>15. CASE UNCHANGED vars
  BY <1>2, <1>15 DEF vars, work, granted, IInv, TypeOK
<1>. QED
  BY <1>3, <1>4, <1>5, <1>6, <1>7, <1>8, <1>9, <1>11, <1>12,
     <1>13, <1>14, <1>15 DEF Next


\* Every transaction of the supervisors, observers and controllers leaves
\* records, grants and slots that fit together.
THEOREM LeaseInvariant == Spec => []IInv
<1>1. IInv /\ [Next]_vars => IInv'
  BY LeaseStepKeeps
<1>. QED
  BY Initial, <1>1, PTL DEF Spec

-----------------------------------------------------------------------------
(* The promises.                                                           *)

\* A teammate never has two leases that are not closed, one that is not closed
\* keeps its task in its slot, and all of them have the one profile.
THEOREM LeasesExclusive == Spec => [](OneOpenLease /\ ProfileContinuity)
<1>1. IInv => OneOpenLease /\ ProfileContinuity
  BY DEF IInv, Held, OneOpenLease
<1>. QED
  BY <1>1, LeaseInvariant, PTL

\* The profile half of the theorem above: no lease ever names
\* a volume other than the teammate's persistent profile (computer-lease.js:87).
THEOREM OneProfile == Spec => []ProfileContinuity
<1>1. OneOpenLease /\ ProfileContinuity => ProfileContinuity
  OBVIOUS
<1>. QED
  BY <1>1, LeasesExclusive, PTL

\* Phase closed is only ever recorded with the proofs that make it final.
THEOREM ClosureProven == Spec => []ClosedIsProven
<1>1. IInv => ClosedIsProven
  BY DEF IInv, Sound, SoundHelper, Closed, HelperClosed, NoHelper, ClosedIsProven
<1>. QED
  BY <1>1, LeaseInvariant, PTL

\* A recovery helper exists only behind a browser that is proven stopped.
THEOREM HelperConfined == Spec => []HelperAfterStop
<1>1. IInv => HelperAfterStop
  BY DEF IInv, Sound, SoundHelper, Late, HelperAfterStop
<1>. QED
  BY <1>1, LeaseInvariant, PTL

\* Of all the calls that ask for it one creates the helper and one writes.
THEOREM GrantedOnce == Spec => [](LaunchedOnce /\ WrittenOnce)
<1>1. ASSUME IInv PROVE LaunchedOnce /\ WrittenOnce
  <2>1. ASSUME NEW t \in Task
        PROVE  Counted(t) /\ SoundHelper(helper[t])
    BY <1>1 DEF IInv, Sound
  <2>2. LaunchedOnce
    BY <2>1 DEF Counted, SoundHelper, HelperClosed, NoHelper, LaunchedOnce
  <2>3. WrittenOnce
    BY <2>1 DEF Counted, SoundHelper, WrittenOnce
  <2>. QED
    BY <2>2, <2>3
<1>. QED
  BY <1>1, LeaseInvariant, PTL

LEMMA RecordsKept ==
    ASSUME IInv, Next, NEW t \in Task
    PROVE  Kept(t)
<1>1. lease[t] \in Leases /\ helper[t] \in Helpers /\ Sound(lease[t], helper[t])
  BY DEF IInv, TypeOK
<1>2. ASSUME lease'[t] = lease[t], helper'[t] = helper[t] PROVE Kept(t)
  BY <1>2 DEF Kept, KeptLease, KeptHelper
<1>3. CASE (\E on \in BOOLEAN : ConfigureExecution(on)) \/ StopAgent
  BY <1>2, <1>3 DEF ConfigureExecution, StopAgent
<1>4. ASSUME NEW u \in Task, Claim(u) \/ Unobserved(u) \/ ReleaseTask(u)
      PROVE  Kept(t)
  BY <1>2, <1>4 DEF Claim, Unobserved, ReleaseTask
<1>5. ASSUME NEW u \in Task, ReserveComputer(u) PROVE Kept(t)
  <2>1. helper' = helper /\ lease' = [lease EXCEPT ![u] = Reservation]
    BY <1>5 DEF ReserveComputer
  <2>2. CASE u = t
    BY <1>1, <1>5, <2>1, <2>2
       DEF ReserveComputer, Kept, KeptLease, KeptHelper, NoLease, Leases
  <2>. QED
    BY <1>2, <2>1, <2>2 DEF IInv, TypeOK
<1>6. ASSUME NEW u \in Task, NEW v \in Updates, AdvanceComputer(u, v) PROVE Kept(t)
  <2>1. helper' = helper /\ lease' = [lease EXCEPT ![u] = Updated(lease[u], v)]
    BY <1>6 DEF AdvanceComputer
  <2>2. CASE u = t
    <3>. DEFINE l == lease[t]
                n == Updated(l, v)
    <3>1. lease'[t] = n /\ helper'[t] = helper[t] /\ l.phase # "closed"
      BY <1>6, <2>1, <2>2 DEF IInv, TypeOK, AdvanceComputer, LeaseStep
    <3>2. /\ n.pod = Attach(l.pod, v.pod) /\ n.pvc = Attach(l.pvc, v.pvc)
          /\ n.container = Attach(l.container, v.container)
          /\ n.binding = Attach(l.binding, v.binding)
          /\ n.stop = l.stop /\ n.recovery = l.recovery
      BY <1>1 DEF Updated, Leases
    <3>3. KeptLease(l, n)
      BY <1>6, <2>2, <3>2 DEF AdvanceComputer, Attach, Keeps, KeptLease
    <3>. QED
      BY <3>1, <3>3 DEF Kept, KeptHelper
  <2>. QED
    BY <1>2, <2>1, <2>2 DEF IInv, TypeOK
<1>7. ASSUME NEW u \in Task, NEW r \in Receipt, RecordStop(u, r) PROVE Kept(t)
  <2>1. /\ helper' = helper
        /\ lease' = [lease EXCEPT ![u] = [lease[u] EXCEPT !.stop = KeepFirst(@, r)]]
    BY <1>7 DEF RecordStop
  <2>2. CASE u = t
    <3>. DEFINE l == lease[t]
                n == [l EXCEPT !.stop = KeepFirst(@, r)]
    <3>1. lease'[t] = n /\ helper'[t] = helper[t]
      BY <2>1, <2>2 DEF IInv, TypeOK
    <3>2. /\ n.pod = l.pod /\ n.pvc = l.pvc /\ n.container = l.container
          /\ n.binding = l.binding /\ n.recovery = l.recovery
          /\ l.stop # None => n = l
      BY <1>1 DEF Leases, KeepFirst, Attach
    <3>3. l.phase = "closed" => n = l
      BY <1>7, <2>2, <3>2 DEF RecordStop
    <3>. QED
      BY <3>1, <3>2, <3>3 DEF Kept, KeptLease, KeptHelper
  <2>. QED
    BY <1>2, <2>1, <2>2 DEF IInv, TypeOK
<1>8. ASSUME NEW u \in Task, NEW r \in Receipt, RecordRecovery(u, r) PROVE Kept(t)
  <2>1. /\ helper' = helper
        /\ lease' = [lease EXCEPT ![u] = [lease[u] EXCEPT !.recovery = r]]
    BY <1>8 DEF RecordRecovery
  <2>2. CASE u = t
    <3>. DEFINE l == lease[t]
                n == [l EXCEPT !.recovery = r]
    <3>1. lease'[t] = n /\ helper'[t] = helper[t]
      BY <2>1, <2>2 DEF IInv, TypeOK
    <3>2. /\ n.pod = l.pod /\ n.pvc = l.pvc /\ n.container = l.container
          /\ n.binding = l.binding /\ n.stop = l.stop
      BY <1>1 DEF Leases
    <3>3. l.recovery # None => n = l
      BY <1>1, <1>8, <2>2 DEF RecordRecovery, Leases
    <3>4. l.phase = "closed" => n = l
      BY <1>8, <2>2, <3>3 DEF RecordRecovery
    <3>. QED
      BY <3>1, <3>2, <3>3, <3>4 DEF Kept, KeptLease, KeptHelper
  <2>. QED
    BY <1>2, <2>1, <2>2 DEF IInv, TypeOK
<1>9. ASSUME NEW u \in Task, NEW h \in Helpers, Settling(u), lease' = lease,
             helper' = [helper EXCEPT ![u] = h], KeptHelper(helper[u], h)
      PROVE  Kept(t)
  <2>1. CASE u = t
    <3>1. helper'[t] = h
      BY <1>9, <2>1 DEF IInv, TypeOK
    <3>. QED
      BY <1>9, <2>1, <3>1 DEF Kept, KeptLease, Settling
  <2>. QED
    BY <1>2, <1>9, <2>1 DEF IInv, TypeOK
<1>10. ASSUME NEW u \in Task, ReserveHelper(u) PROVE Kept(t)
  <2>. DEFINE h == [NoHelper EXCEPT !.phase = "reserved"]
  <2>1. h \in Helpers
    BY DEF NoHelper, Helpers, Maybe
  <2>2. KeptHelper(NoHelper, h)
    BY DEF NoHelper, KeptHelper
  <2>. QED
    BY <1>9, <1>10, <2>1, <2>2 DEF ReserveHelper
<1>11. ASSUME NEW u \in Task, BeginLaunch(u) PROVE Kept(t)
  <2>. DEFINE h == [helper[u] EXCEPT !.phase = "provisioning", !.launched = TRUE]
  <2>1. helper' = [helper EXCEPT ![u] = h]
    BY <1>11 DEF BeginLaunch
  <2>2. h \in Helpers /\ KeptHelper(helper[u], h)
    BY DEF IInv, TypeOK, Helpers, KeptHelper
  <2>. QED
    BY <1>9, <1>11, <2>1, <2>2 DEF BeginLaunch
<1>12. ASSUME NEW u \in Task, NEW v \in HelperUpdates, AdvanceHelper(u, v)
       PROVE  Kept(t)
  <2>. DEFINE h == helper[u]
              n == Advanced(h, v)
  <2>1. h \in Helpers /\ SoundHelper(h)
    BY DEF IInv, TypeOK, Sound
  <2>2. n \in Helpers /\ n.write = h.write
    BY <1>12, <2>1, AdvancedHelper DEF AdvanceHelper
  <2>3. /\ n.pod = Attach(h.pod, v.pod)
        /\ n.container = Attach(h.container, v.container)
        /\ n.binding = Attach(h.binding, v.binding)
        /\ n.stop = Attach(v.stop, h.stop)
    BY <2>1 DEF Advanced, Helpers, KeepFirst
  <2>4. KeptHelper(h, n)
    BY <1>12, <2>2, <2>3 DEF AdvanceHelper, Attach, Keeps, KeptHelper
  <2>. QED
    BY <1>9, <1>12, <2>2, <2>4 DEF AdvanceHelper
<1>13. ASSUME NEW u \in Task, NEW pin \in Pin, ReserveWrite(u, pin) PROVE Kept(t)
  <2>. DEFINE h == [helper[u] EXCEPT !.write = pin]
  <2>1. helper' = [helper EXCEPT ![u] = h] /\ helper[u].write = None
    BY <1>13 DEF ReserveWrite, GrantsWrite
  <2>2. helper[u] \in Helpers
    BY DEF IInv, TypeOK
  <2>3. h \in Helpers
    BY <2>2 DEF Helpers, Maybe
  <2>4. KeptHelper(helper[u], h)
    BY <2>1, <2>2 DEF Helpers, KeptHelper
  <2>. QED
    BY <1>9, <1>13, <2>1, <2>3, <2>4 DEF ReserveWrite
<1>. QED
  BY <1>3, <1>4, <1>5, <1>6, <1>7, <1>8, <1>10, <1>11, <1>12, <1>13 DEF Next

\* What identifies an object or proves its end is never replaced, and a closed
\* lease stays as it is, helper included, for every caller and every retry.
THEOREM RecordsAreFinal == Spec => RecordsLast
<1>1. IInv /\ [Next]_vars => [\A t \in Task : Kept(t)]_vars
  BY RecordsKept
<1>. QED
  BY <1>1, LeaseInvariant, PTL DEF Spec, RecordsLast

-----------------------------------------------------------------------------
(* The leases implement BrowserTurn.                                       *)

LEMMA OpenByPhase ==
    IInv => \A t \in Task : Open(t) <=> lease[t].phase \notin {"none", "closed"}
  BY DEF IInv, Sound, Open, Closed

StateAt(phase) == CASE phase = "none" -> "none"
                    [] phase = "closed" -> "closed"
                    [] OTHER -> "open"

\* Before a step and after it.
LEMMA StateByPhase ==
    ASSUME IInv, IInv'
    PROVE  \A t \in Task : /\ BrowserState(t) = StateAt(lease[t].phase)
                          /\ BrowserState(t)' = StateAt(lease'[t].phase)
<1>1. ASSUME NEW t \in Task
      PROVE  BrowserState(t) = StateAt(lease[t].phase)
  BY DEF IInv, Sound, Open, Closed, BrowserState, StateAt
<1>2. ASSUME NEW t \in Task
      PROVE  BrowserState(t)' = StateAt(lease'[t].phase)
  BY DEF IInv, Sound, Open, Closed, BrowserState, StateAt
<1>. QED
  BY <1>1, <1>2

\* What happens between a reservation and a closure is no step of the turn.
LEMMA SamePhase ==
    ASSUME IInv, IInv', UNCHANGED work,
           \A t \in Task : lease'[t].phase = lease[t].phase
                         \/ /\ lease[t].phase \notin {"none", "closed"}
                            /\ lease'[t].phase \notin {"none", "closed"}
    PROVE  UNCHANGED Turn!turnVars
<1>1. \A t \in Task : BrowserState(t)' = BrowserState(t)
  BY StateByPhase DEF StateAt
<1>2. [t \in Task |-> BrowserState(t)]' = [t \in Task |-> BrowserState(t)]
  BY <1>1
<1>. QED
  BY <1>2 DEF Turn!turnVars, work, MayReport

\* The one transaction on leases that may end a turn's browser.
LEMMA AdvanceTurns ==
    ASSUME IInv, IInv', NEW t \in Task, NEW u \in Updates, AdvanceComputer(t, u)
    PROVE  Turn!Close(t) \/ UNCHANGED Turn!turnVars
<1>1. /\ MayReport(t) /\ UNCHANGED work
      /\ lease' = [lease EXCEPT ![t] = Updated(lease[t], u)]
      /\ u.phase \in LeaseStep[lease[t].phase]
  BY DEF AdvanceComputer
<1>2. lease[t] \in Leases /\ lease \in [Task -> Leases]
  BY DEF IInv, TypeOK
<1>3. /\ lease'[t].phase = u.phase
      /\ \A v \in Task : v # t => lease'[v] = lease[v]
  BY <1>1, <1>2 DEF Updated, Leases
<1>4. lease[t].phase \notin {"none", "closed"}
  BY <1>1 DEF LeaseStep
<1>5. CASE u.phase # "closed"
  <2>1. u.phase # "none"
    BY DEF Updates
  <2>. QED
    BY <1>1, <1>3, <1>4, <1>5, <2>1, SamePhase
<1>6. CASE u.phase = "closed"
  <2>1. BrowserState(t) = "open" /\ BrowserState(t)' = "closed"
    BY <1>3, <1>4, <1>6, StateByPhase DEF StateAt
  <2>2. \A v \in Task : v # t => BrowserState(v)' = BrowserState(v)
    BY <1>3, StateByPhase
  <2>3. {v \in Task : MayReport(v)} = {t}
    BY <1>1 DEF IInv, Held
  <2>4. [v \in Task |-> BrowserState(v)]'
            = [[v \in Task |-> BrowserState(v)] EXCEPT ![t] = "closed"]
    BY <2>1, <2>2
  <2>. QED
    BY <1>1, <2>1, <2>3, <2>4 DEF Turn!Close, work, MayReport
<1>. QED
  BY <1>5, <1>6

LEMMA TurnStep ==
    ASSUME IInv, IInv', [Next]_vars
    PROVE  [Turn!Next]_(Turn!turnVars)
<1>. DEFINE held == {t \in Task : MayReport(t)}
            done == {t \in Task : status[t] = "released"}
            seen == [t \in Task |-> BrowserState(t)]
<1>0. status \in [Task -> {"queued", "running", "reconciling", "released"}]
      /\ lease \in [Task -> Leases]
  BY DEF IInv, TypeOK
<1>1. ASSUME NEW on \in BOOLEAN, ConfigureExecution(on)
      PROVE  UNCHANGED Turn!turnVars
  <2>1. seen' = seen
    BY <1>1, StateByPhase DEF ConfigureExecution
  <2>. QED
    BY <1>1, <2>1 DEF ConfigureExecution, Turn!turnVars, MayReport
<1>2. CASE StopAgent
  <2>1. seen' = seen
    BY <1>2, StateByPhase DEF StopAgent
  <2>2. held' = held /\ done' = done
    BY <1>2 DEF StopAgent, MayReport
  <2>3. PICK stops \in SUBSET held : cancelRequested' = cancelRequested \cup stops
    BY <1>2 DEF StopAgent, MayReport
  <2>4. \A t, u \in held : t = u
    BY DEF IInv, Held
  <2>5. stops = {} \/ stops = held
    BY <2>3, <2>4
  <2>. QED
    BY <2>1, <2>2, <2>3, <2>5 DEF Turn!Next, Turn!Stop, Turn!turnVars
<1>3. ASSUME NEW t \in Task, Claim(t) PROVE Turn!Take(t)
  <2>1. seen' = seen
    BY <1>3, StateByPhase DEF Claim
  <2>2. held = {} /\ t \notin done
    BY <1>3 DEF Claim, MayReport
  <2>3. held' = {t} /\ done' = done
    BY <1>0, <1>3 DEF Claim, MayReport
  <2>. QED
    BY <1>3, <2>1, <2>2, <2>3 DEF Claim, Turn!Take
<1>4. ASSUME NEW t \in Task, Unobserved(t) PROVE UNCHANGED Turn!turnVars
  <2>1. seen' = seen
    BY <1>4, StateByPhase DEF Unobserved
  <2>2. held' = held /\ done' = done
    BY <1>0, <1>4 DEF Unobserved, MayReport
  <2>. QED
    BY <1>4, <2>1, <2>2 DEF Unobserved, Turn!turnVars
<1>5. ASSUME NEW t \in Task, ReleaseTask(t) PROVE Turn!Pass(t)
  <2>1. seen' = seen
    BY <1>5, StateByPhase DEF ReleaseTask
  <2>2. seen[t] # "open"
    BY <1>5 DEF ReleaseTask, BrowserState
  <2>3. held = {t}
    BY <1>5 DEF ReleaseTask, IInv, Held
  <2>4. held' = {} /\ done' = done \cup {t}
    BY <1>0, <1>5, <2>3 DEF ReleaseTask, MayReport
  <2>. QED
    BY <1>5, <2>1, <2>2, <2>3, <2>4 DEF ReleaseTask, Turn!Pass
<1>6. ASSUME NEW t \in Task, ReserveComputer(t) PROVE Turn!Open(t)
  <2>1. /\ MayAct(t) /\ lease[t].phase = "none" /\ UNCHANGED work
        /\ lease' = [lease EXCEPT ![t] = Reservation]
    BY <1>6 DEF ReserveComputer, NoLease
  <2>2. lease'[t].phase = "reserved"
    BY <1>0, <2>1 DEF Reservation, NoLease
  <2>3. seen[t] = "none" /\ BrowserState(t)' = "open"
    BY <2>1, <2>2, StateByPhase DEF StateAt
  <2>4. \A v \in Task : v # t => BrowserState(v)' = BrowserState(v)
    BY <2>1, StateByPhase
  <2>5. seen' = [seen EXCEPT ![t] = "open"]
    BY <2>3, <2>4
  <2>6. MayReport(t) /\ t \notin cancelRequested
    BY <2>1 DEF MayAct, MayReport
  <2>7. held = {t}
    BY <2>6 DEF IInv, Held
  <2>. QED
    BY <2>1, <2>3, <2>5, <2>6, <2>7 DEF Turn!Open, work, MayReport
<1>7. ASSUME NEW t \in Task, NEW r \in Receipt, RecordStop(t, r) \/ RecordRecovery(t, r)
      PROVE  UNCHANGED Turn!turnVars
  <2>1. UNCHANGED work
    BY <1>7 DEF RecordStop, RecordRecovery
  <2>2. \A v \in Task : lease'[v].phase = lease[v].phase
    BY <1>0, <1>7 DEF RecordStop, RecordRecovery, Leases
  <2>. QED
    BY <2>1, <2>2, SamePhase
<1>8. ASSUME NEW t \in Task,
             \/ ReserveHelper(t) \/ BeginLaunch(t)
             \/ \E u \in HelperUpdates : AdvanceHelper(t, u)
             \/ \E pin \in Pin : ReserveWrite(t, pin)
      PROVE  UNCHANGED Turn!turnVars
  <2>1. UNCHANGED <<work, lease>>
    BY <1>8 DEF ReserveHelper, BeginLaunch, AdvanceHelper, ReserveWrite
  <2>. QED
    BY <2>1, SamePhase
<1>9. CASE UNCHANGED vars
  BY <1>9, SamePhase DEF vars
<1>. QED
  BY <1>1, <1>2, <1>3, <1>4, <1>5, <1>6, <1>7, <1>8, <1>9, AdvanceTurns
  DEF Next, Turn!Next

\* For any number of tasks and whatever is reported of their browsers: the leases
\* are taken, opened, closed and passed on as BrowserTurn says.  The inductive
\* invariant enters where a phase must say whether a lease is open, and where a
\* claim that may act must be the only one.
THEOREM TurnIsHonored == Spec => TurnHonored
<1>1. Init => Turn!Init
  BY DEF Init, Turn!Init, MayReport, BrowserState, NoLease
<1>2. IInv /\ IInv' /\ [Next]_vars => [Turn!Next]_(Turn!turnVars)
  BY TurnStep
<1>. QED
  BY <1>1, <1>2, LeaseInvariant, PTL DEF Spec, TurnHonored, Turn!Spec
=============================================================================
