---------------------------- MODULE SharedLease ----------------------------
(***************************************************************************)
(* What a release may make of a lease that nothing enforces, told in one   *)
(* time that no host can read.  The lease is granted for Duration at most, *)
(* renewed by its holder only, and taken from it only when it has expired. *)
(* A release that has seen its lease unexpired may trust it until then; it *)
(* gives the lease up only when it has stopped trusting it.  ReleaseLease  *)
(* implements this specification with clocks that differ and writes that   *)
(* arrive late.                                                            *)
(***************************************************************************)
EXTENDS Integers

CONSTANTS Release, Nobody, Duration

VARIABLES
    time,       \* of day
    holder,     \* who has the lease
    expiry,     \* when it ends
    trusted     \* until when each release relies on it

leaseVars == <<time, holder, expiry, trusted>>

Init ==
    /\ time = 0 /\ holder = Nobody /\ expiry = 0
    /\ trusted = [p \in Release |-> 0]

Passes == time' = time + 1 /\ UNCHANGED <<holder, expiry, trusted>>

Grants(p) ==
    /\ holder' = p /\ expiry' <= time + Duration
    /\ UNCHANGED <<time, trusted>>

Acquire(p) == (holder = Nobody \/ expiry <= time) /\ Grants(p)

Renew(p) == holder = p /\ Grants(p) /\ expiry' >= expiry

Drop(p) ==
    /\ holder = p /\ trusted[p] <= time
    /\ holder' = Nobody /\ expiry' = 0
    /\ UNCHANGED <<time, trusted>>

Trust(p) ==
    /\ holder = p /\ time < expiry
    /\ trusted' = [trusted EXCEPT ![p] = expiry]
    /\ UNCHANGED <<time, holder, expiry>>

LetGo(p) ==
    /\ trusted' = [trusted EXCEPT ![p] = 0]
    /\ UNCHANGED <<time, holder, expiry>>

Next ==
    \/ Passes
    \/ \E p \in Release :
          \/ Acquire(p) \/ Renew(p) \/ Drop(p)
          \/ Trust(p) \/ LetGo(p)

Spec == Init /\ [][Next]_leaseVars
=============================================================================
