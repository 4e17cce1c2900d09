----------------------- MODULE ProfileRecoveryProofs -----------------------
(***************************************************************************)
(* However many boots of the node service settle however many profiles,    *)
(* a helper's Pod is requested once and its command is sent once.  The     *)
(* right to do so is a token: the transaction that sets `launched` (or the *)
(* intent of the write) hands it to one run, that run may lose it, and     *)
(* using it up is what the history counts: Tokens.  A receipt of           *)
(* retirement is written only by a run that has seen it: Evidence.  And    *)
(* whatever is left of a helper is known to its record, so that a closed   *)
(* one has left nothing: Remains.                                          *)
(***************************************************************************)
EXTENDS ProfileRecovery, TLAPS

MayPost(n, t) == at[n][t] = "create" \/ (at[n][t] = "lookup" /\ grant[n][t])
MayDispatch(n, t) == at[n][t] = "dispatch" /\ grant[n][t]

Typed ==
    /\ helper \in [Task -> Helpers]
    /\ at \in [Node -> [Task -> Place]]
    /\ grant \in [Node -> [Task -> BOOLEAN]]
    /\ posts \in [Task -> Nat] /\ dispatches \in [Task -> Nat]

SinglePost(t) ==
    /\ posts[t] <= 1
    /\ posts[t] = 1 => helper[t].launched
    /\ \A n \in Node : MayPost(n, t) => helper[t].launched /\ posts[t] = 0
    /\ \A m, n \in Node : MayPost(m, t) /\ MayPost(n, t) => m = n
SingleDispatch(t) ==
    /\ dispatches[t] <= 1
    /\ dispatches[t] = 1 => helper[t].write # None
    /\ \A n \in Node :
          MayDispatch(n, t) => helper[t].write # None /\ dispatches[t] = 0
    /\ \A m, n \in Node : MayDispatch(m, t) /\ MayDispatch(n, t) => m = n

Tokens ==
    /\ Typed
    /\ \A t \in Task : SinglePost(t) /\ SingleDispatch(t)

\* What a transaction other than the two grants does to the helpers.
Grown ==
    /\ helper' \in [Task -> Helpers]
    /\ \A t \in Task :
          /\ helper[t].launched => helper'[t].launched
          /\ helper[t].write # None => helper'[t].write # None

-----------------------------------------------------------------------------
(* Transactions.                                                           *)

LEMMA AdvanceGrows ==
    ASSUME Typed, NEW t \in Task, NEW u \in HelperUpdates, AdvanceHelper(t, u)
    PROVE  Grown
<1>. DEFINE h == helper[t]  next == Advanced(h, u)
<1>1. h \in Helpers /\ helper' = [helper EXCEPT ![t] = next]
  BY DEF Typed, AdvanceHelper
<1>2. next \in Helpers
  <2>1. /\ Attach(h.pod, u.pod) \in Maybe(Pod)
        /\ Attach(h.container, u.container) \in Maybe(Container)
        /\ Attach(h.binding, u.binding) \in Maybe(Binding)
        /\ Attach(u.stop, h.stop) \in Maybe(Receipt)
    BY <1>1 DEF Attach, Helpers, HelperUpdates
  <2>. QED
    BY <1>1, <2>1 DEF Advanced, KeepFirst, Helpers, HelperUpdates
<1>3. (h.launched => next.launched) /\ next.write = h.write
  BY <1>1 DEF Advanced, Helpers
<1>. QED
  BY <1>1, <1>2, <1>3 DEF Grown, Typed

LEMMA UpdateGrows ==
    ASSUME Typed, NEW t \in Task, NEW u \in HelperUpdates, Update(t, u)
    PROVE  Grown
<1>1. CASE AdvanceHelper(t, u)
  BY <1>1, AdvanceGrows
<1>2. CASE UNCHANGED vars
  BY <1>2 DEF vars, Grown, Typed
<1>. QED
  BY <1>1, <1>2 DEF Update

LEMMA ReserveGrows ==
    ASSUME Typed, NEW t \in Task, ReserveHelper(t)
    PROVE  Grown
<1>1. helper[t] = NoHelper /\ helper' = [helper EXCEPT ![t].phase = "reserved"]
  BY DEF ReserveHelper
<1>2. [NoHelper EXCEPT !.phase = "reserved"] \in Helpers
  BY DEF NoHelper, Helpers, Maybe
<1>. QED
  BY <1>1, <1>2 DEF Grown, Typed, Helpers, NoHelper

\* The update that archives a stop is well formed, since it names the binding.
LEMMA StopTyped ==
    ASSUME NEW t \in Task, helper[t] \in Helpers, NEW seen \in Seen,
           NEW u, u = [Change EXCEPT !.phase = "closing",
                         !.stop = [of |-> helper[t].binding, seen |-> seen]],
           AdvanceHelper(t, u)
    PROVE  u \in HelperUpdates
<1>1. /\ u.phase = "closing" /\ u.pod = None /\ u.container = None
      /\ u.binding = None
      /\ u.stop = [of |-> helper[t].binding, seen |-> seen]
      /\ u = [phase |-> "closing", pod |-> None, container |-> None,
              binding |-> None, stop |-> u.stop]
  BY DEF Change
<1>2. Advanced(helper[t], u).binding = helper[t].binding
  BY <1>1 DEF Advanced, Attach, Helpers
<1>3. u.stop # None => helper[t].binding \in Binding
  BY <1>2 DEF AdvanceHelper, Helpers, Maybe
<1>4. u.stop \in Maybe(Receipt)
  BY <1>1, <1>3 DEF Maybe, Receipt
<1>. QED
  BY <1>1, <1>4 DEF HelperUpdates, Maybe

LEMMA StopUpdates ==
    ASSUME Typed, NEW t \in Task, NEW seen \in Seen,
           NEW u, u = [Change EXCEPT !.phase = "closing",
                         !.stop = [of |-> helper[t].binding, seen |-> seen]],
           Update(t, u)
    PROVE  Grown
<1>1. CASE UNCHANGED vars
  BY <1>1 DEF vars, Grown, Typed
<1>2. CASE AdvanceHelper(t, u)
  BY <1>2, StopTyped, AdvanceGrows DEF Typed
<1>. QED
  BY <1>1, <1>2 DEF Update

-----------------------------------------------------------------------------
(* Steps that neither hand out a token nor use one.                        *)

LEMMA Elsewhere ==
    ASSUME Tokens, Grown, NEW n \in Node, NEW t \in Task,
           NEW p \in Place \ {"create", "lookup", "dispatch"},
           Goto(n, t, p), UNCHANGED <<grant, history>>
    PROVE  Tokens'
<1>1. Typed'
  BY DEF Tokens, Typed, Grown, Goto, history
<1>2. \A m \in Node, u \in Task :
        /\ MayPost(m, u)' => MayPost(m, u)
        /\ MayDispatch(m, u)' => MayDispatch(m, u)
  BY DEF MayPost, MayDispatch, Goto, Tokens, Typed
<1>3. ASSUME NEW u \in Task PROVE SinglePost(u)'
  BY <1>2 DEF SinglePost, Tokens, Grown, history
<1>4. ASSUME NEW u \in Task PROVE SingleDispatch(u)'
  BY <1>2 DEF SingleDispatch, Tokens, Grown, history
<1>. QED
  BY <1>1, <1>3, <1>4 DEF Tokens

LEMMA Unmoved ==
    ASSUME Tokens, Grown, UNCHANGED <<at, grant, history>>
    PROVE  Tokens'
<1>1. Typed'
  BY DEF Tokens, Typed, Grown, history
<1>2. \A m \in Node, u \in Task :
        /\ MayPost(m, u)' = MayPost(m, u)
        /\ MayDispatch(m, u)' = MayDispatch(m, u)
  BY DEF MayPost, MayDispatch
<1>3. ASSUME NEW u \in Task PROVE SinglePost(u)'
  BY <1>2 DEF SinglePost, Tokens, Grown, history
<1>4. ASSUME NEW u \in Task PROVE SingleDispatch(u)'
  BY <1>2 DEF SingleDispatch, Tokens, Grown, history
<1>. QED
  BY <1>1, <1>3, <1>4 DEF Tokens

LEMMA ReadsElsewhere ==
    ASSUME Tokens, NEW n \in Node, NEW t \in Task,
           NEW p \in Place \ {"create", "lookup", "dispatch"},
           Reads(n, t, p)
    PROVE  Tokens'
<1>1. Grown
  BY DEF Reads, vars, Grown, Tokens, Typed
<1>. QED
  BY <1>1, Elsewhere DEF Reads

LEMMA CommitsElsewhere ==
    ASSUME Tokens, Grown, NEW n \in Node, NEW t \in Task,
           NEW p \in Place \ {"create", "lookup", "dispatch"},
           Commits(n, t, p)
    PROVE  Tokens'
  BY Elsewhere DEF Commits

-----------------------------------------------------------------------------
(* Tokens are handed out and used.                                         *)

LEMMA LaunchHandsOut ==
    ASSUME Tokens, NEW n \in Node, NEW t \in Task, Launch(n, t)
    PROVE  Tokens'
<1>a. /\ at \in [Node -> [Task -> Place]]
      /\ grant \in [Node -> [Task -> BOOLEAN]]
      /\ posts \in [Task -> Nat] /\ dispatches \in [Task -> Nat]
  BY DEF Tokens, Typed
<1>b. /\ at' = [at EXCEPT ![n][t] = "lookup"]
      /\ UNCHANGED <<posts, dispatches>>
  BY DEF Launch, Goto, history
<1>c. at' \in [Node -> [Task -> Place]]
  BY <1>a, <1>b DEF Place
<1>1. CASE UNCHANGED vars /\ Granted(n, t, FALSE)
  <2>1. Typed'
    <3>1. grant' \in [Node -> [Task -> BOOLEAN]]
      BY <1>1, <1>a DEF Granted
    <3>2. helper' \in [Task -> Helpers]
      BY <1>1 DEF Tokens, Typed, vars
    <3>. QED
      BY <1>a, <1>b, <1>c, <3>1, <3>2 DEF Typed
  <2>2. \A m \in Node, u \in Task :
          /\ MayPost(m, u)' => MayPost(m, u)
          /\ MayDispatch(m, u)' => MayDispatch(m, u)
    BY <1>1 DEF MayPost, MayDispatch, Launch, Goto, Granted, Tokens, Typed
  <2>3. \A u \in Task : SinglePost(u)' /\ SingleDispatch(u)'
    BY <1>1, <2>2 DEF SinglePost, SingleDispatch, Tokens, Launch, vars, history
  <2>. QED
    BY <2>1, <2>3 DEF Tokens
<1>2. ASSUME BeginLaunch(t), NEW yes \in BOOLEAN, Granted(n, t, yes)
      PROVE  Tokens'
  <2>1. ~helper[t].launched
    BY <1>2 DEF BeginLaunch, GrantsLaunch
  <2>2. /\ helper' \in [Task -> Helpers]
        /\ helper'[t].launched
        /\ \A u \in Task : helper'[u].write = helper[u].write
        /\ \A u \in Task : helper[u].launched => helper'[u].launched
    <3>1. helper \in [Task -> Helpers]
      BY DEF Tokens, Typed
    <3>2. helper' = [helper EXCEPT ![t] = [helper[t] EXCEPT
                        !.phase = "provisioning", !.launched = TRUE]]
      BY <1>2, <3>1 DEF BeginLaunch, Helpers
    <3>3. [helper[t] EXCEPT !.phase = "provisioning", !.launched = TRUE] \in Helpers
      BY <3>1 DEF Helpers
    <3>4. \A u \in Task : u # t => helper'[u] = helper[u]
      BY <3>1, <3>2
    <3>5. helper'[t].launched /\ helper'[t].write = helper[t].write
      BY <3>1, <3>2 DEF Helpers
    <3>. QED
      BY <3>1, <3>2, <3>3, <3>4, <3>5
  <2>3. Typed'
    <3>1. grant' \in [Node -> [Task -> BOOLEAN]]
      BY <1>2, <1>a DEF Granted
    <3>. QED
      BY <2>2, <1>a, <1>b, <1>c, <3>1 DEF Typed
  <2>4. \A m \in Node, u \in Task :
          /\ MayPost(m, u)' => MayPost(m, u) \/ (m = n /\ u = t)
          /\ MayDispatch(m, u)' => MayDispatch(m, u)
    BY <1>2 DEF MayPost, MayDispatch, Launch, Goto, Granted, Tokens, Typed
  <2>5. \A m \in Node : ~MayPost(m, t)
    BY <2>1 DEF Tokens, SinglePost
  <2>6. posts[t] = 0
    <3>1. posts[t] \in Nat
      BY DEF Tokens, Typed
    <3>2. posts[t] <= 1 /\ posts[t] # 1
      BY <2>1 DEF Tokens, SinglePost
    <3>. QED
      BY <3>1, <3>2
  <2>7. ASSUME NEW u \in Task PROVE SinglePost(u)'
    <3>1. CASE u = t
      BY <2>2, <2>4, <2>5, <2>6, <3>1 DEF SinglePost, Launch, history
    <3>2. CASE u # t
      BY <2>2, <2>4, <3>2 DEF SinglePost, Tokens, Launch, history
    <3>. QED
      BY <3>1, <3>2
  <2>8. ASSUME NEW u \in Task PROVE SingleDispatch(u)'
    BY <2>2, <2>4 DEF SingleDispatch, Tokens, Launch, history
  <2>. QED
    BY <2>3, <2>7, <2>8 DEF Tokens
<1>. QED
  BY <1>1, <1>2 DEF Launch

LEMMA LookupKeeps ==
    ASSUME Tokens, NEW n \in Node, NEW t \in Task, Lookup(n, t)
    PROVE  Tokens'
<1>1. CASE helperPod[t] = "absent"
  <2>1. MayPost(n, t)
    BY <1>1 DEF Lookup, MayCreate, MayPost
  <2>5. Reads(n, t, "create")
    BY <1>1 DEF Lookup
  <2>2. Typed'
    BY <2>5 DEF Reads, Goto, Tokens, Typed, vars, history, Place
  <2>3. \A m \in Node, u \in Task :
          /\ MayPost(m, u)' => MayPost(m, u)
          /\ MayDispatch(m, u)' => MayDispatch(m, u)
    BY <2>1, <2>5 DEF MayPost, MayDispatch, Reads, Goto, Tokens, Typed
  <2>4. \A u \in Task : SinglePost(u)' /\ SingleDispatch(u)'
    BY <2>3, <2>5
    DEF SinglePost, SingleDispatch, Tokens, Reads, vars, history
  <2>. QED
    BY <2>2, <2>4 DEF Tokens
<1>2. CASE helperPod[t] # "absent"
  <2>1. Reads(n, t, "adopt")
    BY <1>2 DEF Lookup
  <2>. QED
    BY <2>1, ReadsElsewhere DEF Place
<1>. QED
  BY <1>1, <1>2

LEMMA CreateUses ==
    ASSUME Tokens, NEW n \in Node, NEW t \in Task, Create(n, t)
    PROVE  Tokens'
<1>1. MayPost(n, t) /\ posts[t] = 0 /\ helper[t].launched
  BY DEF Create, MayPost, Tokens, SinglePost
<1>2. /\ \A m \in Node : MayPost(m, t) => m = n
      /\ posts' = [posts EXCEPT ![t] = 1]
      /\ UNCHANGED <<helper, dispatches>>
  BY <1>1 DEF Create, Tokens, SinglePost, vars
<1>3. Typed'
  <2>1. at' \in [Node -> [Task -> Place]]
    <3>1. PICK p \in Place : at' = [at EXCEPT ![n][t] = p]
      BY DEF Create, Goto, Place
    <3>. QED
      BY <3>1 DEF Tokens, Typed
  <2>2. grant' \in [Node -> [Task -> BOOLEAN]]
    <3>1. CASE UNCHANGED grant
      BY <3>1 DEF Tokens, Typed
    <3>2. CASE grant' = [grant EXCEPT ![n][t] = FALSE]
      BY <3>2 DEF Tokens, Typed
    <3>. QED
      BY <3>1, <3>2 DEF Create, Granted
  <2>3. posts' \in [Task -> Nat]
    BY <1>2 DEF Tokens, Typed
  <2>. QED
    BY <1>2, <2>1, <2>2, <2>3 DEF Tokens, Typed
<1>4. \A m \in Node, u \in Task :
        /\ MayPost(m, u)' => MayPost(m, u) /\ ~(m = n /\ u = t)
        /\ MayDispatch(m, u)' => MayDispatch(m, u)
  BY DEF MayPost, MayDispatch, Create, Goto, Granted, Tokens, Typed
<1>5. \A m \in Node : ~MayPost(m, t)'
  BY <1>2, <1>4
<1>6. ASSUME NEW u \in Task PROVE SinglePost(u)'
  <2>1. CASE u = t
    BY <1>1, <1>2, <1>5, <2>1 DEF SinglePost, Tokens, Typed
  <2>2. CASE u # t
    BY <1>2, <1>4, <2>2 DEF SinglePost, Tokens, Typed
  <2>. QED
    BY <2>1, <2>2
<1>7. ASSUME NEW u \in Task PROVE SingleDispatch(u)'
  BY <1>2, <1>4 DEF SingleDispatch, Tokens
<1>. QED
  BY <1>3, <1>6, <1>7 DEF Tokens

LEMMA IntentHandsOut ==
    ASSUME Tokens, NEW n \in Node, NEW t \in Task, Intent(n, t)
    PROVE  Tokens'
<1>1. CASE UNCHANGED vars /\ Granted(n, t, FALSE)
  <2>1. Typed'
    BY <1>1 DEF Intent, Tokens, Typed, Goto, Granted, vars, history, Place
  <2>2. \A m \in Node, u \in Task :
          /\ MayPost(m, u)' => MayPost(m, u)
          /\ MayDispatch(m, u)' => MayDispatch(m, u)
    BY <1>1 DEF MayPost, MayDispatch, Intent, Goto, Granted, Tokens, Typed
  <2>3. \A u \in Task : SinglePost(u)' /\ SingleDispatch(u)'
    BY <1>1, <2>2 DEF SinglePost, SingleDispatch, Tokens, Intent, vars, history
  <2>. QED
    BY <2>1, <2>3 DEF Tokens
<1>2. ASSUME NEW pin \in Pin, ReserveWrite(t, pin),
             NEW yes \in BOOLEAN, Granted(n, t, yes)
      PROVE  Tokens'
  <2>1. helper[t].write = None
    BY <1>2 DEF ReserveWrite, GrantsWrite
  <2>2. /\ helper' \in [Task -> Helpers]
        /\ helper'[t].write # None
        /\ \A u \in Task : helper'[u].launched = helper[u].launched
        /\ \A u \in Task : helper[u].write # None => helper'[u].write # None
    <3>1. pin # None /\ pin \in Maybe(Pin)
      BY LeaseAssumption DEF Maybe
    <3>. QED
      BY <1>2, <3>1 DEF ReserveWrite, Tokens, Typed, Helpers
  <2>3. Typed'
    BY <1>2, <2>2 DEF Intent, Tokens, Typed, Goto, Granted, history, Place
  <2>4. \A m \in Node, u \in Task :
          /\ MayDispatch(m, u)' => MayDispatch(m, u) \/ (m = n /\ u = t)
          /\ MayPost(m, u)' => MayPost(m, u)
    BY <1>2 DEF MayPost, MayDispatch, Intent, Goto, Granted, Tokens, Typed
  <2>5. \A m \in Node : ~MayDispatch(m, t)
    BY <2>1 DEF Tokens, SingleDispatch
  <2>6. dispatches[t] = 0
    <3>1. dispatches[t] \in Nat
      BY DEF Tokens, Typed
    <3>2. dispatches[t] <= 1 /\ dispatches[t] # 1
      BY <2>1 DEF Tokens, SingleDispatch
    <3>. QED
      BY <3>1, <3>2
  <2>7. ASSUME NEW u \in Task PROVE SingleDispatch(u)'
    <3>1. CASE u = t
      BY <2>2, <2>4, <2>5, <2>6, <3>1 DEF SingleDispatch, Intent, history
    <3>2. CASE u # t
      BY <2>2, <2>4, <3>2 DEF SingleDispatch, Tokens, Intent, history
    <3>. QED
      BY <3>1, <3>2
  <2>8. ASSUME NEW u \in Task PROVE SinglePost(u)'
    BY <2>2, <2>4 DEF SinglePost, Tokens, Intent, history
  <2>. QED
    BY <2>3, <2>7, <2>8 DEF Tokens
<1>. QED
  BY <1>1, <1>2 DEF Intent

LEMMA DispatchUses ==
    ASSUME Tokens, NEW n \in Node, NEW t \in Task, Dispatch(n, t)
    PROVE  Tokens'
<1>1. CASE ~grant[n][t]
  <2>1. Reads(n, t, "inspect")
    BY <1>1 DEF Dispatch, Mode
  <2>. QED
    BY <2>1, ReadsElsewhere DEF Place
<1>2. CASE grant[n][t]
  <2>1. MayDispatch(n, t) /\ dispatches[t] = 0 /\ helper[t].write # None
    BY <1>2 DEF Dispatch, MayDispatch, Tokens, SingleDispatch
  <2>2. /\ \A m \in Node : MayDispatch(m, t) => m = n
        /\ dispatches' = [dispatches EXCEPT ![t] = 1]
        /\ at' = [at EXCEPT ![n][t] = "await"]
        /\ UNCHANGED <<helper, posts, grant>>
    BY <1>2, <2>1 DEF Dispatch, Mode, Goto, Tokens, SingleDispatch, vars
  <2>3. Typed'
    BY <2>2 DEF Tokens, Typed, Place
  <2>4. \A m \in Node, u \in Task :
          /\ MayDispatch(m, u)' => MayDispatch(m, u) /\ ~(m = n /\ u = t)
          /\ MayPost(m, u)' => MayPost(m, u)
    BY <2>2 DEF MayPost, MayDispatch, Tokens, Typed
  <2>5. \A m \in Node : ~MayDispatch(m, t)'
    BY <2>2, <2>4
  <2>6. ASSUME NEW u \in Task PROVE SingleDispatch(u)'
    <3>1. CASE u = t
      BY <2>1, <2>2, <2>5, <3>1 DEF SingleDispatch, Tokens, Typed
    <3>2. CASE u # t
      BY <2>2, <2>4, <3>2 DEF SingleDispatch, Tokens, Typed
    <3>. QED
      BY <3>1, <3>2
  <2>7. ASSUME NEW u \in Task PROVE SinglePost(u)'
    BY <2>2, <2>4 DEF SinglePost, Tokens
  <2>. QED
    BY <2>3, <2>6, <2>7 DEF Tokens
<1>. QED
  BY <1>1, <1>2
-----------------------------------------------------------------------------
(* The other steps of a run.                                               *)

\* What a run asks an update to say is well formed.
LEMMA ChangesAreUpdates ==
    /\ [Change EXCEPT !.pod = Helper.pod] \in HelperUpdates
    /\ [Change EXCEPT !.container = Helper.container] \in HelperUpdates
    /\ [Change EXCEPT !.phase = "ready", !.binding = Helper.binding]
            \in HelperUpdates
    /\ [Change EXCEPT !.phase = "closing"] \in HelperUpdates
    /\ [Change EXCEPT !.phase = "closed"] \in HelperUpdates
  BY RecoveryAssumption DEF Change, HelperUpdates, Maybe, Objects

\* Steps that only look.
LEMMA LooksKeep ==
    ASSUME Tokens, NEW n \in Node, NEW t \in Task,
           \/ Begin(n, t) \/ Route(n, t) \/ SeesRunning(n, t) \/ Bind(n, t)
           \/ Settle(n, t) \/ Answered(n, t) \/ Inspect(n, t)
           \/ RequestStop(n, t) \/ Abandon(n, t)
    PROVE  Tokens'
<1>1. PICK p \in Place \ {"create", "lookup", "dispatch"} : Reads(n, t, p)
  BY DEF Begin, Route, SeesRunning, Bind, Settle, Answered, Inspect,
         RequestStop, Abandon, Place
<1>. QED
  BY <1>1, ReadsElsewhere

\* Steps that commit an update of the helper, or of its lease.
LEMMA UpdatesKeep ==
    ASSUME Tokens, NEW n \in Node, NEW t \in Task,
           \/ Reserve(n, t) \/ Adopt(n, t) \/ NamesContainer(n, t)
           \/ Ready(n, t) \/ Acknowledge(n, t) \/ Recovered(n, t)
           \/ Capture(n, t) \/ Close(n, t)
    PROVE  Tokens'
<1>1. PICK p \in Place \ {"create", "lookup", "dispatch"} : Commits(n, t, p)
  BY DEF Reserve, Adopt, NamesContainer, Ready, Acknowledge, Recovered,
         Capture, Close, Place
<1>2. Typed
  BY DEF Tokens
<1>3. UNCHANGED helper => Grown
  BY <1>2 DEF Grown, Typed
<1>4. UNCHANGED vars => UNCHANGED helper
  BY DEF vars
<1>5. Grown
  <2>1. CASE Reserve(n, t)
    BY <1>2, <1>3, <1>4, <2>1, ReserveGrows DEF Reserve
  <2>2. CASE Adopt(n, t)
    BY <1>2, <2>2, UpdateGrows, ChangesAreUpdates DEF Adopt
  <2>3. CASE NamesContainer(n, t)
    BY <1>2, <2>3, UpdateGrows, ChangesAreUpdates DEF NamesContainer
  <2>4. CASE Ready(n, t)
    BY <1>2, <2>4, UpdateGrows, ChangesAreUpdates DEF Ready
  <2>5. CASE Acknowledge(n, t)
    BY <1>3, <1>4, <2>5 DEF Acknowledge, RecordRecovery
  <2>6. CASE Recovered(n, t)
    BY <1>2, <2>6, UpdateGrows, ChangesAreUpdates DEF Recovered
  <2>7. CASE Capture(n, t)
    BY <1>2, <1>3, <1>4, <2>7, StopUpdates DEF Capture
  <2>8. CASE Close(n, t)
    BY <1>2, <2>8, UpdateGrows, ChangesAreUpdates DEF Close
  <2>. QED
    BY <2>1, <2>2, <2>3, <2>4, <2>5, <2>6, <2>7, <2>8
<1>. QED
  BY <1>1, <1>5, CommitsElsewhere

LEMMA RecoverStepKeeps ==
    ASSUME Tokens, NEW n \in Node, NEW t \in Task, RecoverStep(n, t)
    PROVE  Tokens'
<1>1. CASE Launch(n, t)
  BY <1>1, LaunchHandsOut
<1>2. CASE Lookup(n, t)
  BY <1>2, LookupKeeps
<1>3. CASE Create(n, t)
  BY <1>3, CreateUses
<1>4. CASE Intent(n, t)
  BY <1>4, IntentHandsOut
<1>5. CASE Dispatch(n, t)
  BY <1>5, DispatchUses
<1>6. CASE Delete(n, t)
  <2>1. Grown
    BY <1>6 DEF Delete, vars, Grown, Tokens, Typed
  <2>2. "gone" \in Place \ {"create", "lookup", "dispatch"}
    BY DEF Place
  <2>. QED
    BY <1>6, <2>1, <2>2, Elsewhere DEF Delete, history
<1>. QED
  BY <1>1, <1>2, <1>3, <1>4, <1>5, <1>6, LooksKeep, UpdatesKeep
  DEF RecoverStep

\* The cluster moves no run, and the supervisor touches no helper.
LEMMA OthersKeep ==
    ASSUME Tokens, NEW t \in Task, ClusterStep(t) \/ SupervisorStep(t)
    PROVE  Tokens'
<1>1. UNCHANGED <<helper, at, grant, history>>
  <2>1. CASE ClusterStep(t)
    BY <2>1 DEF ClusterStep, PodLands, HelperStarts, HelperExits, PodGoes,
                RuntimeForgets, Retires, vars, history
  <2>2. CASE SupervisorStep(t)
    BY <2>2 DEF SupervisorStep, AdvanceComputer, ReleaseTask, recoveryVars,
                history
  <2>. QED
    BY <2>1, <2>2
<1>2. Grown
  BY <1>1 DEF Grown, Tokens, Typed
<1>. QED
  BY <1>1, <1>2, Unmoved

-----------------------------------------------------------------------------
LEMMA TokensInit == RecoveryInit => Tokens
<1>. SUFFICES ASSUME RecoveryInit PROVE Tokens
  OBVIOUS
<1>1. NoHelper \in Helpers
  BY DEF NoHelper, Helpers, Maybe
<1>2. Typed
  BY <1>1 DEF RecoveryInit, NoRecovery, Typed, Place
<1>3. \A t \in Task : SinglePost(t) /\ SingleDispatch(t)
  BY DEF RecoveryInit, NoRecovery, SinglePost, SingleDispatch, MayPost,
         MayDispatch
<1>. QED
  BY <1>2, <1>3 DEF Tokens

\* recover() and its transactions (recovery-supervisor.js, recovery-launch.js,
\* recovery-write.js): a right to post or to dispatch is held by at most one run,
\* was recorded before it was handed out, and is gone once used.
THEOREM TokensHeld == RecoverySpec => []Tokens
<1>1. Tokens /\ [RecoveryNext]_<<vars, recoveryVars>> => Tokens'
  <2>. SUFFICES ASSUME Tokens, [RecoveryNext]_<<vars, recoveryVars>>
                PROVE  Tokens'
    OBVIOUS
  <2>1. CASE RecoveryNext
    BY <2>1, RecoverStepKeeps, LooksKeep, OthersKeep DEF RecoveryNext
  <2>2. CASE UNCHANGED <<vars, recoveryVars>>
    <3>1. UNCHANGED <<helper, at, grant, history>>
      BY <2>2 DEF vars, recoveryVars, history
    <3>2. Grown
      BY <3>1 DEF Grown, Tokens, Typed
    <3>. QED
      BY <3>1, <3>2, Unmoved
  <2>. QED
    BY <2>1, <2>2
<1>. QED
  BY TokensInit, <1>1, PTL DEF RecoverySpec

\* dispatchOwner and reserveRecoveryWrite: whatever runs are given up, repeated or
\* restarted by other boots, the helper's Pod is requested once and its command
\* is sent once.
THEOREM SettledOnce == RecoverySpec => [](HelperPostedOnce /\ RecoveredOnce)
<1>1. Tokens => HelperPostedOnce /\ RecoveredOnce
  BY DEF Tokens, SinglePost, SingleDispatch, HelperPostedOnce, RecoveredOnce
<1>. QED
  BY TokensHeld, <1>1, PTL

\* The write's half of the theorem above: whatever is lost or repeated, the
\* command that moves the profile's lock is sent once (recovery-controller.js:71).
THEOREM WrittenAtMostOnce == RecoverySpec => []RecoveredOnce
<1>1. HelperPostedOnce /\ RecoveredOnce => RecoveredOnce
  OBVIOUS
<1>. QED
  BY <1>1, SettledOnce, PTL

-----------------------------------------------------------------------------
(* A receipt of retirement is earned: whoever has reason to write one has  *)
(* seen the directory moved, and it never moves back.                      *)

Places ==
    /\ lease \in [Task -> Leases]
    /\ at \in [Node -> [Task -> Place]]
    /\ command \in [Task -> {"none", "sent", "done"}]
    /\ lock \in [Task -> {"none", "active", "retired"}]

Earned(t) ==
    \/ lock[t] = "retired"
    \/ /\ lease[t].recovery = None /\ command[t] # "done"
       /\ \A n \in Node : at[n][t] # "acknowledge"

Evidence == Places /\ \A t \in Task : Earned(t)

\* Steps that earn nothing: no receipt, answer or move of the directory.
LEMMA NothingEarned ==
    ASSUME Evidence, Places', UNCHANGED <<command, lock>>,
           \A t \in Task : lease'[t].recovery = lease[t].recovery,
           \A n \in Node, t \in Task :
              at'[n][t] = "acknowledge" =>
                  at[n][t] = "acknowledge" \/ lock[t] = "retired"
    PROVE  Evidence'
  BY DEF Evidence, Earned

LEMMA RunEarnsNothing ==
    ASSUME Evidence, NEW n \in Node, NEW t \in Task, NEW p \in Place,
           Goto(n, t, p), p = "acknowledge" => lock[t] = "retired",
           UNCHANGED <<lease, command, lock>>
    PROVE  Evidence'
<1>1. Places'
  BY DEF Evidence, Places, Goto
<1>2. \A m \in Node, u \in Task :
          at'[m][u] = "acknowledge" =>
              at[m][u] = "acknowledge" \/ lock[u] = "retired"
  BY DEF Evidence, Places, Goto
<1>. QED
  BY <1>1, <1>2, NothingEarned

\* Transactions on the helper leave the lease proper alone.
LEMMA UpdateSparesLease ==
    ASSUME NEW t, NEW u, Update(t, u)
    PROVE  UNCHANGED lease
  BY DEF Update, AdvanceHelper, vars

LEMMA RunKeepsEvidence ==
    ASSUME Evidence, NEW n \in Node, NEW t \in Task,
           RecoverStep(n, t) \/ Abandon(n, t)
    PROVE  Evidence'
<1>1. CASE Acknowledge(n, t)
  <2>1. lock[t] = "retired"
    BY <1>1 DEF Acknowledge, Evidence, Earned
  <2>2. Goto(n, t, "recovered") /\ UNCHANGED <<command, lock>>
    BY <1>1 DEF Acknowledge, Commits
  <2>3. at' \in [Node -> [Task -> Place]]
    BY <2>2 DEF Goto, Evidence, Places, Place
  <2>4. CASE UNCHANGED vars
    BY <2>2, <2>4, RunEarnsNothing DEF vars, Place
  <2>5. ASSUME NEW seen \in Seen,
               RecordRecovery(t, [of |-> lease[t].binding, seen |-> seen])
        PROVE  Evidence'
    <3>1. [of |-> lease[t].binding, seen |-> seen] \in Maybe(Receipt)
      BY <2>5 DEF RecordRecovery, StopProven, Evidence, Places, Leases, Maybe,
                  Receipt
    <3>2. /\ lease' \in [Task -> Leases]
          /\ \A u \in Task \ {t} : lease'[u] = lease[u]
      BY <2>5, <3>1 DEF RecordRecovery, Evidence, Places, Leases
    <3>3. Places'
      BY <2>2, <2>3, <3>2 DEF Evidence, Places
    <3>4. ASSUME NEW u \in Task PROVE Earned(u)'
      BY <2>1, <2>2, <3>2 DEF Earned, Evidence, Places, Goto
    <3>. QED
      BY <3>3, <3>4 DEF Evidence
  <2>. QED
    BY <1>1, <2>4, <2>5 DEF Acknowledge
<1>2. CASE Dispatch(n, t) /\ grant[n][t]
  <2>1. /\ command' = [command EXCEPT ![t] = "sent"]
        /\ Goto(n, t, "await") /\ UNCHANGED <<lease, lock>>
    BY <1>2 DEF Dispatch, Mode, vars
  <2>2. Places'
    BY <2>1 DEF Goto, Evidence, Places, Place
  <2>3. ASSUME NEW u \in Task PROVE Earned(u)'
    BY <2>1 DEF Earned, Evidence, Places, Goto
  <2>. QED
    BY <2>2, <2>3 DEF Evidence
<1>3. CASE Answered(n, t) \/ Inspect(n, t)
  <2>1. lock[t] = "retired"
    BY <1>3 DEF Answered, Inspect, SeesRetired, Evidence, Earned
  <2>2. Reads(n, t, "acknowledge")
    BY <1>3 DEF Answered, Inspect
  <2>. QED
    BY <2>1, <2>2, RunEarnsNothing DEF Reads, vars, Place
<1>4. ASSUME NEW p \in Place \ {"acknowledge"},
             Reads(n, t, p) \/ (Commits(n, t, p) /\ UNCHANGED lease)
      PROVE  Evidence'
  BY <1>4, RunEarnsNothing DEF Reads, Commits, vars
<1>5. CASE \/ Begin(n, t) \/ Route(n, t) \/ SeesRunning(n, t) \/ Bind(n, t)
           \/ Settle(n, t) \/ RequestStop(n, t) \/ Abandon(n, t)
           \/ Lookup(n, t) \/ (Dispatch(n, t) /\ ~grant[n][t])
  <2>1. PICK p \in Place \ {"acknowledge"} : Reads(n, t, p)
    BY <1>5 DEF Begin, Route, SeesRunning, Bind, Settle, RequestStop, Abandon,
                Lookup, Dispatch, Mode, Place
  <2>. QED
    BY <1>4, <2>1
<1>6. CASE \/ Reserve(n, t) \/ Adopt(n, t) \/ NamesContainer(n, t)
           \/ Ready(n, t) \/ Recovered(n, t) \/ Capture(n, t) \/ Close(n, t)
  <2>1. PICK p \in Place \ {"acknowledge"} : Commits(n, t, p)
    BY <1>6 DEF Reserve, Adopt, NamesContainer, Ready, Recovered, Capture,
                Close, Place
  <2>2. UNCHANGED lease
    BY <1>6, UpdateSparesLease
    DEF Reserve, ReserveHelper, Adopt, NamesContainer, Ready, Recovered,
        Capture, Close, vars
  <2>. QED
    BY <1>4, <2>1, <2>2
<1>7. CASE \/ Launch(n, t) \/ Create(n, t) \/ Intent(n, t) \/ Delete(n, t)
  <2>1. PICK p \in Place \ {"acknowledge"} : Goto(n, t, p)
    BY <1>7 DEF Launch, Create, Intent, Delete, Place
  <2>2. UNCHANGED <<lease, command, lock>>
    BY <1>7 DEF Launch, BeginLaunch, Create, Intent, ReserveWrite, Delete, vars
  <2>. QED
    BY <2>1, <2>2, RunEarnsNothing
<1>. QED
  BY <1>1, <1>2, <1>3, <1>5, <1>6, <1>7 DEF RecoverStep

LEMMA OthersKeepEvidence ==
    ASSUME Evidence, NEW t \in Task, ClusterStep(t) \/ SupervisorStep(t)
    PROVE  Evidence'
<1>1. CASE Retires(t)
  <2>1. Places'
    BY <1>1 DEF Retires, Evidence, Places, vars
  <2>2. ASSUME NEW u \in Task PROVE Earned(u)'
    BY <1>1 DEF Retires, Earned, Evidence, Places, vars
  <2>. QED
    BY <2>1, <2>2 DEF Evidence
<1>2. CASE ClusterStep(t) /\ ~Retires(t)
  BY <1>2 DEF ClusterStep, PodLands, HelperStarts, HelperExits, PodGoes,
              RuntimeForgets, vars, Evidence, Places, Earned
<1>3. CASE SupervisorStep(t)
  <2>1. /\ lease' \in [Task -> Leases]
        /\ \A u \in Task : lease'[u].recovery = lease[u].recovery
    <3>1. CASE UNCHANGED lease
      BY <3>1 DEF Evidence, Places
    <3>2. ASSUME NEW phase \in {"closing", "closed", "reconciliation"},
                 lease' = [lease EXCEPT ![t] =
                     Updated(lease[t], [phase |-> phase, pod |-> None,
                        pvc |-> None, container |-> None, binding |-> None])]
          PROVE  <2>1!1 /\ <2>1!2
      <4>1. lease[t] \in Leases
        BY DEF Evidence, Places
      <4>2. /\ lease'[t] \in Leases
            /\ lease'[t].recovery = lease[t].recovery
        BY <3>2, <4>1 DEF Updated, Attach, Leases, Evidence, Places
      <4>. QED
        BY <3>2, <4>2 DEF Evidence, Places
    <3>. QED
      BY <1>3, <3>1, <3>2 DEF SupervisorStep, AdvanceComputer, ReleaseTask
  <2>2. UNCHANGED <<at, command, lock>>
    BY <1>3 DEF SupervisorStep, recoveryVars
  <2>3. Places'
    BY <2>1, <2>2 DEF Evidence, Places
  <2>. QED
    BY <2>1, <2>2, <2>3, NothingEarned
<1>. QED
  BY <1>1, <1>2, <1>3

LEMMA EvidenceInit == RecoveryInit => Evidence
<1>. SUFFICES ASSUME RecoveryInit PROVE Evidence
  OBVIOUS
<1>1. Stopped \in Leases
  BY RecoveryAssumption DEF Stopped, Leases, Maybe, Objects, Receipt
<1>2. Places
  BY <1>1 DEF RecoveryInit, NoRecovery, Places, Place
<1>3. \A t \in Task : Earned(t)
  BY DEF RecoveryInit, NoRecovery, Stopped, Earned
<1>. QED
  BY <1>2, <1>3 DEF Evidence

LEMMA EvidenceHeld == RecoverySpec => []Evidence
<1>1. Evidence /\ [RecoveryNext]_<<vars, recoveryVars>> => Evidence'
  <2>. SUFFICES ASSUME Evidence, [RecoveryNext]_<<vars, recoveryVars>>
                PROVE  Evidence'
    OBVIOUS
  <2>1. CASE RecoveryNext
    BY <2>1, RunKeepsEvidence, OthersKeepEvidence DEF RecoveryNext
  <2>2. CASE UNCHANGED <<vars, recoveryVars>>
    BY <2>2 DEF vars, recoveryVars, Evidence, Places, Earned
  <2>. QED
    BY <2>1, <2>2
<1>. QED
  BY EvidenceInit, <1>1, PTL DEF RecoverySpec

\* recordComputerRecovery as the controller uses it: no run, however it learned of
\* the outcome (its own command, an inspection, another run's), records the
\* retirement of a lease directory that is still in place.
THEOREM RetirementSeen == RecoverySpec => []ReceiptIsTrue
<1>1. Evidence => ReceiptIsTrue
  BY DEF Evidence, Earned, ReceiptIsTrue
<1>. QED
  BY EvidenceHeld, <1>1, PTL

-----------------------------------------------------------------------------
(* What the record says of the helper bounds what the cluster may still    *)
(* hold of it: without a request there is nothing, a request in flight has *)
(* made nothing yet, and a stop on record was seen on the container.       *)

Cluster ==
    /\ helperPod \in [Task -> {"absent", "present", "deleting"}]
    /\ helperRuns \in [Task -> {"none", "running", "exited", "forgotten"}]

Nothing(t) == helperPod[t] = "absent" /\ helperRuns[t] = "none"
HasExited(t) == helperRuns[t] \in {"exited", "forgotten"}

Accounted(t) ==
    /\ posts[t] = 0 => Nothing(t) /\ t \notin inFlight
    /\ t \in inFlight => Nothing(t)
    /\ helper[t].phase = "none" => ~helper[t].launched
    /\ helper[t].stop # None => HasExited(t)
    /\ helper[t].phase = "closed" =>
            /\ helperPod[t] = "absent"
            /\ helper[t].launched => helper[t].stop # None
    /\ lease[t].phase = "closed" => helper[t].phase \in {"none", "closed"}

Remains == Cluster /\ \A t \in Task : Accounted(t)

\* What it is for.
LEMMA RemainsQuiet == Tokens /\ Remains => ClosedIsQuiet
<1>. SUFFICES ASSUME Tokens, Remains, NEW t \in Task,
                     helper[t].phase = "closed" \/ lease[t].phase = "closed"
              PROVE  /\ helperPod[t] = "absent" /\ t \notin inFlight
                     /\ helperRuns[t] # "running"
  BY DEF ClosedIsQuiet
<1>1. CASE ~helper[t].launched
  <2>1. posts[t] \in Nat
    BY DEF Tokens, Typed
  <2>2. posts[t] <= 1 /\ posts[t] # 1
    BY <1>1 DEF Tokens, SinglePost
  <2>3. posts[t] = 0
    BY <2>1, <2>2
  <2>. QED
    BY <2>3 DEF Remains, Accounted, Nothing
<1>2. CASE helper[t].launched
  <2>1. helper[t].phase = "closed"
    BY <1>2 DEF Remains, Accounted
  <2>2. HasExited(t)
    BY <1>2, <2>1 DEF Remains, Accounted
  <2>. QED
    BY <2>1, <2>2 DEF Remains, Accounted, Nothing, HasExited
<1>. QED
  BY <1>1, <1>2

\* Steps of a run that leave the cluster and the requests alone, and the helper
\* too, or move it in one transaction of an open lease.
LEMMA StillRemains ==
    ASSUME Remains, UNCHANGED <<lease, helper, cluster, posts>>
    PROVE  Remains'
  BY DEF Remains, Cluster, Accounted, Nothing, HasExited, cluster

LEMMA HelperMoves ==
    ASSUME Remains, Tokens, NEW t \in Task, NEW next,
           helper' = [helper EXCEPT ![t] = next],
           lease[t].phase # "closed", next.phase # "none",
           next.stop # None => HasExited(t),
           next.phase = "closed" => helperPod[t] = "absent"
                                    /\ (next.launched => next.stop # None),
           UNCHANGED <<lease, cluster, posts>>
    PROVE  Remains'
<1>1. helper'[t] = next /\ \A u \in Task \ {t} : helper'[u] = helper[u]
  BY DEF Tokens, Typed
<1>2. ASSUME NEW u \in Task PROVE Accounted(u)'
  <2>1. CASE u = t
    BY <1>1, <2>1 DEF Remains, Accounted, Nothing, HasExited, cluster
  <2>2. CASE u # t
    BY <1>1, <2>2 DEF Remains, Accounted, Nothing, HasExited, cluster
  <2>. QED
    BY <2>1, <2>2
<1>. QED
  BY <1>2 DEF Remains, Cluster, cluster

LEMMA UpdateRemains ==
    ASSUME Remains, Tokens, NEW t \in Task, NEW u, Update(t, u),
           u.phase # "none",
           u.stop # None => HasExited(t),
           u.phase = "closed" => helperPod[t] = "absent",
           UNCHANGED <<cluster, posts>>
    PROVE  Remains'
<1>1. CASE UNCHANGED vars
  BY <1>1, StillRemains DEF vars
<1>2. CASE AdvanceHelper(t, u)
  <2>. DEFINE h == helper[t]  next == Advanced(h, u)
  <2>1. /\ helper' = [helper EXCEPT ![t] = next] /\ UNCHANGED lease
        /\ lease[t].phase # "closed" /\ HelperClosable(h, next)
    BY <1>2 DEF AdvanceHelper, Settling
  <2>2. h \in Helpers
    BY DEF Tokens, Typed
  <2>3. next.phase = u.phase /\ next.stop \in {h.stop, u.stop}
    BY <2>2 DEF Advanced, Attach, KeepFirst, Helpers
  <2>4. next.stop # None => HasExited(t)
    BY <2>3 DEF Remains, Accounted
  <2>5. next.phase = "closed" => (next.launched => next.stop # None)
    BY <2>1 DEF HelperClosable, HelperStopProven
  <2>6. QED
    <3>. HIDE DEF next
    <3>. QED
      BY <2>1, <2>3, <2>4, <2>5, HelperMoves
<1>. QED
  BY <1>1, <1>2 DEF Update

LEMMA RunRemains ==
    ASSUME Tokens, Remains, NEW n \in Node, NEW t \in Task,
           RecoverStep(n, t) \/ Abandon(n, t)
    PROVE  Remains'
<1>0. helper[t] \in Helpers
  BY DEF Tokens, Typed
<1>1. CASE \/ Begin(n, t) \/ Route(n, t) \/ SeesRunning(n, t) \/ Bind(n, t)
           \/ Settle(n, t) \/ Answered(n, t) \/ Inspect(n, t) \/ Lookup(n, t)
           \/ RequestStop(n, t) \/ Abandon(n, t)
  <2>1. PICK p : Reads(n, t, p)
    BY <1>1 DEF Begin, Route, SeesRunning, Bind, Settle, Answered, Inspect,
                Lookup, RequestStop, Abandon
  <2>. QED
    BY <2>1, StillRemains DEF Reads, vars, history
<1>2. CASE Dispatch(n, t)
  BY <1>2, StillRemains DEF Dispatch, Reads, vars, cluster, history
<1>3. CASE Reserve(n, t)
  <2>1. CASE UNCHANGED vars
    BY <1>3, <2>1, StillRemains DEF Reserve, Commits, vars, history
  <2>2. CASE ReserveHelper(t)
    <3>. DEFINE next == [NoHelper EXCEPT !.phase = "reserved"]
    <3>1. /\ helper' = [helper EXCEPT ![t] = next] /\ UNCHANGED lease
          /\ lease[t].phase # "closed"
      BY <2>2 DEF ReserveHelper, Settling, Tokens, Typed
    <3>2. next.phase = "reserved" /\ next.stop = None
      BY DEF NoHelper
    <3>3. UNCHANGED <<cluster, posts>>
      BY <1>3 DEF Reserve, Commits, history
    <3>. HIDE DEF next
    <3>. QED
      BY <3>1, <3>2, <3>3, HelperMoves
  <2>. QED
    BY <1>3, <2>1, <2>2 DEF Reserve
<1>4. CASE Launch(n, t)
  <2>0. UNCHANGED <<cluster, posts>>
    BY <1>4 DEF Launch, history
  <2>1. CASE UNCHANGED vars
    BY <2>0, <2>1, StillRemains DEF vars
  <2>2. CASE BeginLaunch(t)
    <3>. DEFINE next == [helper[t] EXCEPT !.phase = "provisioning",
                                          !.launched = TRUE]
    <3>1. /\ helper' = [helper EXCEPT ![t] = next] /\ UNCHANGED lease
          /\ lease[t].phase # "closed"
      BY <1>0, <2>2 DEF BeginLaunch, Settling, Tokens, Typed, Helpers
    <3>2. next.phase = "provisioning" /\ next.stop = helper[t].stop
      BY <1>0 DEF Helpers
    <3>3. next.stop # None => HasExited(t)
      BY <3>2 DEF Remains, Accounted
    <3>. HIDE DEF next
    <3>. QED
      BY <2>0, <3>1, <3>2, <3>3, HelperMoves
  <2>. QED
    BY <1>4, <2>1, <2>2 DEF Launch
<1>5. CASE Intent(n, t)
  <2>0. UNCHANGED <<cluster, posts>>
    BY <1>5 DEF Intent, history
  <2>1. CASE UNCHANGED vars
    BY <2>0, <2>1, StillRemains DEF vars
  <2>2. ASSUME NEW pin \in Pin, ReserveWrite(t, pin)
        PROVE  Remains'
    <3>. DEFINE next == [helper[t] EXCEPT !.write = pin]
    <3>1. /\ helper' = [helper EXCEPT ![t] = next] /\ UNCHANGED lease
          /\ lease[t].phase # "closed" /\ helper[t].phase = "ready"
          /\ helper[t].stop = None
      BY <1>0, <2>2 DEF ReserveWrite, Settling, Tokens, Typed, Helpers
    <3>2. next.phase = "ready" /\ next.stop = None
      BY <1>0, <3>1 DEF Helpers
    <3>. HIDE DEF next
    <3>. QED
      BY <2>0, <3>1, <3>2, HelperMoves
  <2>. QED
    BY <1>5, <2>1, <2>2 DEF Intent
<1>6. CASE Create(n, t)
  <2>0. MayPost(n, t) /\ posts[t] = 0 /\ helper[t].launched
    BY <1>6 DEF Create, MayPost, Tokens, SinglePost
  <2>1. /\ posts[t] = 0 /\ helper[t].launched
        /\ posts' = [posts EXCEPT ![t] = 1]
        /\ UNCHANGED <<lease, helper, helperRuns>>
    BY <1>6, <2>0 DEF Create, vars
  <2>2. Nothing(t) /\ t \notin inFlight
    BY <2>1 DEF Remains, Accounted
  <2>3. helper[t].phase \notin {"none", "closed"}
    BY <2>1, <2>2 DEF Remains, Accounted, Nothing, HasExited
  <2>4. posts'[t] = 1 /\ \A u \in Task \ {t} : posts'[u] = posts[u]
    BY <2>1 DEF Tokens, Typed
  <2>5. CASE /\ helperPod' = [helperPod EXCEPT ![t] = "present"]
             /\ UNCHANGED inFlight
    <3>1. Cluster'
      BY <2>1, <2>5 DEF Remains, Cluster
    <3>2. ASSUME NEW u \in Task PROVE Accounted(u)'
      BY <2>1, <2>2, <2>3, <2>4, <2>5
      DEF Remains, Cluster, Accounted, Nothing, HasExited
    <3>. QED
      BY <3>1, <3>2 DEF Remains
  <2>6. CASE inFlight' = inFlight \cup {t} /\ UNCHANGED helperPod
    <3>1. Cluster'
      BY <2>1, <2>6 DEF Remains, Cluster
    <3>2. ASSUME NEW u \in Task PROVE Accounted(u)'
      BY <2>1, <2>2, <2>3, <2>4, <2>6
      DEF Remains, Cluster, Accounted, Nothing, HasExited
    <3>. QED
      BY <3>1, <3>2 DEF Remains
  <2>. QED
    BY <1>6, <2>5, <2>6 DEF Create
<1>7. CASE Acknowledge(n, t)
  <2>1. UNCHANGED <<helper, cluster, posts>>
    BY <1>7 DEF Acknowledge, Commits, RecordRecovery, vars, history
  <2>2. \A u \in Task : lease'[u].phase = lease[u].phase
    <3>1. CASE UNCHANGED vars
      BY <3>1 DEF vars
    <3>2. ASSUME NEW r, RecordRecovery(t, r)
          PROVE  \A u \in Task : lease'[u].phase = lease[u].phase
      BY <3>2 DEF RecordRecovery
    <3>. QED
      BY <1>7, <3>1, <3>2 DEF Acknowledge
  <2>. QED
    BY <2>1, <2>2 DEF Remains, Cluster, Accounted, Nothing, HasExited, cluster
<1>8. CASE \/ Adopt(n, t) \/ NamesContainer(n, t) \/ Ready(n, t)
           \/ Recovered(n, t)
  <2>1. PICK u : /\ Update(t, u) /\ u.stop = None
                 /\ u.phase \in {"provisioning", "ready", "closing"}
    <3>1. /\ [Change EXCEPT !.pod = Helper.pod].stop = None
          /\ [Change EXCEPT !.pod = Helper.pod].phase = "provisioning"
          /\ [Change EXCEPT !.container = Helper.container].stop = None
          /\ [Change EXCEPT !.container = Helper.container].phase
                = "provisioning"
          /\ [Change EXCEPT !.phase = "ready",
                            !.binding = Helper.binding].stop = None
          /\ [Change EXCEPT !.phase = "ready",
                            !.binding = Helper.binding].phase = "ready"
          /\ [Change EXCEPT !.phase = "closing"].stop = None
          /\ [Change EXCEPT !.phase = "closing"].phase = "closing"
      BY DEF Change
    <3>. QED
      BY <1>8, <3>1, Zenon DEF Adopt, NamesContainer, Ready, Recovered
  <2>2. UNCHANGED <<cluster, posts>>
    BY <1>8 DEF Adopt, NamesContainer, Ready, Recovered, Commits, history
  <2>. QED
    BY <2>1, <2>2, UpdateRemains
<1>9. CASE Capture(n, t)
  <2>1. UNCHANGED <<cluster, posts>>
    BY <1>9 DEF Capture, Commits, history
  <2>2. CASE UNCHANGED vars
    BY <2>1, <2>2, StillRemains DEF vars
  <2>3. ASSUME NEW u, Update(t, u), u.phase = "closing", StopSeen(t)
        PROVE  Remains'
    BY <2>1, <2>3, UpdateRemains DEF StopSeen, HasExited
  <2>. QED
    BY <1>9, <2>2, <2>3 DEF Capture, Change
<1>10. CASE Delete(n, t)
  <2>1. /\ UNCHANGED <<lease, helper, helperRuns, inFlight, posts>>
        /\ helperPod' \in [Task -> {"absent", "present", "deleting"}]
        /\ \A u \in Task : helperPod[u] = "absent" => helperPod'[u] = "absent"
    BY <1>10 DEF Delete, vars, history, Remains, Cluster
  <2>. QED
    BY <2>1 DEF Remains, Cluster, Accounted, Nothing, HasExited
<1>11. CASE Close(n, t)
  <2>. DEFINE u == [Change EXCEPT !.phase = "closed"]
  <2>1. Update(t, u) /\ UNCHANGED <<cluster, posts>> /\ helperPod[t] = "absent"
    BY <1>11 DEF Close, Commits, history
  <2>2. u.phase = "closed" /\ u.stop = None
    BY DEF Change
  <2>. HIDE DEF u
  <2>. QED
    BY <2>1, <2>2, UpdateRemains
<1>. QED
  BY <1>1, <1>2, <1>3, <1>4, <1>5, <1>6, <1>7, <1>8, <1>9, <1>10, <1>11
  DEF RecoverStep

\* The cluster acts on what it was asked, and forgets no stop; a lease closes only
\* once its helper has.
LEMMA OthersRemain ==
    ASSUME Tokens, Evidence, Remains, NEW t \in Task,
           ClusterStep(t) \/ SupervisorStep(t)
    PROVE  Remains'
<1>1. CASE PodLands(t)
  <2>1. t \in inFlight /\ Nothing(t) /\ posts[t] = 1
    <3>1. t \in inFlight /\ posts[t] # 0 /\ posts[t] \in Nat /\ posts[t] <= 1
      BY <1>1 DEF PodLands, Remains, Accounted, Tokens, Typed, SinglePost
    <3>. QED
      BY <3>1 DEF Remains, Accounted
  <2>2. helper[t].phase # "closed"
    BY <2>1 DEF Tokens, SinglePost, Remains, Accounted, Nothing, HasExited
  <2>3. /\ helperPod' = [helperPod EXCEPT ![t] = "present"]
        /\ inFlight' = inFlight \ {t}
        /\ UNCHANGED <<lease, helper, helperRuns, posts>>
    BY <1>1 DEF PodLands, vars, history
  <2>4. Cluster'
    BY <2>3 DEF Remains, Cluster
  <2>5. ASSUME NEW u \in Task PROVE Accounted(u)'
    BY <2>1, <2>2, <2>3 DEF Remains, Cluster, Accounted, Nothing, HasExited
  <2>. QED
    BY <2>4, <2>5 DEF Remains
<1>2. CASE HelperStarts(t) \/ HelperExits(t) \/ RuntimeForgets(t)
  <2>1. /\ UNCHANGED <<lease, helper, helperPod, inFlight, posts>>
        /\ helperRuns' \in [Task -> {"none", "running", "exited", "forgotten"}]
        /\ \A u \in Task \ {t} : helperRuns'[u] = helperRuns[u]
    BY <1>2 DEF HelperStarts, HelperExits, RuntimeForgets, vars, history,
                Remains, Cluster
  <2>2. /\ HasExited(t) => HasExited(t)'
        /\ ~Nothing(t)
    BY <1>2 DEF HelperStarts, HelperExits, RuntimeForgets, Remains, Cluster,
                Nothing, HasExited
  <2>. QED
    BY <2>1, <2>2 DEF Remains, Cluster, Accounted, Nothing, HasExited
<1>3. CASE PodGoes(t)
  <2>1. /\ UNCHANGED <<lease, helper, helperRuns, inFlight, posts>>
        /\ helperPod' = [helperPod EXCEPT ![t] = "absent"]
    BY <1>3 DEF PodGoes, vars, history
  <2>. QED
    BY <2>1 DEF Remains, Cluster, Accounted, Nothing, HasExited
<1>4. CASE Retires(t)
  BY <1>4, StillRemains DEF Retires, vars, history
<1>5. CASE SupervisorStep(t)
  <2>1. UNCHANGED <<helper, cluster, posts>>
    BY <1>5 DEF SupervisorStep, AdvanceComputer, ReleaseTask, recoveryVars,
                history
  <2>2. ASSUME NEW u \in Task, lease'[u].phase = "closed"
        PROVE  lease[u].phase = "closed" \/ helper[u].phase \in {"none", "closed"}
    <3>1. CASE UNCHANGED lease
      BY <2>2, <3>1
    <3>2. ASSUME NEW next, lease' = [lease EXCEPT ![t] = next],
                 Closable(next, helper[t])
          PROVE  lease[u].phase = "closed" \/ helper[u].phase \in {"none", "closed"}
      BY <2>2, <3>2 DEF Closable, Closed, HelperClosed, Evidence, Places
    <3>. QED
      BY <1>5, <3>1, <3>2 DEF SupervisorStep, AdvanceComputer, ReleaseTask
  <2>. QED
    BY <2>1, <2>2 DEF Remains, Cluster, Accounted, Nothing, HasExited, cluster
<1>. QED
  BY <1>1, <1>2, <1>3, <1>4, <1>5 DEF ClusterStep

LEMMA RemainsInit == RecoveryInit => Remains
  BY DEF RecoveryInit, NoRecovery, NoHelper, Stopped, Remains, Cluster,
         Accounted, Nothing, HasExited

\* The helper's last steps (recovery-supervisor.js:148-168) and
\* isBrowserLeaseClosed: wherever the runs of a lease were given up, and whatever
\* the cluster did with their requests, a helper or a lease that is closed leaves no Pod, no request
\* in flight and no running container behind.
THEOREM QuietOnceClosed == RecoverySpec => []ClosedIsQuiet
<1>1. /\ Tokens /\ Evidence /\ Remains
      /\ [RecoveryNext]_<<vars, recoveryVars>>
      => Remains'
  <2>. SUFFICES ASSUME Tokens, Evidence, Remains,
                       [RecoveryNext]_<<vars, recoveryVars>>
                PROVE  Remains'
    OBVIOUS
  <2>1. CASE RecoveryNext
    BY <2>1, RunRemains, OthersRemain DEF RecoveryNext
  <2>2. CASE UNCHANGED <<vars, recoveryVars>>
    BY <2>2, StillRemains DEF vars, recoveryVars, history
  <2>. QED
    BY <2>1, <2>2
<1>. QED
  BY TokensHeld, EvidenceHeld, RemainsInit, <1>1, RemainsQuiet, PTL
  DEF RecoverySpec
=============================================================================
