-------------------------- MODULE FlashVesselProofs --------------------------
(***************************************************************************)
(* Theorems about FlashVessel: its type invariant, that the page never     *)
(* lets go of a living worker, that a page which shows a session has one,  *)
(* and that a session which has caught up shows as paused exactly while    *)
(* the document is hidden.  The last needs an invariant about everything   *)
(* that is on its way between the page and its worker (VesselInv).         *)
(***************************************************************************)
EXTENDS FlashVessel, TLAPS, SequenceTheorems

LifecycleMessages == {"SNAPSHOT", "LIFECYCLE"}
VisibilityMessages == {"JOIN", "VISIBILITY"}

\* A worker that has joined has a lifecycle, and only one that has joined
\* collects a snapshot; of one that is not started there is nothing yet.
VesselsOK ==
  \A s \in Sessions :
     /\ vessels[s].collecting => vessels[s].joined
     /\ vessels[s].st = "running" /\ vessels[s].joined => vessels[s].lifecycle \in Lifecycle
     /\ vessels[s].st = "absent" =>
          /\ s # worker /\ ~vessels[s].joined
          /\ toWorker[s] = <<>> /\ toPage[s] = <<>>

\* No message of the sequence q from its i-th on has a type of types.
NoneFrom(q, i, types) == \A j \in 1..Len(q) : j >= i => q[j].type \notin types

\* The queue q to the running worker v ends with what the document is now:
\* JOIN comes first, and the last news of the visibility in q is true; a
\* worker that has no such news before it has heard them.
WorkerWillKnow(v, q, now) ==
  /\ v.joined => NoneFrom(q, 1, {"JOIN"})
  /\ ~v.joined => q # <<>> /\ q[1].type = "JOIN"
  /\ NoneFrom(q, 2, {"JOIN"})
  /\ \A i \in 1..Len(q) :
       q[i].type \in VisibilityMessages /\ NoneFrom(q, i + 1, VisibilityMessages)
         => q[i].visibility = now
  /\ NoneFrom(q, 1, VisibilityMessages) => v.lifecycle = LifecycleOf(now)

\* The queue q from the running worker v to the page ends with the lifecycle of
\* v, which the page shows already if q says nothing of it.
PageWillKnow(v, q, shows) ==
  /\ ~v.joined => NoneFrom(q, 1, LifecycleMessages) /\ shows \notin Lifecycle
  /\ \A i \in 1..Len(q) :
       q[i].type \in LifecycleMessages /\ NoneFrom(q, i + 1, LifecycleMessages)
         => q[i].lifecycle = v.lifecycle
  /\ NoneFrom(q, 1, LifecycleMessages) /\ shows \in Lifecycle => shows = v.lifecycle

\* A worker the page still has and that does not run has sent word of it.
LastWord(v, q) ==
  /\ v.st \in {"closed", "broken"}
  /\ q # <<>> /\ q[Len(q)].type \in {"STOPPED", "error_event"}

WorkerInv ==
  worker # None =>
    IF vessels[worker].st = "running"
    THEN /\ WorkerWillKnow(vessels[worker], toWorker[worker], visible)
         /\ PageWillKnow(vessels[worker], toPage[worker], shown)
    ELSE LastWord(vessels[worker], toPage[worker])

VesselInv == VesselsOK /\ NoOrphans /\ WorkerInv

-----------------------------------------------------------------------------
(* Lemmas on sequences of messages.                                        *)

\* A message appended is the last; those before it stay where they are.
LEMMA Appended ==
  ASSUME NEW S, NEW q \in Seq(S), NEW m \in S
  PROVE  /\ Append(q, m) \in Seq(S) /\ Len(Append(q, m)) = Len(q) + 1 /\ Len(q) \in Nat
         /\ \A i \in 1..Len(q) : Append(q, m)[i] = q[i]
         /\ Append(q, m)[Len(q) + 1] = m
  OBVIOUS

\* Taking the first message moves every other one place forward.
LEMMA Taken ==
  ASSUME NEW S, NEW q \in Seq(S), q # <<>>
  PROVE  /\ Tail(q) \in Seq(S) /\ Len(Tail(q)) = Len(q) - 1 /\ Len(q) \in Nat \ {0}
         /\ \A i \in 1..Len(Tail(q)) : Tail(q)[i] = q[i + 1]
         /\ Head(q) = q[1] /\ Head(q) \in S
  OBVIOUS

\* NoneFrom of a sequence with one more message, and with one less.
LEMMA NoneFromAppended ==
  ASSUME NEW S, NEW q \in Seq(S), NEW m \in S, NEW T, NEW i \in Nat \ {0}
  PROVE  NoneFrom(Append(q, m), i, T)
           <=> NoneFrom(q, i, T) /\ (i <= Len(q) + 1 => m.type \notin T)
  <1> DEFINE r == Append(q, m)
  <1>1. /\ Len(r) = Len(q) + 1 /\ Len(q) \in Nat /\ r[Len(q) + 1] = m
        /\ \A j \in 1..Len(q) : r[j] = q[j]
    BY Appended
  <1> HIDE DEF r
  <1>2. NoneFrom(r, i, T) <=> NoneFrom(q, i, T) /\ (i <= Len(q) + 1 => m.type \notin T)
    BY <1>1 DEF NoneFrom
  <1> QED BY <1>2 DEF r

LEMMA NoneFromTaken ==
  ASSUME NEW S, NEW q \in Seq(S), q # <<>>, NEW T, NEW i \in Nat \ {0}
  PROVE  NoneFrom(Tail(q), i, T) <=> NoneFrom(q, i + 1, T)
  <1> DEFINE r == Tail(q)
  <1>1. /\ Len(r) = Len(q) - 1 /\ Len(q) \in Nat \ {0}
        /\ \A j \in 1..Len(r) : r[j] = q[j + 1]
    BY Taken
  <1> HIDE DEF r
  <1>2. ASSUME NoneFrom(r, i, T) PROVE NoneFrom(q, i + 1, T)
    <2> SUFFICES ASSUME NEW j \in 1..Len(q), j >= i + 1 PROVE q[j].type \notin T
      BY DEF NoneFrom
    <2>1. j - 1 \in 1..Len(r) /\ j - 1 >= i /\ r[j - 1] = q[(j - 1) + 1] /\ (j - 1) + 1 = j
      BY <1>1
    <2> QED BY <2>1, <1>2 DEF NoneFrom
  <1>3. ASSUME NoneFrom(q, i + 1, T) PROVE NoneFrom(r, i, T)
    BY <1>1, <1>3 DEF NoneFrom
  <1> QED BY <1>2, <1>3 DEF r

\* Dropping the first message when it is of none of the types.
LEMMA NoneFromFirst ==
  ASSUME NEW S, NEW q \in Seq(S), NEW T, NEW i \in Nat \ {0}, i > Len(q) \/ q[i].type \notin T
  PROVE  NoneFrom(q, i, T) <=> NoneFrom(q, i + 1, T)
  BY DEF NoneFrom

-----------------------------------------------------------------------------
(* Type correctness.                                                       *)

\* The initial states satisfy the whole invariant.
LEMMA InitInv == Init => TypeOK /\ VesselInv /\ ShownSessionExists
  BY SessionsAssumption DEF Init, TypeOK, VesselInv, VesselsOK, NoOrphans, WorkerInv,
     ShownSessionExists, JoinEnabled, Alive, Vessel, WorkerState, Lifecycle, Visibility, Shown,
     Sessions, None

\* A field of a worker's state that is set to a value of its type.
LEMMA VesselSet ==
  ASSUME NEW w \in Vessel
  PROVE  /\ \A x \in WorkerState : [w EXCEPT !.st = x] \in Vessel
         /\ \A x \in BOOLEAN : [w EXCEPT !.collecting = x] \in Vessel
         /\ \A x \in BOOLEAN : [w EXCEPT !.joined = x] \in Vessel
         /\ \A x \in Lifecycle \cup {"idle", "stopped"} : [w EXCEPT !.lifecycle = x] \in Vessel
  BY DEF Vessel

\* One worker's state is set.
LEMMA VesselsSet ==
  ASSUME NEW vs \in [Sessions -> Vessel], NEW s \in Sessions
  PROVE  /\ \A x \in WorkerState : [vs EXCEPT ![s].st = x] \in [Sessions -> Vessel]
         /\ \A x \in BOOLEAN : [vs EXCEPT ![s].collecting = x] \in [Sessions -> Vessel]
  BY VesselSet

\* What disposing of a worker keeps well-typed.
LEMMA DisposeTypeOK ==
  ASSUME TypeOK, NEW s \in Sessions, NEW set \in SUBSET timers, Dispose(s, set)
  PROVE  /\ worker' \in Sessions \cup {None} /\ stopFallback' \in 0..stops
         /\ timers' \subseteq timers
         /\ vessels' \in [Sessions -> Vessel] /\ toWorker' \in [Sessions -> Seq(PageMessage)]
  <1>1. worker' \in Sessions \cup {None} /\ stopFallback' \in 0..stops /\ timers' \subseteq timers
    BY DEF TypeOK, Dispose, None
  <1>2. vessels' \in [Sessions -> Vessel]
    BY VesselsSet DEF TypeOK, Dispose, WorkerState
  <1>3. toWorker' \in [Sessions -> Seq(PageMessage)]
    <2>1. toWorker \in [Sessions -> Seq(PageMessage)] /\ toWorker' = [toWorker EXCEPT ![s] = <<>>]
      BY DEF TypeOK, Dispose
    <2>2. <<>> \in Seq(PageMessage)
      OBVIOUS
    <2> QED BY <2>1, <2>2
  <1> QED BY <1>1, <1>2, <1>3

\* A message to a worker keeps the queues well-typed.
LEMMA PostToWorkerTypeOK ==
  ASSUME TypeOK, NEW s \in Sessions, NEW m \in PageMessage, PostToWorker(s, m)
  PROVE  toWorker' \in [Sessions -> Seq(PageMessage)]
  BY DEF TypeOK, PostToWorker

LEMMA PostToPageTypeOK ==
  ASSUME TypeOK, NEW s \in Sessions, NEW m \in WorkerMessage, PostToPage(s, m)
  PROVE  toPage' \in [Sessions -> Seq(WorkerMessage)]
  BY DEF TypeOK, PostToPage

\* The messages each side sends.
LEMMA MessageTypes ==
  /\ \A t \in {"JOIN", "VISIBILITY"}, v \in Visibility : [type |-> t, visibility |-> v] \in PageMessage
  /\ [type |-> "STOP"] \in PageMessage
  /\ \A t \in {"SNAPSHOT", "LIFECYCLE"}, l \in Lifecycle : [type |-> t, lifecycle |-> l] \in WorkerMessage
  /\ \A t \in {"STOPPED", "ERROR", "error_event"} : [type |-> t] \in WorkerMessage
  /\ \A m \in PageMessage : /\ m.type \in {"JOIN", "VISIBILITY", "STOP"}
                            /\ m.type # "STOP" => m.visibility \in Visibility
  /\ \A m \in WorkerMessage :
        /\ m.type \in {"SNAPSHOT", "LIFECYCLE", "STOPPED", "ERROR", "error_event"}
        /\ m.type \in {"SNAPSHOT", "LIFECYCLE"} => m.lifecycle \in Lifecycle
  /\ \A v : LifecycleOf(v) \in Lifecycle
  BY DEF PageMessage, WorkerMessage, LifecycleOf, Lifecycle

\* Every step keeps every variable in its type.  A worker that answers has
\* joined, so that the lifecycle it sends is a lifecycle (VesselsOK).
LEMMA TypeOKStep ==
  ASSUME TypeOK, VesselsOK, [Next]_vars
  PROVE  TypeOK'
  <1> USE SessionsAssumption DEF Sessions, None
  <1>1. ASSUME NEW s \in Sessions, Join(s) PROVE TypeOK'
    <2>1. [type |-> "JOIN", visibility |-> visible] \in PageMessage
      BY MessageTypes DEF TypeOK
    <2>2. vessels' \in [Sessions -> Vessel]
      BY <1>1, VesselsSet DEF Join, TypeOK, WorkerState
    <2>3. toWorker' \in [Sessions -> Seq(PageMessage)]
      <3>1. \A m \in PageMessage : <<m>> \in Seq(PageMessage)
        OBVIOUS
      <3> QED BY <1>1, <2>1, <3>1 DEF Join, TypeOK
    <2> QED BY <1>1, <2>2, <2>3 DEF Join, TypeOK, Shown
  <1>2. ASSUME NEW s \in Sessions, PageReceives(s) PROVE TypeOK'
    <2>1. toPage' \in [Sessions -> Seq(WorkerMessage)] /\ Head(toPage[s]) \in WorkerMessage
      BY <1>2 DEF PageReceives, TypeOK
    <2>2. CASE Dispose(s, timers) /\ shown' \in Shown
      BY <1>2, <2>1, <2>2, DisposeTypeOK DEF PageReceives, TypeOK
    <2>3. CASE UNCHANGED <<worker, stopFallback, timers, vessels, toWorker>> /\ shown' \in Shown
      BY <1>2, <2>1, <2>3 DEF PageReceives, TypeOK
    <2> QED BY <1>2, <2>1, <2>2, <2>3, MessageTypes DEF PageReceives, Shown, Lifecycle, TypeOK
  <1>3. ASSUME NEW s \in Sessions, WorkerReceives(s) PROVE TypeOK'
    <2>1. Head(toWorker[s]) \in PageMessage /\ Tail(toWorker[s]) \in Seq(PageMessage)
      BY <1>3 DEF WorkerReceives, TypeOK
    <2>2. toWorker' \in [Sessions -> Seq(PageMessage)]
      <3>1. <<>> \in Seq(PageMessage)
        OBVIOUS
      <3>2. \E q \in Seq(PageMessage) : toWorker' = [toWorker EXCEPT ![s] = q]
        BY <1>3, <2>1, <3>1 DEF WorkerReceives
      <3> QED BY <3>2 DEF TypeOK
    <2>3. vessels' \in [Sessions -> Vessel]
      <3>1. vessels[s] \in Vessel
        BY DEF TypeOK
      <3>2. \A v : LifecycleOf(v) \in Lifecycle
        BY MessageTypes
      <3>3. \E v \in Vessel : vessels' = [vessels EXCEPT ![s] = v]
        <4>1. \A w \in Vessel, l \in Lifecycle \cup {"stopped"} :
                 /\ [w EXCEPT !.joined = TRUE, !.collecting = TRUE, !.lifecycle = l] \in Vessel
                 /\ [w EXCEPT !.lifecycle = l] \in Vessel
                 /\ [w EXCEPT !.st = "closed", !.lifecycle = l] \in Vessel
          BY DEF Vessel, WorkerState
        <4>2. \/ \E v : vessels' = [vessels EXCEPT ![s] = Joined(@, v)]
              \/ \E v : vessels' = [vessels EXCEPT ![s].lifecycle = LifecycleOf(v)]
              \/ vessels' = [vessels EXCEPT ![s].st = "closed", ![s].lifecycle = "stopped"]
          BY <1>3 DEF WorkerReceives
        <4>3. ASSUME NEW v, vessels' = [vessels EXCEPT ![s] = Joined(@, v)] PROVE <3>3
          BY <3>1, <3>2, <4>1, <4>3 DEF Joined, TypeOK
        <4>4. ASSUME NEW v, vessels' = [vessels EXCEPT ![s].lifecycle = LifecycleOf(v)] PROVE <3>3
          BY <3>1, <3>2, <4>1, <4>4 DEF TypeOK
        <4>5. ASSUME vessels' = [vessels EXCEPT ![s].st = "closed", ![s].lifecycle = "stopped"]
              PROVE  <3>3
          BY <3>1, <4>1, <4>5 DEF TypeOK
        <4> QED BY <4>2, <4>3, <4>4, <4>5
      <3> QED BY <3>3 DEF TypeOK
    <2>4. toPage' \in [Sessions -> Seq(WorkerMessage)]
      BY <1>3, MessageTypes, PostToPageTypeOK DEF WorkerReceives, TypeOK
    <2> QED BY <1>3, <2>2, <2>3, <2>4 DEF WorkerReceives, TypeOK, page
  <1>4. ASSUME NEW s \in Sessions, SnapshotSettles(s) PROVE TypeOK'
    <2>1. vessels[s].lifecycle \in Lifecycle
      BY <1>4 DEF SnapshotSettles, VesselsOK
    <2>2. toPage' \in [Sessions -> Seq(WorkerMessage)]
      BY <1>4, <2>1, MessageTypes, PostToPageTypeOK DEF SnapshotSettles
    <2>3. vessels' \in [Sessions -> Vessel]
      BY <1>4, VesselsSet DEF SnapshotSettles, TypeOK
    <2> QED BY <1>4, <2>2, <2>3 DEF SnapshotSettles, TypeOK, page
  <1>5. ASSUME NEW s \in Sessions, LoadFails(s) PROVE TypeOK'
    <2>1. toPage' \in [Sessions -> Seq(WorkerMessage)]
      BY <1>5, MessageTypes, PostToPageTypeOK DEF LoadFails
    <2>2. vessels' \in [Sessions -> Vessel]
      BY <1>5, VesselsSet DEF LoadFails, TypeOK, WorkerState
    <2> QED BY <1>5, <2>1, <2>2 DEF LoadFails, TypeOK, page
  <1>6. ASSUME JoinFails PROVE TypeOK'
    BY <1>6 DEF JoinFails, TypeOK, Shown
  <1>7. ASSUME Stop PROVE TypeOK'
    <2>1. worker \in Sessions /\ toWorker' \in [Sessions -> Seq(PageMessage)]
      BY <1>7, MessageTypes, PostToWorkerTypeOK DEF Stop, TypeOK
    <2>2. stops' \in Nat /\ stopFallback' \in 0..stops'
      BY <1>7 DEF Stop, TypeOK
    <2>3. timers' \subseteq [id : 1..stops', session : Sessions]
      BY <1>7, <2>1 DEF Stop, TypeOK
    <2> QED BY <1>7, <2>1, <2>2, <2>3 DEF Stop, TypeOK, Shown
  <1>8. ASSUME PageHide PROVE TypeOK'
    BY <1>8, DisposeTypeOK DEF PageHide, TypeOK, Shown
  <1>9. ASSUME ChangeVisibility PROVE TypeOK'
    <2>1. visible' \in Visibility
      BY <1>9 DEF ChangeVisibility, Visibility
    <2>2. toWorker' \in [Sessions -> Seq(PageMessage)]
      BY <1>9, <2>1, MessageTypes, PostToWorkerTypeOK DEF ChangeVisibility, TypeOK
    <2> QED BY <1>9, <2>1, <2>2 DEF ChangeVisibility, TypeOK, page
  <1>10. ASSUME NEW t \in timers, TimerFires(t) PROVE TypeOK'
    <2>1. t.session \in Sessions
      BY DEF TypeOK
    <2>2. timers \ {t} \in SUBSET timers
      OBVIOUS
    <2>3. /\ worker' \in Sessions \cup {None} /\ stopFallback' \in 0..stops
          /\ timers' \subseteq timers
          /\ vessels' \in [Sessions -> Vessel] /\ toWorker' \in [Sessions -> Seq(PageMessage)]
      BY <1>10, <2>1, <2>2, DisposeTypeOK DEF TimerFires
    <2> QED BY <1>10, <2>3 DEF TimerFires, TypeOK, Shown
  <1>11. ASSUME UNCHANGED vars PROVE TypeOK'
    BY <1>11 DEF vars, page, TypeOK
  <1> QED BY <1>1, <1>2, <1>3, <1>4, <1>5, <1>6, <1>7, <1>8, <1>9, <1>10, <1>11 DEF Next

-----------------------------------------------------------------------------
(* No orphans, and a session that is shown exists.                         *)

\* Only disposing of its worker leaves the page without one, and the worker
\* is then terminated.
LEMMA NoOrphansStep ==
  ASSUME TypeOK, NoOrphans, [Next]_vars
  PROVE  NoOrphans'
  <1> USE DEF NoOrphans, Alive
  <1> USE SessionsAssumption DEF Sessions, None
  <1>1. ASSUME NEW s \in Sessions, NEW set, Dispose(s, set) PROVE NoOrphans'
    BY <1>1 DEF Dispose, TypeOK, Vessel
  <1>2. ASSUME NEW s \in Sessions, Join(s) PROVE NoOrphans'
    BY <1>2 DEF Join, TypeOK, Vessel
  <1>3. ASSUME NEW s \in Sessions, PageReceives(s) PROVE NoOrphans'
    BY <1>1, <1>3 DEF PageReceives
  <1>4. ASSUME NEW s \in Sessions, WorkerReceives(s) \/ SnapshotSettles(s) \/ LoadFails(s)
        PROVE  NoOrphans'
    <2>1. worker' = worker
      BY <1>4 DEF WorkerReceives, SnapshotSettles, LoadFails, page
    <2>2. \A r \in Sessions : r # s => vessels'[r].st = vessels[r].st
      BY <1>4 DEF WorkerReceives, SnapshotSettles, LoadFails, TypeOK
    <2>3. vessels[s].st = "running"
      BY <1>4 DEF WorkerReceives, SnapshotSettles, LoadFails
    <2> QED BY <2>1, <2>2, <2>3
  <1>5. ASSUME NEW t \in timers, TimerFires(t) PROVE NoOrphans'
    BY <1>1, <1>5 DEF TimerFires, TypeOK
  <1>6. ASSUME PageHide PROVE NoOrphans'
    BY <1>1, <1>6 DEF PageHide, TypeOK
  <1>7. CASE JoinFails \/ Stop \/ ChangeVisibility \/ UNCHANGED vars
    BY <1>7 DEF JoinFails, Stop, ChangeVisibility, vars, page
  <1> QED BY <1>2, <1>3, <1>4, <1>5, <1>6, <1>7 DEF Next

\* A handler that disposes of a worker shows stopped or error; one that shows
\* a session acts on a worker the page has.
LEMMA ShownSessionStep ==
  ASSUME TypeOK, ShownSessionExists, [Next]_vars
  PROVE  ShownSessionExists'
  <1> USE SessionsAssumption DEF Sessions, None, ShownSessionExists, JoinEnabled
  <1>1. ASSUME NEW s \in Sessions, Join(s) PROVE ShownSessionExists'
    BY <1>1 DEF Join
  <1>2. ASSUME NEW s \in Sessions, PageReceives(s) PROVE ShownSessionExists'
    BY <1>2 DEF PageReceives, Ignored
  <1>3. ASSUME NEW s \in Sessions, WorkerReceives(s) \/ SnapshotSettles(s) \/ LoadFails(s)
        PROVE  ShownSessionExists'
    BY <1>3 DEF WorkerReceives, SnapshotSettles, LoadFails, page
  <1>4. ASSUME NEW t \in timers, TimerFires(t) PROVE ShownSessionExists'
    BY <1>4 DEF TimerFires
  <1>5. CASE JoinFails \/ Stop \/ PageHide \/ ChangeVisibility \/ UNCHANGED vars
    BY <1>5 DEF JoinFails, Stop, PageHide, ChangeVisibility, vars, page
  <1> QED BY <1>1, <1>2, <1>3, <1>4, <1>5 DEF Next

-----------------------------------------------------------------------------
(* What is on its way.                                                     *)

\* The part of the invariant about the vessels one by one.
LEMMA VesselsOKStep ==
  ASSUME TypeOK, VesselsOK, [Next]_vars
  PROVE  VesselsOK'
  <1> USE SessionsAssumption DEF Sessions, None
  <1>1. ASSUME NEW s \in Sessions, NEW set, Dispose(s, set), shown' \notin Lifecycle,
               \A r \in Sessions : toPage[r] = <<>> => toPage'[r] = <<>>
        PROVE  VesselsOK'
    BY <1>1 DEF Dispose, TypeOK, Vessel, VesselsOK
  <1>2. ASSUME NEW s \in Sessions, Join(s) PROVE VesselsOK'
    BY <1>2 DEF Join, TypeOK, Vessel, VesselsOK
  <1>3. ASSUME NEW s \in Sessions, PageReceives(s) PROVE VesselsOK'
    <2>1. \A r \in Sessions : toPage[r] = <<>> => toPage'[r] = <<>>
      BY <1>3 DEF PageReceives, TypeOK
    <2>2. CASE Dispose(s, timers) /\ shown' \notin Lifecycle
      BY <1>1, <2>1, <2>2
    <2>3. CASE UNCHANGED <<worker, vessels, toWorker>>
      BY <2>1, <2>3 DEF VesselsOK
    <2> QED BY <1>3, <2>2, <2>3 DEF PageReceives, Lifecycle
  <1>4. ASSUME NEW s \in Sessions, WorkerReceives(s) \/ SnapshotSettles(s) \/ LoadFails(s)
        PROVE  VesselsOK'
    <2>1. worker' = worker /\ vessels[s].st = "running"
      BY <1>4 DEF WorkerReceives, SnapshotSettles, LoadFails, page
    <2>2. \A r \in Sessions : r # s => /\ vessels'[r] = vessels[r] /\ toWorker'[r] = toWorker[r]
                                       /\ toPage'[r] = toPage[r]
      BY <1>4 DEF WorkerReceives, SnapshotSettles, LoadFails, PostToPage, TypeOK
    <2>3. /\ vessels'[s].collecting => vessels'[s].joined
          /\ vessels'[s].st = "running" /\ vessels'[s].joined => vessels'[s].lifecycle \in Lifecycle
          /\ vessels'[s].st # "absent"
      <3>1. CASE WorkerReceives(s)
        <4>1. \/ \E v : vessels'[s] = Joined(vessels[s], v)
              \/ \E v : vessels'[s] = [vessels[s] EXCEPT !.lifecycle = LifecycleOf(v)]
              \/ vessels'[s] = [vessels[s] EXCEPT !.st = "closed", !.lifecycle = "stopped"]
          BY <3>1 DEF WorkerReceives, TypeOK
        <4>2. \A v : LifecycleOf(v) \in Lifecycle
          BY MessageTypes
        <4>3. vessels[s] \in Vessel /\ (vessels[s].collecting => vessels[s].joined)
          BY DEF TypeOK, VesselsOK
        <4>4. \A w \in Vessel, l \in Lifecycle :
                 LET a == [w EXCEPT !.joined = TRUE, !.collecting = TRUE, !.lifecycle = l]
                     b == [w EXCEPT !.lifecycle = l]
                     c == [w EXCEPT !.st = "closed", !.lifecycle = "stopped"]
                 IN  /\ a.joined /\ a.lifecycle = l /\ a.st = w.st
                     /\ b.joined = w.joined /\ b.collecting = w.collecting
                     /\ b.lifecycle = l /\ b.st = w.st
                     /\ c.joined = w.joined /\ c.collecting = w.collecting /\ c.st = "closed"
          BY DEF Vessel
        <4>5. "active" \in Lifecycle
          BY DEF Lifecycle
        <4> HIDE DEF Sessions
        <4>6. ASSUME NEW v, vessels'[s] = Joined(vessels[s], v) PROVE <2>3
          BY <2>1, <4>2, <4>3, <4>4, <4>6 DEF Joined
        <4>7. ASSUME NEW v, vessels'[s] = [vessels[s] EXCEPT !.lifecycle = LifecycleOf(v)]
              PROVE  <2>3
          BY <2>1, <4>2, <4>3, <4>4, <4>7
        <4>8. CASE vessels'[s] = [vessels[s] EXCEPT !.st = "closed", !.lifecycle = "stopped"]
          BY <2>1, <4>3, <4>4, <4>5, <4>8
        <4> QED BY <4>1, <4>6, <4>7, <4>8
      <3>2. CASE SnapshotSettles(s) \/ LoadFails(s)
        <4> DEFINE w == vessels[s]
        <4>1. w \in Vessel /\ (w.collecting => w.joined) /\ w.st = "running"
              /\ (w.joined => w.lifecycle \in Lifecycle)
          BY <2>1 DEF TypeOK, VesselsOK
        <4>2. \/ vessels'[s] = [w EXCEPT !.collecting = FALSE]
              \/ vessels'[s] = [w EXCEPT !.st = "broken"]
          BY <3>2 DEF SnapshotSettles, LoadFails, TypeOK
        <4> HIDE DEF w
        <4>3. LET a == [w EXCEPT !.collecting = FALSE]
                  b == [w EXCEPT !.st = "broken"]
              IN  /\ ~a.collecting /\ a.joined = w.joined
                  /\ a.lifecycle = w.lifecycle /\ a.st = w.st
                  /\ b.collecting = w.collecting /\ b.joined = w.joined
                  /\ b.lifecycle = w.lifecycle /\ b.st = "broken"
          BY <4>1 DEF Vessel
        <4> QED BY <4>1, <4>2, <4>3
      <3> QED BY <1>4, <3>1, <3>2
    <2> QED BY <2>1, <2>2, <2>3 DEF VesselsOK
  <1>5. ASSUME NEW t \in timers, TimerFires(t) PROVE VesselsOK'
    BY <1>1, <1>5 DEF TimerFires, TypeOK, Lifecycle
  <1>6. ASSUME PageHide PROVE VesselsOK'
    BY <1>1, <1>6 DEF PageHide, TypeOK, Lifecycle
  <1>7. CASE Stop \/ ChangeVisibility
    BY <1>7 DEF Stop, ChangeVisibility, PostToWorker, Alive, page, TypeOK, VesselsOK
  <1>8. CASE JoinFails \/ UNCHANGED vars
    BY <1>8 DEF JoinFails, vars, page, VesselsOK
  <1> QED BY <1>2, <1>3, <1>4, <1>5, <1>6, <1>7, <1>8 DEF Next

\* The page's news of the visibility comes last.
LEMMA ToldVisibility ==
  ASSUME NEW q \in Seq(PageMessage), NEW v, NEW old, NEW now \in Visibility,
         WorkerWillKnow(v, q, old)
  PROVE  WorkerWillKnow(v, Append(q, [type |-> "VISIBILITY", visibility |-> now]), now)
  <1> DEFINE m == [type |-> "VISIBILITY", visibility |-> now]
             r == Append(q, m)
  <1>1. m \in PageMessage /\ m.type = "VISIBILITY" /\ m.visibility = now
    BY MessageTypes
  <1>2. /\ Len(r) = Len(q) + 1 /\ Len(q) \in Nat /\ r[Len(q) + 1] = m
        /\ \A j \in 1..Len(q) : r[j] = q[j]
    BY <1>1, Appended
  <1>3. \A i \in Nat \ {0} : NoneFrom(r, i, {"JOIN"}) <=> NoneFrom(q, i, {"JOIN"})
    BY <1>1, NoneFromAppended
  <1>4. \A i \in 1..(Len(q) + 1) : ~NoneFrom(r, i, VisibilityMessages)
    BY <1>1, <1>2, NoneFromAppended DEF VisibilityMessages
  <1> HIDE DEF m, r
  <1>5. q # <<>> => Len(q) # 0 /\ r # <<>> /\ r[1] = q[1]
    BY <1>2
  <1>6. \A i \in 1..Len(r) :
          r[i].type \in VisibilityMessages /\ NoneFrom(r, i + 1, VisibilityMessages)
            => r[i].visibility = now
    <2> SUFFICES ASSUME NEW i \in 1..Len(r), i # Len(q) + 1
                 PROVE  ~NoneFrom(r, i + 1, VisibilityMessages)
      BY <1>1, <1>2
    <2> QED BY <1>2, <1>4
  <1>7. WorkerWillKnow(v, r, now)
    BY <1>2, <1>3, <1>4, <1>5, <1>6 DEF WorkerWillKnow
  <1> QED BY <1>7 DEF r, m

\* STOP says nothing of the visibility.
LEMMA ToldStop ==
  ASSUME NEW q \in Seq(PageMessage), NEW v, NEW now, WorkerWillKnow(v, q, now)
  PROVE  WorkerWillKnow(v, Append(q, [type |-> "STOP"]), now)
  <1> DEFINE m == [type |-> "STOP"]
             r == Append(q, m)
  <1>1. m \in PageMessage /\ m.type = "STOP"
    BY MessageTypes
  <1>2. /\ Len(r) = Len(q) + 1 /\ Len(q) \in Nat /\ r[Len(q) + 1] = m
        /\ \A j \in 1..Len(q) : r[j] = q[j]
    BY <1>1, Appended
  <1>3. /\ \A i \in Nat \ {0} : NoneFrom(r, i, {"JOIN"}) <=> NoneFrom(q, i, {"JOIN"})
        /\ \A i \in Nat \ {0} : NoneFrom(r, i, VisibilityMessages) <=> NoneFrom(q, i, VisibilityMessages)
    BY <1>1, NoneFromAppended DEF VisibilityMessages
  <1> HIDE DEF m, r
  <1>4. q # <<>> => Len(q) # 0 /\ r # <<>> /\ r[1] = q[1]
    BY <1>2
  <1>5. \A i \in 1..Len(r) :
          r[i].type \in VisibilityMessages /\ NoneFrom(r, i + 1, VisibilityMessages)
            => r[i].visibility = now
    BY <1>1, <1>2, <1>3 DEF WorkerWillKnow, VisibilityMessages
  <1>6. WorkerWillKnow(v, r, now)
    BY <1>2, <1>3, <1>4, <1>5 DEF WorkerWillKnow
  <1> QED BY <1>6 DEF r, m

\* A worker that has taken a message about the visibility, and has the lifecycle
\* it tells of.
LEMMA HeardVisibility ==
  ASSUME NEW q \in Seq(PageMessage), q # <<>>, Head(q).type \in VisibilityMessages,
         NEW v, NEW now, WorkerWillKnow(v, q, now),
         NEW w, w.joined, w.lifecycle = LifecycleOf(Head(q).visibility)
  PROVE  WorkerWillKnow(w, Tail(q), now)
  <1> DEFINE r == Tail(q)
  <1>1. /\ Len(r) = Len(q) - 1 /\ Len(q) \in Nat \ {0} /\ Head(q) = q[1]
        /\ \A i \in 1..Len(r) : r[i] = q[i + 1]
    BY Taken
  <1>2. /\ NoneFrom(r, 1, {"JOIN"}) <=> NoneFrom(q, 1 + 1, {"JOIN"})
        /\ NoneFrom(r, 2, {"JOIN"}) <=> NoneFrom(q, 2 + 1, {"JOIN"})
        /\ \A i \in Nat \ {0} :
              NoneFrom(r, i, VisibilityMessages) <=> NoneFrom(q, i + 1, VisibilityMessages)
    BY NoneFromTaken
  <1> HIDE DEF r
  <1>3. NoneFrom(r, 1, {"JOIN"}) /\ NoneFrom(r, 2, {"JOIN"})
    <2>1. NoneFrom(q, 2, {"JOIN"})
      BY DEF WorkerWillKnow
    <2>2. NoneFrom(q, 1 + 1, {"JOIN"}) /\ NoneFrom(q, 2 + 1, {"JOIN"})
      BY <2>1, <1>1 DEF NoneFrom
    <2> QED BY <2>2, <1>2
  <1>4. \A i \in 1..Len(r) :
          r[i].type \in VisibilityMessages /\ NoneFrom(r, i + 1, VisibilityMessages)
            => r[i].visibility = now
    <2> SUFFICES ASSUME NEW i \in 1..Len(r), r[i].type \in VisibilityMessages,
                        NoneFrom(r, i + 1, VisibilityMessages)
                 PROVE  r[i].visibility = now
      OBVIOUS
    <2>1. i + 1 \in Nat \ {0} /\ i + 1 \in 1..Len(q) /\ r[i] = q[i + 1]
      BY <1>1
    <2>2. NoneFrom(q, (i + 1) + 1, VisibilityMessages)
      BY <1>2, <2>1
    <2> QED BY <2>1, <2>2 DEF WorkerWillKnow
  <1>5. NoneFrom(r, 1, VisibilityMessages) => w.lifecycle = LifecycleOf(now)
    <2> SUFFICES ASSUME NoneFrom(r, 1, VisibilityMessages) PROVE q[1].visibility = now
      BY <1>1
    <2>1. NoneFrom(q, 1 + 1, VisibilityMessages)
      BY <1>2
    <2>2. 1 \in 1..Len(q) /\ q[1].type \in VisibilityMessages
      BY <1>1
    <2> QED BY <2>1, <2>2 DEF WorkerWillKnow
  <1>6. WorkerWillKnow(w, r, now)
    BY <1>3, <1>4, <1>5 DEF WorkerWillKnow
  <1> QED BY <1>6 DEF r

\* The worker tells the page of its lifecycle, which the page will show.
LEMMA ToldLifecycle ==
  ASSUME NEW q \in Seq(WorkerMessage), NEW m \in WorkerMessage, m.type \in LifecycleMessages,
         NEW v, v.joined, m.lifecycle = v.lifecycle, NEW shows
  PROVE  PageWillKnow(v, Append(q, m), shows)
  <1> DEFINE r == Append(q, m)
  <1>1. /\ Len(r) = Len(q) + 1 /\ Len(q) \in Nat /\ r[Len(q) + 1] = m
        /\ \A j \in 1..Len(q) : r[j] = q[j]
    BY Appended
  <1>2. \A i \in 1..(Len(q) + 1) : ~NoneFrom(r, i, LifecycleMessages)
    BY <1>1, NoneFromAppended
  <1> HIDE DEF r
  <1>3. \A i \in 1..Len(r) :
          r[i].type \in LifecycleMessages /\ NoneFrom(r, i + 1, LifecycleMessages)
            => r[i].lifecycle = v.lifecycle
    <2> SUFFICES ASSUME NEW i \in 1..Len(r), i # Len(q) + 1
                 PROVE  ~NoneFrom(r, i + 1, LifecycleMessages)
      BY <1>1
    <2> QED BY <1>1, <1>2
  <1>4. PageWillKnow(v, r, shows)
    BY <1>1, <1>2, <1>3 DEF PageWillKnow
  <1> QED BY <1>4 DEF r

\* Any other message of the worker says nothing of it, nor does a step that
\* leaves its lifecycle alone.
LEMMA ToldOther ==
  ASSUME NEW q \in Seq(WorkerMessage), NEW m \in WorkerMessage, m.type \notin LifecycleMessages,
         NEW v, NEW shows, PageWillKnow(v, q, shows),
         NEW w, w.joined = v.joined, w.lifecycle = v.lifecycle
  PROVE  PageWillKnow(w, Append(q, m), shows)
  <1> DEFINE r == Append(q, m)
  <1>1. /\ Len(r) = Len(q) + 1 /\ Len(q) \in Nat /\ r[Len(q) + 1] = m
        /\ \A j \in 1..Len(q) : r[j] = q[j]
    BY Appended
  <1>2. \A i \in Nat \ {0} : NoneFrom(r, i, LifecycleMessages) <=> NoneFrom(q, i, LifecycleMessages)
    BY NoneFromAppended
  <1> HIDE DEF r
  <1>3. \A i \in 1..Len(r) :
          r[i].type \in LifecycleMessages /\ NoneFrom(r, i + 1, LifecycleMessages)
            => r[i].lifecycle = v.lifecycle
    <2> SUFFICES ASSUME NEW i \in 1..Len(r), r[i].type \in LifecycleMessages,
                        NoneFrom(r, i + 1, LifecycleMessages)
                 PROVE  r[i].lifecycle = v.lifecycle
      OBVIOUS
    <2>1. i \in 1..Len(q) /\ r[i] = q[i]
      BY <1>1
    <2>2. NoneFrom(q, i + 1, LifecycleMessages)
      BY <1>2
    <2> QED BY <2>1, <2>2 DEF PageWillKnow
  <1>4. PageWillKnow(w, r, shows)
    BY <1>2, <1>3 DEF PageWillKnow
  <1> QED BY <1>4 DEF r

\* The page takes a message of its worker and shows what it tells of the
\* lifecycle; if it tells of none, the page shows what it did.
LEMMA PageHeard ==
  ASSUME NEW q \in Seq(WorkerMessage), q # <<>>, NEW v, NEW shows, PageWillKnow(v, q, shows),
         NEW next,
         IF Head(q).type \in LifecycleMessages THEN next = Head(q).lifecycle ELSE next = shows
  PROVE  PageWillKnow(v, Tail(q), next)
  <1> DEFINE r == Tail(q)
  <1>1. /\ Len(r) = Len(q) - 1 /\ Len(q) \in Nat \ {0} /\ Head(q) = q[1]
        /\ \A i \in 1..Len(r) : r[i] = q[i + 1]
    BY Taken
  <1>2. \A i \in Nat \ {0} : NoneFrom(r, i, LifecycleMessages) <=> NoneFrom(q, i + 1, LifecycleMessages)
    BY NoneFromTaken
  <1> HIDE DEF r
  <1>3. NoneFrom(q, 1, LifecycleMessages)
          <=> NoneFrom(q, 1 + 1, LifecycleMessages) /\ q[1].type \notin LifecycleMessages
    BY <1>1 DEF NoneFrom
  <1>4. \A i \in 1..Len(r) :
          r[i].type \in LifecycleMessages /\ NoneFrom(r, i + 1, LifecycleMessages)
            => r[i].lifecycle = v.lifecycle
    <2> SUFFICES ASSUME NEW i \in 1..Len(r), r[i].type \in LifecycleMessages,
                        NoneFrom(r, i + 1, LifecycleMessages)
                 PROVE  r[i].lifecycle = v.lifecycle
      OBVIOUS
    <2>1. i + 1 \in Nat \ {0} /\ i + 1 \in 1..Len(q) /\ r[i] = q[i + 1]
      BY <1>1
    <2>2. NoneFrom(q, (i + 1) + 1, LifecycleMessages)
      BY <1>2, <2>1
    <2> QED BY <2>1, <2>2 DEF PageWillKnow
  <1>5. NoneFrom(r, 1, LifecycleMessages) /\ next \in Lifecycle => next = v.lifecycle
    <2> SUFFICES ASSUME NoneFrom(q, 1 + 1, LifecycleMessages), next \in Lifecycle
                 PROVE  next = v.lifecycle
      BY <1>2
    <2>1. CASE q[1].type \in LifecycleMessages
      BY <1>1, <2>1 DEF PageWillKnow
    <2>2. CASE q[1].type \notin LifecycleMessages
      BY <1>1, <1>3, <2>2 DEF PageWillKnow
    <2> QED BY <2>1, <2>2
  <1>6. ~v.joined => NoneFrom(r, 1, LifecycleMessages) /\ next \notin Lifecycle
    <2> SUFFICES ASSUME ~v.joined PROVE NoneFrom(q, 1 + 1, LifecycleMessages) /\ next \notin Lifecycle
      BY <1>2
    <2> QED BY <1>1, <1>3 DEF PageWillKnow
  <1>7. PageWillKnow(v, r, next)
    BY <1>4, <1>5, <1>6 DEF PageWillKnow
  <1> QED BY <1>7 DEF r

-----------------------------------------------------------------------------
(* The invariant about the page's worker.                                  *)

\* A step that leaves the page's worker and its queues alone keeps the
\* invariant, if the page shows what it did or no session.
LEMMA Undisturbed ==
  ASSUME WorkerInv, worker' = worker, visible' = visible,
         worker # None => /\ vessels'[worker] = vessels[worker]
                          /\ toWorker'[worker] = toWorker[worker]
                          /\ toPage'[worker] = toPage[worker],
         shown' = shown \/ shown' \notin Lifecycle
  PROVE  WorkerInv'
  BY DEF WorkerInv, PageWillKnow

\* Disposing of a worker leaves the page without one or with another.
LEMMA DisposeWorkerInv ==
  ASSUME TypeOK, WorkerInv, NEW s \in Sessions, NEW set, Dispose(s, set), visible' = visible,
         \A r \in Sessions : r # s => toPage'[r] = toPage[r],
         shown' \notin Lifecycle
  PROVE  WorkerInv'
  <1>1. CASE worker = s
    BY <1>1 DEF Dispose, WorkerInv
  <1>2. CASE worker # s
    <2>1. worker' = worker
      BY <1>2 DEF Dispose
    <2>2. ASSUME worker # None
          PROVE  /\ vessels'[worker] = vessels[worker] /\ toWorker'[worker] = toWorker[worker]
                 /\ toPage'[worker] = toPage[worker]
      BY <1>2, <2>2 DEF Dispose, TypeOK
    <2> QED BY <2>1, <2>2, Undisturbed
  <1> QED BY <1>1, <1>2

\* A new worker has JOIN before it, and nothing is on its way to the page.
LEMMA JoinWorkerInv ==
  ASSUME TypeOK, VesselsOK, NEW s \in Sessions, Join(s)
  PROVE  WorkerInv'
  <1> DEFINE m == [type |-> "JOIN", visibility |-> visible]
  <1>1. /\ worker' = s /\ toWorker'[s] = <<m>> /\ toPage'[s] = <<>> /\ ~vessels'[s].joined
        /\ vessels'[s].st = "running" /\ visible' = visible /\ shown' = "joining"
    BY DEF Join, TypeOK, VesselsOK, Vessel
  <1>2. Len(<<m>>) = 1 /\ <<m>>[1] = m /\ m.type = "JOIN" /\ m.visibility = visible
    OBVIOUS
  <1>3. WorkerWillKnow(vessels'[s], <<m>>, visible)
    <2> HIDE DEF m
    <2>1. ~NoneFrom(<<m>>, 1, VisibilityMessages) /\ NoneFrom(<<m>>, 2, {"JOIN"})
      BY <1>2 DEF NoneFrom, VisibilityMessages
    <2> QED BY <1>1, <1>2, <2>1 DEF WorkerWillKnow
  <1>4. PageWillKnow(vessels'[s], <<>>, "joining")
    BY DEF PageWillKnow, NoneFrom, Lifecycle
  <1> QED BY <1>1, <1>3, <1>4 DEF WorkerInv

\* The page takes a message.
LEMMA PageReceivesWorkerInv ==
  ASSUME TypeOK, WorkerInv, NEW s \in Sessions, PageReceives(s)
  PROVE  WorkerInv'
  <1> USE DEF None
  <1>1. /\ toPage[s] \in Seq(WorkerMessage) /\ toPage[s] # <<>> /\ toPage'[s] = Tail(toPage[s])
        /\ \A r \in Sessions : r # s => toPage'[r] = toPage[r]
        /\ visible' = visible
    BY DEF PageReceives, TypeOK
  <1>2. CASE Dispose(s, timers) /\ shown' \in {"stopped", "error"}
    BY <1>1, <1>2, DisposeWorkerInv DEF Lifecycle
  <1>3. CASE s # worker /\ UNCHANGED <<worker, shown, vessels, toWorker>>
    BY <1>1, <1>3, Undisturbed DEF TypeOK
  <1>4. CASE /\ Head(toPage[s]).type \in LifecycleMessages /\ s = worker
             /\ shown' = Head(toPage[s]).lifecycle
             /\ UNCHANGED <<worker, vessels, toWorker>>
    <2>1. CASE vessels[worker].st = "running"
      <3>1. /\ WorkerWillKnow(vessels[s], toWorker[s], visible)
            /\ PageWillKnow(vessels[s], toPage[s], shown)
        BY <1>4, <2>1, SessionsAssumption DEF WorkerInv, Sessions
      <3>2. PageWillKnow(vessels[s], Tail(toPage[s]), shown')
        BY <1>1, <1>4, <3>1, PageHeard
      <3> QED BY <1>1, <1>4, <2>1, <3>1, <3>2 DEF WorkerInv
    <2>2. CASE vessels[worker].st # "running"
      <3>1. LastWord(vessels[s], toPage[s])
        BY <1>4, <2>2, SessionsAssumption DEF WorkerInv, Sessions
      <3>2. /\ Len(toPage'[s]) = Len(toPage[s]) - 1 /\ Len(toPage[s]) \in Nat \ {0}
            /\ \A i \in 1..Len(toPage'[s]) : toPage'[s][i] = toPage[s][i + 1]
            /\ Head(toPage[s]) = toPage[s][1] /\ toPage'[s] \in Seq(WorkerMessage)
        BY <1>1, Taken
      <3>3. Len(toPage[s]) # 1
        BY <1>4, <3>1, <3>2 DEF LastWord, LifecycleMessages
      <3>4. toPage'[s] # <<>> /\ toPage'[s][Len(toPage'[s])] = toPage[s][Len(toPage[s])]
        <4>1. Len(toPage'[s]) \in 1..Len(toPage'[s]) /\ Len(toPage'[s]) + 1 = Len(toPage[s])
          <5>1. PICK n \in Nat \ {0} : n = Len(toPage[s])
            BY <3>2
          <5>2. n # 1
            BY <3>3, <5>1
          <5>3. n - 1 \in 1..(n - 1) /\ (n - 1) + 1 = n
            BY <5>2
          <5> QED BY <3>2, <5>1, <5>3
        <4>2. Len(<<>>) = 0
          OBVIOUS
        <4> QED BY <3>2, <4>1, <4>2
      <3> QED BY <1>4, <2>2, <3>1, <3>4 DEF WorkerInv, LastWord
    <2> QED BY <2>1, <2>2
  <1>5. \/ /\ Head(toPage[s]).type \in LifecycleMessages /\ s = worker
           /\ shown' = Head(toPage[s]).lifecycle
           /\ UNCHANGED <<worker, vessels, toWorker>>
        \/ Dispose(s, timers) /\ shown' \in {"stopped", "error"}
        \/ s # worker /\ UNCHANGED <<worker, shown, vessels, toWorker>>
    BY DEF PageReceives, Ignored, LifecycleMessages
  <1> QED BY <1>2, <1>3, <1>4, <1>5

\* The last word of a worker is the last in its queue.
LEMMA SentLast ==
  ASSUME NEW q \in Seq(WorkerMessage), NEW t \in {"STOPPED", "error_event"}
  PROVE  LET r == Append(q, [type |-> t]) IN r # <<>> /\ r[Len(r)].type = t
  <1>1. [type |-> t] \in WorkerMessage
    BY MessageTypes
  <1>2. /\ Len(Append(q, [type |-> t])) = Len(q) + 1 /\ Len(q) \in Nat
        /\ Append(q, [type |-> t])[Len(q) + 1] = [type |-> t]
    BY <1>1, Appended
  <1>3. Len(<<>>) = 0 /\ [type |-> t].type = t
    OBVIOUS
  <1> QED BY <1>2, <1>3

\* A running worker is the page's, so that what it does keeps pace with the
\* page.
LEMMA WorkerReceivesWorkerInv ==
  ASSUME TypeOK, NoOrphans, WorkerInv, NEW s \in Sessions, WorkerReceives(s)
  PROVE  WorkerInv'
  <1> DEFINE q == toWorker[s]
             p == toPage[s]
             v == vessels[s]
  <1>1. /\ s = worker /\ worker' = worker /\ shown' = shown /\ visible' = visible
        /\ q \in Seq(PageMessage) /\ q # <<>> /\ p \in Seq(WorkerMessage) /\ v \in Vessel
        /\ v.st = "running"
    BY DEF WorkerReceives, NoOrphans, Alive, page, TypeOK
  <1>2. WorkerWillKnow(v, q, visible) /\ PageWillKnow(v, p, shown)
    BY <1>1, SessionsAssumption DEF WorkerInv, Sessions, None
  <1>3. CASE /\ Head(q).type = "JOIN" /\ ~v.joined
             /\ vessels' = [vessels EXCEPT ![s] = Joined(@, Head(q).visibility)]
             /\ toWorker' = [toWorker EXCEPT ![s] = Tail(q)]
             /\ UNCHANGED toPage
    <2>1. vessels'[s] = Joined(v, Head(q).visibility) /\ toWorker'[s] = Tail(q) /\ toPage'[s] = p
      BY <1>3 DEF TypeOK
    <2>2. /\ vessels'[s].joined /\ vessels'[s].lifecycle = LifecycleOf(Head(q).visibility)
          /\ vessels'[s].st = "running"
      BY <1>1, <2>1 DEF Joined, Vessel
    <2>3. WorkerWillKnow(vessels'[s], Tail(q), visible)
      BY <1>1, <1>2, <1>3, <2>2, HeardVisibility DEF VisibilityMessages
    <2>4. PageWillKnow(vessels'[s], p, shown)
      <3>1. NoneFrom(p, 1, LifecycleMessages) /\ shown \notin Lifecycle
        BY <1>2, <1>3 DEF PageWillKnow
      <3>2. \A i \in 1..Len(p) : p[i].type \notin LifecycleMessages
        BY <3>1 DEF NoneFrom
      <3> QED BY <2>2, <3>1, <3>2 DEF PageWillKnow
    <2> QED BY <1>1, <2>1, <2>2, <2>3, <2>4 DEF WorkerInv
  <1>4. CASE /\ Head(q).type = "VISIBILITY" /\ v.joined
             /\ vessels' = [vessels EXCEPT ![s].lifecycle = LifecycleOf(Head(q).visibility)]
             /\ toWorker' = [toWorker EXCEPT ![s] = Tail(q)]
             /\ PostToPage(s, [type |-> "LIFECYCLE", lifecycle |-> LifecycleOf(Head(q).visibility)])
    <2> DEFINE m == [type |-> "LIFECYCLE", lifecycle |-> LifecycleOf(Head(q).visibility)]
    <2>1. /\ vessels'[s] = [v EXCEPT !.lifecycle = LifecycleOf(Head(q).visibility)]
          /\ toWorker'[s] = Tail(q) /\ toPage'[s] = Append(p, m)
      BY <1>4 DEF TypeOK, PostToPage
    <2>2. /\ vessels'[s].joined /\ vessels'[s].lifecycle = LifecycleOf(Head(q).visibility)
          /\ vessels'[s].st = "running"
      BY <1>1, <1>4, <2>1 DEF Vessel
    <2>3. WorkerWillKnow(vessels'[s], Tail(q), visible)
      BY <1>1, <1>2, <1>4, <2>2, HeardVisibility DEF VisibilityMessages
    <2>4. /\ m \in WorkerMessage /\ m.type \in LifecycleMessages
          /\ m.lifecycle = vessels'[s].lifecycle
      BY <2>2, MessageTypes DEF LifecycleMessages
    <2>5. PageWillKnow(vessels'[s], Append(p, m), shown)
      BY <1>1, <2>2, <2>4, ToldLifecycle
    <2> QED BY <1>1, <2>1, <2>2, <2>3, <2>5 DEF WorkerInv
  <1>5. CASE /\ vessels' = [vessels EXCEPT ![s].st = "closed", ![s].lifecycle = "stopped"]
             /\ PostToPage(s, [type |-> "STOPPED"])
    <2>1. vessels'[s].st = "closed" /\ toPage'[s] = Append(p, [type |-> "STOPPED"])
      BY <1>5 DEF TypeOK, PostToPage, Vessel
    <2>2. LastWord(vessels'[s], toPage'[s])
      BY <1>1, <2>1, SentLast DEF LastWord
    <2> QED BY <1>1, <2>1, <2>2 DEF WorkerInv
  <1> QED BY <1>3, <1>4, <1>5 DEF WorkerReceives

\* Settling the snapshot, or failing to load, sends word to the page.
LEMMA WorkerSpeaksWorkerInv ==
  ASSUME TypeOK, VesselsOK, NoOrphans, WorkerInv, NEW s \in Sessions,
         SnapshotSettles(s) \/ LoadFails(s)
  PROVE  WorkerInv'
  <1> DEFINE p == toPage[s]
             v == vessels[s]
  <1>1. /\ s = worker /\ worker' = worker /\ shown' = shown /\ visible' = visible
        /\ toWorker' = toWorker /\ p \in Seq(WorkerMessage) /\ v \in Vessel /\ v.st = "running"
    BY DEF SnapshotSettles, LoadFails, NoOrphans, Alive, page, TypeOK
  <1>2. WorkerWillKnow(v, toWorker[s], visible) /\ PageWillKnow(v, p, shown)
    BY <1>1, SessionsAssumption DEF WorkerInv, Sessions, None
  <1>3. CASE SnapshotSettles(s)
    <2>1. /\ vessels'[s] = [v EXCEPT !.collecting = FALSE]
          /\ v.joined /\ v.lifecycle \in Lifecycle
      BY <1>1, <1>3 DEF SnapshotSettles, TypeOK, VesselsOK
    <2>2. /\ vessels'[s].joined = v.joined /\ vessels'[s].lifecycle = v.lifecycle
          /\ vessels'[s].st = "running"
      BY <1>1, <2>1 DEF Vessel
    <2>3. WorkerWillKnow(vessels'[s], toWorker[s], visible)
      BY <1>2, <2>2 DEF WorkerWillKnow
    <2>4. PageWillKnow(vessels'[s], toPage'[s], shown)
      <3> DEFINE m == [type |-> "SNAPSHOT", lifecycle |-> v.lifecycle]
                 e == [type |-> "ERROR"]
      <3>1. toPage'[s] = Append(p, m) \/ toPage'[s] = Append(p, e)
        BY <1>3 DEF SnapshotSettles, PostToPage, TypeOK
      <3>2. /\ m \in WorkerMessage /\ m.type \in LifecycleMessages
            /\ m.lifecycle = vessels'[s].lifecycle
            /\ e \in WorkerMessage /\ e.type \notin LifecycleMessages
        BY <2>1, <2>2, MessageTypes DEF LifecycleMessages
      <3>3. PageWillKnow(vessels'[s], Append(p, m), shown)
        BY <1>1, <2>1, <2>2, <3>2, ToldLifecycle
      <3>4. PageWillKnow(vessels'[s], Append(p, e), shown)
        BY <1>1, <1>2, <2>2, <3>2, ToldOther
      <3> QED BY <3>1, <3>3, <3>4
    <2> QED BY <1>1, <2>2, <2>3, <2>4 DEF WorkerInv
  <1>4. CASE LoadFails(s)
    <2>1. vessels'[s].st = "broken" /\ toPage'[s] = Append(p, [type |-> "error_event"])
      BY <1>4 DEF LoadFails, PostToPage, TypeOK, Vessel
    <2>2. LastWord(vessels'[s], toPage'[s])
      BY <1>1, <2>1, SentLast DEF LastWord
    <2> QED BY <1>1, <2>1, <2>2 DEF WorkerInv
  <1> QED BY <1>3, <1>4

\* Stop and a change of the visibility post to the page's worker.
LEMMA PagePostsWorkerInv ==
  ASSUME TypeOK, WorkerInv, Stop \/ ChangeVisibility
  PROVE  WorkerInv'
  <1>1. worker' = worker /\ vessels' = vessels /\ toPage' = toPage
    BY DEF Stop, ChangeVisibility, page
  <1>2. CASE worker = None
    BY <1>1, <1>2 DEF WorkerInv
  <1>3. CASE worker # None /\ vessels[worker].st # "running"
    BY <1>1, <1>3 DEF WorkerInv
  <1>4. CASE worker # None /\ vessels[worker].st = "running"
    <2> DEFINE s == worker
    <2>1. /\ s \in Sessions /\ toWorker[s] \in Seq(PageMessage)
          /\ WorkerWillKnow(vessels[s], toWorker[s], visible)
          /\ PageWillKnow(vessels[s], toPage[s], shown)
      BY <1>4 DEF TypeOK, WorkerInv
    <2>2. CASE Stop
      <3>1. /\ toWorker'[s] = Append(toWorker[s], [type |-> "STOP"])
            /\ visible' = visible /\ shown' = "stopping"
        BY <1>4, <2>2 DEF Stop, PostToWorker, Alive, TypeOK
      <3>2. WorkerWillKnow(vessels[s], toWorker'[s], visible)
        BY <2>1, <3>1, ToldStop
      <3>3. PageWillKnow(vessels[s], toPage[s], "stopping")
        BY <2>1 DEF PageWillKnow, Lifecycle
      <3> QED BY <1>1, <1>4, <3>1, <3>2, <3>3 DEF WorkerInv
    <2>3. CASE ChangeVisibility
      <3>1. /\ toWorker'[s] = Append(toWorker[s], [type |-> "VISIBILITY", visibility |-> visible'])
            /\ visible' \in Visibility /\ shown' = shown
        BY <1>4, <2>3 DEF ChangeVisibility, PostToWorker, Alive, TypeOK, Visibility, page
      <3>2. WorkerWillKnow(vessels[s], toWorker'[s], visible')
        BY <2>1, <3>1, ToldVisibility
      <3> QED BY <1>1, <1>4, <2>1, <3>1, <3>2 DEF WorkerInv
    <2> QED BY <2>2, <2>3
  <1> QED BY <1>2, <1>3, <1>4

LEMMA WorkerInvStep ==
  ASSUME TypeOK, VesselsOK, NoOrphans, WorkerInv, [Next]_vars
  PROVE  WorkerInv'
  <1>1. ASSUME NEW s \in Sessions, Join(s) PROVE WorkerInv'
    BY <1>1, JoinWorkerInv
  <1>2. ASSUME NEW s \in Sessions, PageReceives(s) PROVE WorkerInv'
    BY <1>2, PageReceivesWorkerInv
  <1>3. ASSUME NEW s \in Sessions, WorkerReceives(s) PROVE WorkerInv'
    BY <1>3, WorkerReceivesWorkerInv
  <1>4. ASSUME NEW s \in Sessions, SnapshotSettles(s) \/ LoadFails(s) PROVE WorkerInv'
    BY <1>4, WorkerSpeaksWorkerInv
  <1>5. ASSUME NEW t \in timers, TimerFires(t) PROVE WorkerInv'
    <2>1. t.session \in Sessions /\ toPage' = toPage /\ visible' = visible /\ shown' = "stopped"
      BY <1>5 DEF TimerFires, TypeOK
    <2> QED BY <1>5, <2>1, DisposeWorkerInv DEF TimerFires, Lifecycle
  <1>6. ASSUME PageHide PROVE WorkerInv'
    <2>1. worker \in Sessions /\ toPage' = toPage /\ visible' = visible /\ shown' = "stopped"
      BY <1>6 DEF PageHide, TypeOK
    <2> QED BY <1>6, <2>1, DisposeWorkerInv DEF PageHide, Lifecycle
  <1>7. CASE Stop \/ ChangeVisibility
    BY <1>7, PagePostsWorkerInv
  <1>8. CASE JoinFails
    BY <1>8, Undisturbed DEF JoinFails, Lifecycle
  <1>9. CASE UNCHANGED vars
    BY <1>9, Undisturbed DEF vars, page
  <1> QED BY <1>1, <1>2, <1>3, <1>4, <1>5, <1>6, <1>7, <1>8, <1>9 DEF Next

-----------------------------------------------------------------------------
(* The theorems.                                                           *)

\* The invariant holds in every behaviour.
LEMMA VesselInvAlways == Spec => [](TypeOK /\ VesselInv /\ ShownSessionExists)
  <1>1. TypeOK /\ VesselInv /\ ShownSessionExists /\ [Next]_vars
          => (TypeOK /\ VesselInv /\ ShownSessionExists)'
    BY TypeOKStep, VesselsOKStep, NoOrphansStep, ShownSessionStep, WorkerInvStep DEF VesselInv
  <1> QED BY InitInv, <1>1, PTL DEF Spec

\* Every variable keeps its type: the page, the queues between it and its
\* workers, and the timers.
THEOREM VesselTypeOK == Spec => []TypeOK
  BY VesselInvAlways, PTL

\* The page never lets go of a worker that lives (disposeWorker).
THEOREM VesselNoOrphans == Spec => []NoOrphans
  <1>1. VesselInv => NoOrphans
    BY DEF VesselInv
  <1> QED BY <1>1, VesselInvAlways, PTL

\* A page that shows a session, from joining to stopping, has one.
THEOREM VesselShownSession == Spec => []ShownSessionExists
  BY VesselInvAlways, PTL

\* A session that has caught up with its messages shows as paused exactly
\* while the document is hidden.
THEOREM VesselPausedWhileHidden == Spec => []PausedWhileHidden
  <1>1. TypeOK /\ VesselInv => PausedWhileHidden
    <2> SUFFICES ASSUME TypeOK, VesselInv, worker # None, shown \in Lifecycle,
                        toWorker[worker] = <<>>, toPage[worker] = <<>>
                 PROVE  shown = LifecycleOf(visible)
      BY DEF PausedWhileHidden
    <2>1. vessels[worker].st = "running"
      BY DEF VesselInv, WorkerInv, LastWord
    <2>2. NoneFrom(<<>>, 1, VisibilityMessages) /\ NoneFrom(<<>>, 1, LifecycleMessages)
      BY DEF NoneFrom
    <2> QED BY <2>1, <2>2 DEF VesselInv, WorkerInv, WorkerWillKnow, PageWillKnow
  <1> QED BY <1>1, VesselInvAlways, PTL

=============================================================================
