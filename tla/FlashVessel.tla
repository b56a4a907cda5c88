---------------------------- MODULE FlashVessel ----------------------------
(***************************************************************************)
(* The browser vessel prototype (src/prototypes/flash-vessel): a page, the *)
(* dedicated worker it starts for a session, the messages that travel      *)
(* between them in order but late, and the timer that ends a worker which  *)
(* does not answer Stop.                                                   *)
(*                                                                         *)
(* Page and worker run one event handler at a time, to its end: each       *)
(* handler is one action.  A worker the page has dropped may still have    *)
(* messages on their way, and a timer that was set fires unless cleared.   *)
(***************************************************************************)
EXTENDS Naturals, Sequences

CONSTANTS
  MaxSessions,  \* workers started in a behaviour (bound)
  MaxToggles    \* visibility changes in a behaviour (bound)

ASSUME SessionsAssumption == MaxSessions \in Nat /\ MaxToggles \in Nat

Sessions == 1..MaxSessions
None == 0

VARIABLES
  visible,       \* document.visibilityState
  toggles,       \* how often it has changed
  worker,        \* the page's worker, None when there is none
  shown,         \* the state the page renders
  stopFallback,  \* the timer the page remembers, None when there is none
  timers,        \* the timers that are set, with the worker each would dispose of
  stops,         \* timers ever set
  vessels,       \* vessels[s]: the worker of session s
  toWorker,      \* toWorker[s]: messages posted to it
  toPage,        \* toPage[s]: messages and errors on their way to the page
  asked          \* sessions somebody pressed Stop on; read by properties only

page == <<worker, shown, stopFallback, timers, stops>>
vars == <<visible, toggles, page, vessels, toWorker, toPage, asked>>

Visibility == {"visible", "hidden"}
Lifecycle == {"active", "paused"}
Shown == {"idle", "joining", "active", "paused", "stopping", "stopped", "error"}

\* absent before Join; broken when its module does not load; closed by itself,
\* terminated by the page.
WorkerState == {"absent", "running", "broken", "closed", "terminated"}

Vessel == [st: WorkerState, joined: BOOLEAN, collecting: BOOLEAN,
           lifecycle: Lifecycle \cup {"idle", "stopped"}]

PageMessage == [type: {"JOIN", "VISIBILITY"}, visibility: Visibility] \cup [type: {"STOP"}]
WorkerMessage ==
  [type: {"SNAPSHOT", "LIFECYCLE"}, lifecycle: Lifecycle]
  \cup [type: {"STOPPED", "ERROR", "error_event"}]

TypeOK ==
  /\ visible \in Visibility /\ toggles \in 0..MaxToggles
  /\ worker \in Sessions \cup {None} /\ shown \in Shown
  /\ stops \in Nat /\ stopFallback \in 0..stops
  /\ timers \subseteq [id: 1..stops, session: Sessions]
  /\ vessels \in [Sessions -> Vessel]
  /\ toWorker \in [Sessions -> Seq(PageMessage)]
  /\ toPage \in [Sessions -> Seq(WorkerMessage)]
  /\ asked \subseteq Sessions

Init ==
  /\ visible \in Visibility /\ toggles = 0
  /\ worker = None /\ shown = "idle"
  /\ stopFallback = None /\ timers = {} /\ stops = 0
  /\ vessels = [s \in Sessions |-> [st |-> "absent", joined |-> FALSE, collecting |-> FALSE,
                                    lifecycle |-> "idle"]]
  /\ toWorker = [s \in Sessions |-> <<>>] /\ toPage = [s \in Sessions |-> <<>>]
  /\ asked = {}

\* A worker that has not been ended by itself or by the page.
Alive(s) == vessels[s].st \in {"running", "broken"}

JoinEnabled == shown \notin {"joining", "active", "paused", "stopping"}
StopEnabled == shown \in {"joining", "active", "paused"}

\* postMessage to a worker: nobody hears it once the worker has ended.
PostToWorker(s, message) ==
  toWorker' = IF Alive(s) THEN [toWorker EXCEPT ![s] = Append(@, message)] ELSE toWorker

PostToPage(s, message) == toPage' = [toPage EXCEPT ![s] = Append(@, message)]

-----------------------------------------------------------------------------
(* The page.                                                               *)

\* Mutant: whatever timer the page remembers is cleared, for any worker.
DisposeAnyTimer(s, set) ==
  /\ timers' = {t \in set : t.id # stopFallback} /\ stopFallback' = None
  /\ vessels' = [vessels EXCEPT ![s].st = "terminated"]
  /\ toWorker' = [toWorker EXCEPT ![s] = <<>>]
  /\ worker' = IF worker = s THEN None ELSE worker

\* Mutant: the page lets go of its worker without terminating it.
DisposeUnterminated(s, set) ==
  /\ timers' = {t \in set : s = worker => t.id # stopFallback}
  /\ stopFallback' = IF s = worker THEN None ELSE stopFallback
  /\ worker' = IF worker = s THEN None ELSE worker
  /\ UNCHANGED <<vessels, toWorker>>

\* disposeWorker(s), with the timers of set still pending.
Dispose(s, set) ==
  /\ timers' = {t \in set : s = worker => t.id # stopFallback}
  /\ stopFallback' = IF s = worker THEN None ELSE stopFallback
  /\ vessels' = [vessels EXCEPT ![s].st = "terminated"]
  /\ toWorker' = [toWorker EXCEPT ![s] = <<>>]
  /\ worker' = IF worker = s THEN None ELSE worker

\* A click on Join: a new worker is told to join.  A click while there is a
\* worker does nothing.
Join(s) ==
  /\ JoinEnabled /\ worker = None
  /\ vessels[s].st = "absent" /\ \A r \in Sessions : r < s => vessels[r].st # "absent"
  /\ worker' = s /\ shown' = "joining"
  /\ vessels' = [vessels EXCEPT ![s].st = "running"]
  /\ toWorker' = [toWorker EXCEPT ![s] = <<[type |-> "JOIN", visibility |-> visible]>>]
  /\ UNCHANGED <<visible, toggles, stopFallback, timers, stops, toPage, asked>>

\* A click on Join, but the browser refuses to construct a worker.
JoinFails ==
  /\ JoinEnabled /\ worker = None
  /\ shown' = "error"
  /\ UNCHANGED <<visible, toggles, worker, stopFallback, timers, stops, vessels,
                 toWorker, toPage, asked>>

\* A click on Stop: the worker is asked to stop, and disposed of later if it
\* does not.
Stop ==
  /\ StopEnabled /\ worker # None
  /\ shown' = "stopping"
  /\ PostToWorker(worker, [type |-> "STOP"])
  /\ stops' = stops + 1 /\ stopFallback' = stops'
  /\ timers' = timers \cup {[id |-> stops', session |-> worker]}
  /\ asked' = asked \cup {worker}
  /\ UNCHANGED <<visible, toggles, worker, vessels, toPage>>

TimerFires(t) ==
  /\ Dispose(t.session, timers \ {t})
  /\ shown' = "stopped"
  /\ UNCHANGED <<visible, toggles, stops, toPage, asked>>

PageHide ==
  /\ worker # None
  /\ Dispose(worker, timers) /\ shown' = "stopped"
  /\ UNCHANGED <<visible, toggles, stops, toPage, asked>>

\* Mutant: only a session that has been rendered as joined hears of it.
ChangeVisibilityJoined ==
  /\ toggles < MaxToggles /\ toggles' = toggles + 1
  /\ visible' = IF visible = "visible" THEN "hidden" ELSE "visible"
  /\ IF worker # None /\ shown # "joining"
     THEN PostToWorker(worker, [type |-> "VISIBILITY", visibility |-> visible'])
     ELSE UNCHANGED toWorker
  /\ UNCHANGED <<page, vessels, toPage, asked>>

\* The document is hidden or shown, and the page's worker is told.
ChangeVisibility ==
  /\ toggles < MaxToggles /\ toggles' = toggles + 1
  /\ visible' = IF visible = "visible" THEN "hidden" ELSE "visible"
  /\ IF worker # None
     THEN PostToWorker(worker, [type |-> "VISIBILITY", visibility |-> visible'])
     ELSE UNCHANGED toWorker
  /\ UNCHANGED <<page, vessels, toPage, asked>>

\* Mutant: messages of a worker the page has dropped are taken as any other's.
IgnoredNever(s) == FALSE

\* Messages of a worker the page has dropped are ignored.
Ignored(s) == s # worker

\* The page's handlers of a worker's messages and of its error event; the
\* latter is handled whichever worker it comes from.
PageReceives(s) ==
  /\ toPage[s] # <<>>
  /\ toPage' = [toPage EXCEPT ![s] = Tail(@)]
  /\ LET message == Head(toPage[s])
     IN \/ /\ message.type \in {"SNAPSHOT", "LIFECYCLE"} /\ ~Ignored(s)
           /\ shown' = message.lifecycle
           /\ UNCHANGED <<worker, stopFallback, timers, vessels, toWorker>>
        \/ /\ message.type \in {"STOPPED", "ERROR"} /\ ~Ignored(s)
           /\ Dispose(s, timers)
           /\ shown' = IF message.type = "STOPPED" THEN "stopped" ELSE "error"
        \/ /\ message.type = "error_event"
           /\ Dispose(s, timers) /\ shown' = "error"
        \/ /\ message.type # "error_event" /\ Ignored(s)
           /\ UNCHANGED <<worker, shown, stopFallback, timers, vessels, toWorker>>
  /\ UNCHANGED <<visible, toggles, stops, asked>>

-----------------------------------------------------------------------------
(* The worker.                                                             *)

LifecycleOf(visibility) == IF visibility = "hidden" THEN "paused" ELSE "active"

\* Mutant: the worker that joins leaves its lifecycle for the first change.
JoinedIdle(v, visibility) == [v EXCEPT !.joined = TRUE, !.collecting = TRUE]

\* The worker joins and begins to collect its capability snapshot.
Joined(v, visibility) ==
  [v EXCEPT !.joined = TRUE, !.collecting = TRUE, !.lifecycle = LifecycleOf(visibility)]

\* The worker's handler of messages.  JOIN is the first and only one of its
\* kind, so that any other finds the worker joined.
WorkerReceives(s) ==
  /\ vessels[s].st = "running" /\ toWorker[s] # <<>>
  /\ LET message == Head(toWorker[s])
         rest == Tail(toWorker[s])
         lifecycle == LifecycleOf(message.visibility)
     IN \/ /\ message.type = "JOIN" /\ ~vessels[s].joined
           /\ vessels' = [vessels EXCEPT ![s] = Joined(@, message.visibility)]
           /\ toWorker' = [toWorker EXCEPT ![s] = rest]
           /\ UNCHANGED toPage
        \/ /\ message.type = "VISIBILITY" /\ vessels[s].joined
           /\ vessels' = [vessels EXCEPT ![s].lifecycle = lifecycle]
           /\ toWorker' = [toWorker EXCEPT ![s] = rest]
           /\ PostToPage(s, [type |-> "LIFECYCLE", lifecycle |-> lifecycle])
        \/ /\ message.type = "STOP"
           /\ vessels' = [vessels EXCEPT ![s].st = "closed", ![s].lifecycle = "stopped"]
           /\ toWorker' = [toWorker EXCEPT ![s] = <<>>]
           /\ PostToPage(s, [type |-> "STOPPED"])
  /\ UNCHANGED <<visible, toggles, page, asked>>

\* The snapshot has been collected, or collecting it failed.
SnapshotSettles(s) ==
  /\ vessels[s].st = "running" /\ vessels[s].collecting
  /\ vessels' = [vessels EXCEPT ![s].collecting = FALSE]
  /\ \/ PostToPage(s, [type |-> "SNAPSHOT", lifecycle |-> vessels[s].lifecycle])
     \/ PostToPage(s, [type |-> "ERROR"])
  /\ UNCHANGED <<visible, toggles, page, toWorker, asked>>

\* The worker's module fails to load: it hears nothing, and the page gets an
\* error event.
LoadFails(s) ==
  /\ vessels[s].st = "running" /\ ~vessels[s].joined
  /\ vessels' = [vessels EXCEPT ![s].st = "broken"]
  /\ PostToPage(s, [type |-> "error_event"])
  /\ UNCHANGED <<visible, toggles, page, toWorker, asked>>

Next ==
  \/ \E s \in Sessions : \/ Join(s) \/ PageReceives(s)
                         \/ WorkerReceives(s) \/ SnapshotSettles(s) \/ LoadFails(s)
  \/ JoinFails \/ Stop \/ PageHide \/ ChangeVisibility
  \/ \E t \in timers : TimerFires(t)

Spec == Init /\ [][Next]_vars

\* A timer that is set and stays set fires.  Nothing is assumed of a worker:
\* it may hang, and its messages may never come.
FairSpec ==
  Spec /\ WF_vars(\E t \in timers : TimerFires(t))

-----------------------------------------------------------------------------
(* Properties.                                                             *)

\* The page never lets go of a worker that lives: a worker that nobody has
\* ended is the one Stop and a page-hide would end (disposeWorker).
NoOrphans == \A s \in Sessions : Alive(s) => s = worker

\* A page that shows a session, from joining to stopping, has one, whatever
\* messages of earlier workers still arrive.
ShownSessionExists == ~JoinEnabled => worker # None

\* Once a session that shows as joined has caught up with its messages, it
\* shows as paused exactly while the document is hidden, through Join, the
\* snapshot and visibility changes in any order.
PausedWhileHidden ==
  LET s == worker
  IN /\ s # None /\ shown \in Lifecycle
     /\ toWorker[s] = <<>> /\ toPage[s] = <<>>
     => shown = LifecycleOf(visible)

\* A worker that was asked to stop ends, even if it hangs, and whatever
\* becomes of the timers of other sessions (stopSession).
StopTakesEffect == \A s \in Sessions : s \in asked ~> ~Alive(s)

\* "Stopped. No worker is active." (main.mjs:41).
StoppedMeansNoWorker == shown = "stopped" => worker = None

=============================================================================
