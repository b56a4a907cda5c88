----------------------------- MODULE FleetLease -----------------------------
(***************************************************************************)
(* Leased vessels, work attempts and missions as FleetLeaseController      *)
(* (src/src/long_haul/ephemeral.py) records them in the append-only event  *)
(* store (src/src/long_haul/events/store.py).                              *)
(*                                                                         *)
(* Every call of a controller reads the whole log, materializes the fleet, *)
(* decides, and appends one event.  Nothing ties the append to the read:   *)
(* they are two steps, and other controllers and the runners of attempts   *)
(* append in between.  The log itself is left out: it only ever grows, and *)
(* what any reader sees of it is the materialized fleet, one event further *)
(* with every append.                                                      *)
(***************************************************************************)
EXTENDS Naturals

CONSTANTS
  Controllers,  \* FleetLeaseController objects on one event store
  Offered,      \* Offered[c]: the calls controller c makes (bound)
  Vessels, Missions, Attempts,
  LeaseIds,
  Offers,       \* the leases providers hand out (bound)
  MaxClock,     \* the clock's horizon (bound)
  None          \* Python's None

Calls == {"admit", "renew", "start", "disappear", "timeout"}

ASSUME OfferedAssumption == Offered \in [Controllers -> SUBSET Calls]
Lease == [id: LeaseIds, acquired: Nat, expires: Nat \cup {None}, renewable: BOOLEAN]

\* validate_lease: what a lease record has to satisfy.
ASSUME OffersAssumption ==
  Offers \subseteq {l \in Lease : l.expires = None \/ l.expires > l.acquired}
ASSUME MaxClockAssumption == MaxClock \in Nat

VARIABLES
  clock,     \* the caller's clock; every call stamps its event with it
  fleet,     \* what materialize() makes of the log
  appending  \* appending[c]: the event controller c has decided to append

vars == <<clock, fleet, appending>>

-----------------------------------------------------------------------------
(* The materialized fleet.                                                 *)

AttemptStatus == {"running", "inconclusive", "timed_out", "completed"}
AttemptTermination == {"lease_lost", "runner_interrupted", "execution_timeout"}
MissionRunStatus == {"active", "replan_required", "completed"}

WorkAttempt ==
  [mission: Missions, vessel: Vessels, lease: LeaseIds,
   status: AttemptStatus, termination: AttemptTermination \cup {None}]

\* attempt_ids of a mission and the order of its lists are left out.
MissionRun == [status: MissionRunStatus, active: SUBSET Attempts]

FleetState ==
  [vessels: [Vessels -> Lease \cup {None}], unavailable: SUBSET Vessels,
   attempts: [Attempts -> WorkAttempt \cup {None}],
   missions: [Missions -> MissionRun \cup {None}]]

Event ==
  [type: {"resource_admitted", "resource_lease_renewed"}, vessel: Vessels, lease: Lease]
  \cup
  [type: {"resource_disappeared"}, vessel: Vessels,
   reason: {"lease_lost", "runner_interrupted"}, interrupted: SUBSET Attempts]
  \cup
  [type: {"work_attempt_started"}, attempt: Attempts, mission: Missions,
   vessel: Vessels, lease: LeaseIds]
  \cup
  [type: {"work_attempt_timed_out", "work_attempt_completed"}, attempt: Attempts]
  \cup
  [type: {"work_attempt_interrupted"}, attempt: Attempts,
   reason: {"lease_lost", "runner_interrupted"}]

\* None is no value of any of the other types.
ASSUME NoneAssumption ==
  None \notin Nat \cup Lease \cup WorkAttempt \cup MissionRun \cup Event

TypeOK ==
  /\ clock \in 0..MaxClock
  /\ fleet \in FleetState
  /\ appending \in [Controllers -> Event \cup {None}]

Init ==
  /\ clock = 0
  /\ fleet = [vessels |-> [v \in Vessels |-> None], unavailable |-> {},
              attempts |-> [a \in Attempts |-> None],
              missions |-> [m \in Missions |-> None]]
  /\ appending = [c \in Controllers |-> None]

Ended(attempt, status, termination) ==
  [attempt EXCEPT !.status = status, !.termination = termination]

Running(f, a) == f.attempts[a] # None /\ f.attempts[a].status = "running"

\* Mutant: an attempt's end is recorded whatever state it is in.
EndAlways(f, as, status, termination) ==
  LET over == {a \in as : f.attempts[a] # None}
  IN [f EXCEPT !.attempts = [a \in Attempts |->
        IF a \in over THEN Ended(f.attempts[a], status, termination) ELSE f.attempts[a]]]

\* _end_attempt for every attempt of as: those that are not running any more
\* are left alone, and a mission that loses its last active attempt is over
\* or to be replanned.
End(f, as, status, termination) ==
  LET over == {a \in as : Running(f, a)}
      left(m) == f.missions[m].active \ over
  IN [f EXCEPT
       !.attempts = [a \in Attempts |->
         IF a \in over THEN Ended(f.attempts[a], status, termination) ELSE f.attempts[a]],
       !.missions = [m \in Missions |->
         IF \E a \in over : f.attempts[a].mission = m
         THEN [active |-> left(m),
               status |-> IF left(m) # {} THEN "active"
                          ELSE IF status = "completed" THEN "completed" ELSE "replan_required"]
         ELSE f.missions[m]]]

\* Mutant: only the lease's id is kept.
ApplyAdmittedIdOnly(f, e) ==
  [f EXCEPT !.vessels[e.vessel] = e.lease.id, !.unavailable = @ \ {e.vessel}]

ApplyAdmitted(f, e) ==
  [f EXCEPT !.vessels[e.vessel] = e.lease, !.unavailable = @ \ {e.vessel}]

ApplyRenewed(f, e) ==
  IF f.vessels[e.vessel] = None THEN f ELSE [f EXCEPT !.vessels[e.vessel] = e.lease]

ApplyDisappeared(f, e) ==
  End([f EXCEPT !.unavailable = @ \cup {e.vessel}], e.interrupted, "inconclusive", e.reason)

\* Mutant: the attempt is not entered into its mission's active attempts.
ApplyStartedUnlisted(f, e) ==
  [f EXCEPT !.attempts[e.attempt] =
     [mission |-> e.mission, vessel |-> e.vessel, lease |-> e.lease,
      status |-> "running", termination |-> None],
   !.missions[e.mission] = IF @ = None THEN [status |-> "active", active |-> {}]
                           ELSE [@ EXCEPT !.status = "active"]]

ApplyStarted(f, e) ==
  LET listed == IF f.missions[e.mission] = None THEN {} ELSE f.missions[e.mission].active
  IN [f EXCEPT
       !.attempts[e.attempt] = [mission |-> e.mission, vessel |-> e.vessel, lease |-> e.lease,
                                status |-> "running", termination |-> None],
       !.missions[e.mission] = [status |-> "active", active |-> listed \cup {e.attempt}]]

Apply(f, e) ==
  CASE e.type = "resource_admitted" -> ApplyAdmitted(f, e)
    [] e.type = "resource_lease_renewed" -> ApplyRenewed(f, e)
    [] e.type = "resource_disappeared" -> ApplyDisappeared(f, e)
    [] e.type = "work_attempt_started" -> ApplyStarted(f, e)
    [] e.type = "work_attempt_interrupted" ->
         End(f, {e.attempt}, "inconclusive", e.reason)
    [] e.type = "work_attempt_timed_out" ->
         End(f, {e.attempt}, "timed_out", "execution_timeout")
    [] e.type = "work_attempt_completed" -> End(f, {e.attempt}, "completed", None)

-----------------------------------------------------------------------------
(* What a controller's calls read and decide.                              *)

Active(lease, now) ==
  lease.acquired <= now /\ (lease.expires # None => now < lease.expires)

\* The vessel is available under this lease.
Holds(f, v, id) ==
  v \notin f.unavailable /\ f.vessels[v] # None /\ f.vessels[v].id = id

\* The call goes on to append event e.
Decide(c, call, e) ==
  /\ call \in Offered[c] /\ appending[c] = None
  /\ appending' = [appending EXCEPT ![c] = e]
  /\ UNCHANGED <<clock, fleet>>

\* Mutant: a vessel may be admitted again whatever has become of it.
AdmitAgain(c, v, lease) ==
  /\ Active(lease, clock)
  /\ Decide(c, "admit", [type |-> "resource_admitted", vessel |-> v, lease |-> lease])

Admit(c, v, lease) ==
  /\ Active(lease, clock)
  /\ fleet.vessels[v] = None \/ v \in fleet.unavailable
  /\ Decide(c, "admit", [type |-> "resource_admitted", vessel |-> v, lease |-> lease])

Renew(c, v, id, end) ==
  LET lease == fleet.vessels[v]
  IN /\ Holds(fleet, v, id)
     /\ lease.renewable /\ Active(lease, clock)
     /\ end > clock /\ (lease.expires # None => end > lease.expires)
     /\ Decide(c, "renew", [type |-> "resource_lease_renewed", vessel |-> v,
                            lease |-> [lease EXCEPT !.expires = end]])

StartAttempt(c, a, m, v, id) ==
  /\ Holds(fleet, v, id)
  /\ Active(fleet.vessels[v], clock)
  /\ fleet.attempts[a] = None
  /\ Decide(c, "start", [type |-> "work_attempt_started", attempt |-> a,
                         mission |-> m, vessel |-> v, lease |-> id])

\* The attempts a lost lease takes along.
Interrupted(v, id) ==
  {a \in Attempts : /\ Running(fleet, a)
                    /\ fleet.attempts[a].vessel = v /\ fleet.attempts[a].lease = id}

Disappear(c, v, id, reason) ==
  /\ Holds(fleet, v, id)
  /\ Decide(c, "disappear", [type |-> "resource_disappeared", vessel |-> v,
                             reason |-> reason, interrupted |-> Interrupted(v, id)])

RecordExecutionTimeout(c, a) ==
  /\ Running(fleet, a)
  /\ Decide(c, "timeout", [type |-> "work_attempt_timed_out", attempt |-> a])

Append(c) ==
  /\ appending[c] # None
  /\ fleet' = Apply(fleet, appending[c])
  /\ appending' = [appending EXCEPT ![c] = None]
  /\ UNCHANGED clock

-----------------------------------------------------------------------------
(* The environment.                                                        *)

\* What runs an attempt that was once started appends how it ended: late,
\* twice, or both ways, without a look at the log.
RunnerReports(a) ==
  /\ fleet.attempts[a] # None
  /\ \/ fleet' = Apply(fleet, [type |-> "work_attempt_completed", attempt |-> a])
     \/ \E reason \in {"lease_lost", "runner_interrupted"} :
          fleet' = Apply(fleet, [type |-> "work_attempt_interrupted", attempt |-> a,
                                 reason |-> reason])
  /\ UNCHANGED <<clock, appending>>

\* The controller's process stops before its append.
Crash(c) ==
  /\ appending[c] # None
  /\ appending' = [appending EXCEPT ![c] = None]
  /\ UNCHANGED <<clock, fleet>>

Tick == clock < MaxClock /\ clock' = clock + 1 /\ UNCHANGED <<fleet, appending>>

Call(c) ==
  \/ \E v \in Vessels, l \in Offers : Admit(c, v, l)
  \/ \E v \in Vessels, id \in LeaseIds, end \in 1..MaxClock + 1 : Renew(c, v, id, end)
  \/ \E a \in Attempts, m \in Missions, v \in Vessels, id \in LeaseIds :
       StartAttempt(c, a, m, v, id)
  \/ \E v \in Vessels, id \in LeaseIds, reason \in {"lease_lost", "runner_interrupted"} :
       Disappear(c, v, id, reason)
  \/ \E a \in Attempts : RecordExecutionTimeout(c, a)

Next ==
  \/ Tick
  \/ \E c \in Controllers : Call(c) \/ Append(c) \/ Crash(c)
  \/ \E a \in Attempts : RunnerReports(a)

Spec == Init /\ [][Next]_vars

-----------------------------------------------------------------------------
(* Properties.                                                             *)

\* An attempt ends once: whatever late, repeated or contradicting events
\* follow (a completion after its lease was lost, a timeout after it was
\* completed), its status and termination stay (_end_attempt).
EndIsFinal ==
  [][\A a \in Attempts :
       fleet.attempts[a] # None /\ ~Running(fleet, a)
         => fleet'.attempts[a] = fleet.attempts[a]]_vars

\* A mission's view of its attempts is the attempts' own: its active ones are
\* those that run, it counts as active exactly while there are any, and a
\* mission that is completed or to be replanned has an attempt that ended so.
MissionTracksAttempts ==
  \A m \in Missions : fleet.missions[m] # None =>
    LET mission == fleet.missions[m]
        ended == {a \in Attempts : /\ fleet.attempts[a] # None /\ ~Running(fleet, a)
                                   /\ fleet.attempts[a].mission = m}
    IN /\ mission.active = {a \in Attempts : Running(fleet, a) /\ fleet.attempts[a].mission = m}
       /\ mission.status = "active" <=> mission.active # {}
       /\ mission.status = "completed" =>
            \E a \in ended : fleet.attempts[a].status = "completed"
       /\ mission.status = "replan_required" =>
            \E a \in ended : fleet.attempts[a].status # "completed"

\* While one controller admits, renews, starts and lets go, no attempt runs on
\* past the loss of its lease: a running attempt's vessel is available under
\* the very lease the attempt was started on.
LostLeaseEndsAttempts ==
  \A a \in Attempts :
    Running(fleet, a) => Holds(fleet, fleet.attempts[a].vessel, fleet.attempts[a].lease)

\* "Admit work only against a currently available vessel lease"
\* (start_attempt, ephemeral.py:193).
StartOnAvailableLease ==
  [][\A a \in Attempts :
       LET n == fleet'.attempts[a]
       IN fleet.attempts[a] = None /\ n # None => Holds(fleet, n.vessel, n.lease)]_vars

=============================================================================
