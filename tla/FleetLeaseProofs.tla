-------------------------- MODULE FleetLeaseProofs --------------------------
(***************************************************************************)
(* FleetLease for every fleet and any number of controllers: the log's     *)
(* view of attempts and missions is sound as soon as one controller alone  *)
(* starts attempts, and no attempt outlives its lease as soon as one alone *)
(* admits, renews, starts and lets go.                                     *)
(***************************************************************************)
EXTENDS FleetLease, TLAPS

\* One controller alone starts attempts.
SoleStarter ==
  \A c, d \in Controllers : "start" \in Offered[c] /\ "start" \in Offered[d] => c = d

\* One controller alone makes every other call than to record timeouts.
SoleWriter ==
  \A c, d \in Controllers :
    Offered[c] \ {"timeout"} # {} /\ Offered[d] \ {"timeout"} # {} => c = d

-----------------------------------------------------------------------------
(* What is true of a fleet, whichever events made it.                      *)

Tracks(f) ==
  \A m \in Missions : f.missions[m] # None =>
    LET mission == f.missions[m]
        ended == {a \in Attempts : /\ f.attempts[a] # None /\ ~Running(f, a)
                                   /\ f.attempts[a].mission = m}
    IN /\ mission.active = {a \in Attempts : Running(f, a) /\ f.attempts[a].mission = m}
       /\ mission.status = "active" <=> mission.active # {}
       /\ mission.status = "completed" => \E a \in ended : f.attempts[a].status = "completed"
       /\ mission.status = "replan_required" =>
            \E a \in ended : f.attempts[a].status # "completed"

Sane(f) ==
  /\ f \in FleetState
  /\ \A a \in Attempts : f.attempts[a] # None => f.missions[f.attempts[a].mission] # None
  /\ Tracks(f)

\* An ended attempt is in g what it is in f.
Kept(f, g) ==
  \A a \in Attempts : f.attempts[a] # None /\ ~Running(f, a) => g.attempts[a] = f.attempts[a]

\* The calls a pending event comes from, and what an attempt to start relies on.
Pending(c, e) ==
  /\ e \in Event
  /\ e.type = "resource_admitted" => "admit" \in Offered[c]
  /\ e.type = "resource_lease_renewed" => "renew" \in Offered[c]
  /\ e.type = "resource_disappeared" => "disappear" \in Offered[c]
  /\ e.type = "work_attempt_started" => "start" \in Offered[c]
  /\ e.type \in {"work_attempt_interrupted", "work_attempt_completed"} => FALSE

StartsUnused(f, e) == e.type = "work_attempt_started" => f.attempts[e.attempt] = None

\* The inductive invariant of a fleet with one starter.
FleetInv ==
  /\ TypeOK /\ Sane(fleet)
  /\ \A c \in Controllers : appending[c] # None =>
       Pending(c, appending[c]) /\ StartsUnused(fleet, appending[c])

\* What a pending event relies on besides, in a fleet with one writer.
Relies(f, e) ==
  /\ e.type = "resource_admitted" =>
       \A a \in Attempts : Running(f, a) => f.attempts[a].vessel # e.vessel
  /\ e.type = "resource_lease_renewed" => Holds(f, e.vessel, e.lease.id)
  /\ e.type = "work_attempt_started" => Holds(f, e.vessel, e.lease)
  /\ e.type = "resource_disappeared" =>
       \A a \in Attempts :
         Running(f, a) /\ f.attempts[a].vessel = e.vessel => a \in e.interrupted

LeaseHeld(f) ==
  \A a \in Attempts : Running(f, a) => Holds(f, f.attempts[a].vessel, f.attempts[a].lease)

\* The inductive invariant of a fleet with one writer.
LeaseInv ==
  /\ FleetInv /\ LeaseHeld(fleet)
  /\ \A c \in Controllers : appending[c] # None => Relies(fleet, appending[c])

-----------------------------------------------------------------------------
(* What the event handlers do to a sound fleet.                            *)

\* Ending an attempt changes its status and termination, nothing else.
LEMMA EndedAttempt ==
  ASSUME NEW t \in WorkAttempt, NEW status \in AttemptStatus,
         NEW why \in AttemptTermination \cup {None}
  PROVE  LET u == Ended(t, status, why)
         IN u \in WorkAttempt /\ u.status = status /\ u.mission = t.mission /\ u # None
<1>1. Ended(t, status, why) \in WorkAttempt
  BY DEF Ended, WorkAttempt
<1>2. /\ Ended(t, status, why).status = status
      /\ Ended(t, status, why).mission = t.mission
  BY DEF Ended, WorkAttempt
<1> QED
  BY <1>1, <1>2, NoneAssumption

\* A fleet with other attempts and missions, whatever these are.
LEMMA FleetExcept ==
  ASSUME NEW V, NEW U, NEW A, NEW M, NEW A2, NEW M2, NEW as \in A2, NEW ms \in M2,
         NEW f \in [vessels: V, unavailable: U, attempts: A, missions: M],
         NEW g, g = [f EXCEPT !.attempts = as, !.missions = ms]
  PROVE  /\ g \in [vessels: V, unavailable: U, attempts: A2, missions: M2]
         /\ g.vessels = f.vessels /\ g.unavailable = f.unavailable
         /\ g.attempts = as /\ g.missions = ms
  OBVIOUS

\* A fleet with other vessels, whatever these are.
LEMMA VesselsExcept ==
  ASSUME NEW V, NEW U, NEW A, NEW M, NEW V2, NEW U2, NEW vs \in V2, NEW us \in U2,
         NEW f \in [vessels: V, unavailable: U, attempts: A, missions: M]
  PROVE  LET g == [f EXCEPT !.vessels = vs, !.unavailable = us]
         IN /\ g \in [vessels: V2, unavailable: U2, attempts: A, missions: M]
            /\ g.vessels = vs /\ g.unavailable = us
            /\ g.attempts = f.attempts /\ g.missions = f.missions
  OBVIOUS

\* What may change where attempts of as end: g is as sound as f, and of f's
\* attempts only running ones of as are different in it.
EndsOnly(f, g, as) ==
  /\ Sane(g) /\ Kept(f, g)
  /\ g.vessels = f.vessels /\ g.unavailable = f.unavailable
  /\ \A a \in Attempts : Running(g, a) =>
       Running(f, a) /\ a \notin as /\ g.attempts[a] = f.attempts[a]
  /\ \A a \in Attempts : f.attempts[a] = None => g.attempts[a] = None

\* _end_attempt leaves vessels and ended attempts alone, starts nothing, and
\* keeps a mission's view of its attempts right.
LEMMA EndSound ==
  ASSUME NEW f, Sane(f), NEW as \in SUBSET Attempts,
         NEW status \in AttemptStatus \ {"running"},
         NEW why \in AttemptTermination \cup {None}
  PROVE  EndsOnly(f, End(f, as, status, why), as)
<1> SUFFICES ASSUME NEW g, g = End(f, as, status, why) PROVE EndsOnly(f, g, as)
  OBVIOUS
<1> DEFINE over == {a \in as : Running(f, a)}
           left(m) == f.missions[m].active \ over
           ended(h, m) == {a \in Attempts : /\ h.attempts[a] # None /\ ~Running(h, a)
                                            /\ h.attempts[a].mission = m}
           touched(m) == \E a \in over : f.attempts[a].mission = m
<1>1. f \in FleetState
  BY DEF Sane
<1> DEFINE as2 == [a \in Attempts |->
                    IF a \in over THEN Ended(f.attempts[a], status, why) ELSE f.attempts[a]]
           ms2 == [m \in Missions |->
                    IF touched(m)
                    THEN [active |-> left(m),
                          status |-> IF left(m) # {} THEN "active"
                                     ELSE IF status = "completed" THEN "completed"
                                     ELSE "replan_required"]
                    ELSE f.missions[m]]
<1>2. /\ g \in [vessels: [Vessels -> Lease \cup {None}], unavailable: SUBSET Vessels,
                attempts: {as2}, missions: {ms2}]
      /\ g.vessels = f.vessels /\ g.unavailable = f.unavailable
      /\ g.attempts = as2 /\ g.missions = ms2
  <2>1. g = [f EXCEPT !.attempts = as2, !.missions = ms2]
    BY DEF End
  <2> HIDE DEF as2, ms2
  <2> QED
    BY <1>1, <2>1, FleetExcept DEF FleetState
<1>3. \A a \in over : /\ f.attempts[a] \in WorkAttempt /\ g.attempts[a] \in WorkAttempt
                      /\ g.attempts[a].status = status /\ f.attempts[a] # None
                      /\ g.attempts[a].mission = f.attempts[a].mission
                      /\ g.attempts[a] # None /\ ~Running(g, a)
  <2> SUFFICES ASSUME NEW a \in over
               PROVE  /\ f.attempts[a] \in WorkAttempt /\ g.attempts[a] \in WorkAttempt
                      /\ g.attempts[a].status = status /\ f.attempts[a] # None
                      /\ g.attempts[a].mission = f.attempts[a].mission
                      /\ g.attempts[a] # None /\ ~Running(g, a)
    OBVIOUS
  <2>1. a \in Attempts /\ f.attempts[a] # None /\ f.attempts[a] \in WorkAttempt
    BY <1>1 DEF FleetState, Running
  <2>2. g.attempts[a] = Ended(f.attempts[a], status, why)
    BY <1>2, <2>1
  <2> QED
    BY <2>1, <2>2, EndedAttempt DEF Running
<1>4. \A a \in Attempts \ over : g.attempts[a] = f.attempts[a] /\ (Running(g, a) <=> Running(f, a))
  BY <1>2 DEF Running
<1>5. ASSUME NEW m \in Missions, touched(m)
      PROVE  /\ f.missions[m] \in MissionRun /\ g.missions[m] \in MissionRun
             /\ f.missions[m] # None /\ g.missions[m] # None
             /\ g.missions[m].active = left(m)
             /\ g.missions[m].status = IF left(m) # {} THEN "active"
                                       ELSE IF status = "completed" THEN "completed"
                                       ELSE "replan_required"
  <2> DEFINE new == IF left(m) # {} THEN "active"
                    ELSE IF status = "completed" THEN "completed" ELSE "replan_required"
  <2>1. f.missions[m] # None
    BY <1>5 DEF Sane, Running
  <2>2. f.missions[m] \in MissionRun
    BY <1>1, <2>1 DEF FleetState
  <2>3. g.missions[m] = [active |-> left(m), status |-> new]
    BY <1>2, <1>5
  <2>4. left(m) \subseteq Attempts
    BY <2>2 DEF MissionRun
  <2>5. new \in MissionRunStatus
    BY DEF MissionRunStatus
  <2> HIDE DEF left, new
  <2>6. g.missions[m] \in MissionRun
    BY <2>3, <2>4, <2>5 DEF MissionRun
  <2>7. g.missions[m].active = left(m) /\ g.missions[m].status = new
    BY <2>3
  <2> QED
    BY <2>1, <2>2, <2>6, <2>7, NoneAssumption DEF new
<1>6. \A m \in Missions : ~touched(m) => g.missions[m] = f.missions[m]
  BY <1>2
<1>7. g \in FleetState
  <2>1. g.attempts \in [Attempts -> WorkAttempt \cup {None}]
    <3>1. \A a \in Attempts : g.attempts[a] \in WorkAttempt \cup {None}
      BY <1>1, <1>3, <1>4 DEF FleetState
    <3>2. DOMAIN g.attempts = Attempts /\ g.attempts = [a \in Attempts |-> g.attempts[a]]
      BY <1>2
    <3> QED
      BY <3>1, <3>2
  <2>2. g.missions \in [Missions -> MissionRun \cup {None}]
    <3>1. \A m \in Missions : g.missions[m] \in MissionRun \cup {None}
      BY <1>1, <1>5, <1>6 DEF FleetState
    <3>2. DOMAIN g.missions = Missions /\ g.missions = [m \in Missions |-> g.missions[m]]
      BY <1>2
    <3> QED
      BY <3>1, <3>2
  <2> QED
    BY <1>1, <1>2, <2>1, <2>2 DEF FleetState
<1>8. \A a \in Attempts : g.attempts[a] # None => g.missions[g.attempts[a].mission] # None
  <2> SUFFICES ASSUME NEW a \in Attempts, g.attempts[a] # None
               PROVE  g.missions[g.attempts[a].mission] # None
    OBVIOUS
  <2>1. g.attempts[a] \in WorkAttempt /\ g.attempts[a].mission \in Missions
    BY <1>7 DEF FleetState, WorkAttempt
  <2>2. f.attempts[a] # None /\ g.attempts[a].mission = f.attempts[a].mission
    BY <1>3, <1>4 DEF Running
  <2>3. f.missions[f.attempts[a].mission] # None
    BY <2>2 DEF Sane
  <2> QED
    BY <1>5, <1>6, <2>1, <2>2, <2>3
<1>9. Tracks(g)
  <2> SUFFICES ASSUME NEW m \in Missions, g.missions[m] # None
               PROVE  /\ g.missions[m].active =
                           {a \in Attempts : Running(g, a) /\ g.attempts[a].mission = m}
                      /\ g.missions[m].status = "active" <=> g.missions[m].active # {}
                      /\ g.missions[m].status = "completed" =>
                           \E a \in ended(g, m) : g.attempts[a].status = "completed"
                      /\ g.missions[m].status = "replan_required" =>
                           \E a \in ended(g, m) : g.attempts[a].status # "completed"
    BY DEF Tracks
  <2>1. f.missions[m] # None
    BY <1>5, <1>6
  <2>2. /\ f.missions[m].active = {a \in Attempts : Running(f, a) /\ f.attempts[a].mission = m}
        /\ f.missions[m].status = "active" <=> f.missions[m].active # {}
        /\ f.missions[m].status = "completed" =>
             \E a \in ended(f, m) : f.attempts[a].status = "completed"
        /\ f.missions[m].status = "replan_required" =>
             \E a \in ended(f, m) : f.attempts[a].status # "completed"
    BY <2>1 DEF Sane, Tracks
  <2>3. \A a \in ended(f, m) : a \in ended(g, m) /\ g.attempts[a] = f.attempts[a]
    BY <1>4
  <2>4. CASE touched(m)
    <3>1. PICK a \in over : f.attempts[a].mission = m
      BY <2>4
    <3>2. a \in ended(g, m) /\ g.attempts[a].status = status
      BY <1>3, <3>1
    <3>3. g.missions[m].active = {b \in Attempts : Running(g, b) /\ g.attempts[b].mission = m}
      <4>1. g.missions[m].active = left(m)
        BY <1>5, <2>4
      <4>2. \A b \in left(m) : b \in Attempts /\ Running(g, b) /\ g.attempts[b].mission = m
        BY <1>4, <2>2
      <4>3. \A b \in Attempts : Running(g, b) /\ g.attempts[b].mission = m => b \in left(m)
        <5> SUFFICES ASSUME NEW b \in Attempts, Running(g, b), g.attempts[b].mission = m
                     PROVE  b \in left(m)
          OBVIOUS
        <5>1. b \notin over
          BY <1>3
        <5>2. Running(f, b) /\ f.attempts[b].mission = m
          BY <1>4, <5>1
        <5> QED
          BY <2>2, <5>1, <5>2
      <4> HIDE DEF left
      <4> QED
        BY <4>1, <4>2, <4>3
    <3> QED
      BY <1>5, <2>4, <3>2, <3>3
  <2>5. CASE ~touched(m)
    <3>1. {b \in Attempts : Running(g, b) /\ g.attempts[b].mission = m}
            = {b \in Attempts : Running(f, b) /\ f.attempts[b].mission = m}
      <4>1. \A b \in Attempts : Running(g, b) /\ g.attempts[b].mission = m <=>
                               Running(f, b) /\ f.attempts[b].mission = m
        BY <1>3, <1>4, <2>5
      <4> QED
        BY <4>1
    <3>2. g.missions[m] = f.missions[m]
      BY <1>6, <2>5
    <3>3. \A s : (\E a \in ended(f, m) : f.attempts[a].status = s)
                 => \E a \in ended(g, m) : g.attempts[a].status = s
      <4> HIDE DEF ended
      <4> QED
        BY <2>3
    <3>4. (\E a \in ended(f, m) : f.attempts[a].status # "completed")
          => \E a \in ended(g, m) : g.attempts[a].status # "completed"
      <4> HIDE DEF ended
      <4> QED
        BY <2>3
    <3> HIDE DEF ended
    <3> QED
      BY <2>2, <3>1, <3>2, <3>3, <3>4
  <2> QED
    BY <2>4, <2>5
<1>10. Sane(g)
  BY <1>7, <1>8, <1>9 DEF Sane
<1>11. Kept(f, g)
  BY <1>4 DEF Kept
<1>12. \A a \in Attempts : Running(g, a) =>
         Running(f, a) /\ a \notin as /\ g.attempts[a] = f.attempts[a]
  BY <1>3, <1>4
<1>13. \A a \in Attempts : f.attempts[a] = None => g.attempts[a] = None
  BY <1>2 DEF Running
<1> QED
  BY <1>2, <1>10, <1>11, <1>12, <1>13 DEF EndsOnly

\* What the log says of attempts and missions does not hang on its vessels.
LEMMA VesselsApart ==
  ASSUME NEW f, Sane(f), NEW g \in FleetState,
         g.attempts = f.attempts, g.missions = f.missions
  PROVE  Sane(g) /\ Kept(f, g) /\ \A a \in Attempts : Running(g, a) <=> Running(f, a)
<1>1. \A a \in Attempts : Running(g, a) <=> Running(f, a)
  BY DEF Running
<1>2. Tracks(g)
  BY <1>1 DEF Tracks, Sane
<1> QED
  BY <1>1, <1>2 DEF Sane, Kept

\* An admission makes the vessel available under the new lease.
LEMMA AdmitSound ==
  ASSUME NEW f, Sane(f), NEW e, e.vessel \in Vessels, e.lease \in Lease
  PROVE  LET g == ApplyAdmitted(f, e)
         IN /\ Sane(g) /\ Kept(f, g) /\ g.attempts = f.attempts
            /\ g.unavailable = f.unavailable \ {e.vessel}
            /\ g.vessels = [f.vessels EXCEPT ![e.vessel] = e.lease]
<1> DEFINE vs == [f.vessels EXCEPT ![e.vessel] = e.lease]
           us == f.unavailable \ {e.vessel}
           g == ApplyAdmitted(f, e)
<1>1. f \in FleetState
  BY DEF Sane
<1>2. g = [f EXCEPT !.vessels = vs, !.unavailable = us]
  BY DEF ApplyAdmitted
<1>3. vs \in [Vessels -> Lease \cup {None}] /\ us \in SUBSET Vessels
  BY <1>1 DEF FleetState
<1> HIDE DEF g, vs, us
<1>4. /\ g \in FleetState /\ g.vessels = vs /\ g.unavailable = us
      /\ g.attempts = f.attempts /\ g.missions = f.missions
  BY <1>1, <1>2, <1>3, VesselsExcept DEF FleetState
<1> QED
  BY <1>4, VesselsApart DEF g, vs, us

\* A renewal changes nothing but the lease of a vessel that is known.
LEMMA RenewSound ==
  ASSUME NEW f, Sane(f), NEW e, e.vessel \in Vessels, e.lease \in Lease
  PROVE  LET g == ApplyRenewed(f, e)
         IN /\ Sane(g) /\ Kept(f, g) /\ g.attempts = f.attempts
            /\ g.unavailable = f.unavailable
            /\ g.vessels = IF f.vessels[e.vessel] = None THEN f.vessels
                           ELSE [f.vessels EXCEPT ![e.vessel] = e.lease]
<1> DEFINE vs == [f.vessels EXCEPT ![e.vessel] = e.lease]
           g == [f EXCEPT !.vessels = vs]
<1>1. f \in FleetState
  BY DEF Sane
<1>2. CASE f.vessels[e.vessel] = None
  BY <1>1, <1>2, VesselsApart DEF ApplyRenewed
<1>3. CASE f.vessels[e.vessel] # None
  <2>1. ApplyRenewed(f, e) = g
    BY <1>3 DEF ApplyRenewed
  <2>2. vs \in [Vessels -> Lease \cup {None}]
    BY <1>1 DEF FleetState
  <2> HIDE DEF vs
  <2>3. /\ g \in FleetState /\ g.vessels = vs /\ g.unavailable = f.unavailable
        /\ g.attempts = f.attempts /\ g.missions = f.missions
    BY <1>1, <2>2 DEF FleetState
  <2> HIDE DEF g
  <2> QED
    BY <1>3, <2>1, <2>3, VesselsApart DEF vs
<1> QED
  BY <1>2, <1>3

\* A vessel that disappears is unavailable before its attempts end.
LEMMA UnavailableSound ==
  ASSUME NEW f, Sane(f), NEW v \in Vessels
  PROVE  LET g == [f EXCEPT !.unavailable = @ \cup {v}]
         IN /\ Sane(g) /\ g.attempts = f.attempts /\ g.vessels = f.vessels
            /\ g.unavailable = f.unavailable \cup {v}
<1> DEFINE us == f.unavailable \cup {v}
           g == [f EXCEPT !.unavailable = us]
<1>1. f \in FleetState
  BY DEF Sane
<1>2. us \in SUBSET Vessels
  BY <1>1 DEF FleetState
<1> HIDE DEF us
<1>3. /\ g \in FleetState /\ g.vessels = f.vessels /\ g.unavailable = us
      /\ g.attempts = f.attempts /\ g.missions = f.missions
  BY <1>1, <1>2 DEF FleetState
<1> HIDE DEF g
<1>4. Sane(g)
  BY <1>3, VesselsApart
<1> QED
  BY <1>3, <1>4 DEF g, us

\* An attempt whose id is new starts running under the vessel's lease, and its
\* mission is active with it.
LEMMA StartSound ==
  ASSUME NEW f, Sane(f), NEW e,
         e.attempt \in Attempts, e.mission \in Missions, e.vessel \in Vessels,
         e.lease \in LeaseIds, f.attempts[e.attempt] = None
  PROVE  LET g == ApplyStarted(f, e)
         IN /\ Sane(g) /\ Kept(f, g)
            /\ g.vessels = f.vessels /\ g.unavailable = f.unavailable
            /\ g.attempts[e.attempt].vessel = e.vessel /\ g.attempts[e.attempt].lease = e.lease
            /\ \A a \in Attempts \ {e.attempt} : g.attempts[a] = f.attempts[a]
<1> DEFINE g == ApplyStarted(f, e)
           a0 == e.attempt
           m0 == e.mission
           new == [mission |-> m0, vessel |-> e.vessel, lease |-> e.lease,
                   status |-> "running", termination |-> None]
           listed == IF f.missions[m0] = None THEN {} ELSE f.missions[m0].active
           mission == [status |-> "active", active |-> listed \cup {a0}]
           as == [f.attempts EXCEPT ![a0] = new]
           ms == [f.missions EXCEPT ![m0] = mission]
<1>1. f \in FleetState
  BY DEF Sane
<1>2. g = [f EXCEPT !.attempts = as, !.missions = ms]
  BY DEF ApplyStarted
<1>3. new \in WorkAttempt /\ new # None
  BY NoneAssumption DEF WorkAttempt, AttemptStatus
<1>4. /\ listed \subseteq Attempts /\ mission \in MissionRun /\ mission # None
      /\ mission.status = "active" /\ mission.active = listed \cup {a0}
  <2>1. f.missions[m0] # None => f.missions[m0] \in MissionRun
    BY <1>1 DEF FleetState
  <2>2. listed \subseteq Attempts
    BY <2>1 DEF MissionRun
  <2> HIDE DEF listed
  <2>3. mission \in MissionRun
    BY <2>2 DEF MissionRun, MissionRunStatus
  <2> QED
    BY <2>2, <2>3, NoneAssumption
<1>5. new.mission = m0 /\ new.status = "running" /\ new.vessel = e.vessel /\ new.lease = e.lease
  OBVIOUS
<1> HIDE DEF new, mission
<1>6. as \in [Attempts -> WorkAttempt \cup {None}] /\ ms \in [Missions -> MissionRun \cup {None}]
  BY <1>1, <1>3, <1>4 DEF FleetState
<1>7. /\ as[a0] = new /\ \A a \in Attempts \ {a0} : as[a] = f.attempts[a]
      /\ ms[m0] = mission /\ \A m \in Missions \ {m0} : ms[m] = f.missions[m]
  BY <1>1 DEF FleetState
<1> HIDE DEF g, as, ms
<1>8. /\ g \in FleetState /\ g.vessels = f.vessels /\ g.unavailable = f.unavailable
      /\ g.attempts = as /\ g.missions = ms
  BY <1>1, <1>2, <1>6, FleetExcept DEF FleetState
<1>9. Running(g, a0) /\ ~Running(f, a0)
  BY <1>3, <1>5, <1>7, <1>8 DEF Running
<1>10. \A a \in Attempts \ {a0} : Running(g, a) <=> Running(f, a)
  BY <1>7, <1>8 DEF Running
<1>11. \A a \in Attempts : g.attempts[a] # None => g.missions[g.attempts[a].mission] # None
  <2> SUFFICES ASSUME NEW a \in Attempts, g.attempts[a] # None
               PROVE  g.missions[g.attempts[a].mission] # None
    OBVIOUS
  <2>1. g.attempts[a].mission \in Missions
    BY <1>8 DEF FleetState, WorkAttempt
  <2>2. g.attempts[a].mission # m0 => f.missions[g.attempts[a].mission] # None
    BY <1>5, <1>7, <1>8 DEF Sane
  <2> QED
    BY <1>4, <1>7, <1>8, <2>1, <2>2
<1>12. Tracks(g)
  <2> DEFINE ended(h, m) == {a \in Attempts : /\ h.attempts[a] # None /\ ~Running(h, a)
                                              /\ h.attempts[a].mission = m}
             active(h, m) == {a \in Attempts : Running(h, a) /\ h.attempts[a].mission = m}
  <2> SUFFICES ASSUME NEW m \in Missions, g.missions[m] # None
               PROVE  /\ g.missions[m].active = active(g, m)
                      /\ g.missions[m].status = "active" <=> g.missions[m].active # {}
                      /\ g.missions[m].status = "completed" =>
                           \E a \in ended(g, m) : g.attempts[a].status = "completed"
                      /\ g.missions[m].status = "replan_required" =>
                           \E a \in ended(g, m) : g.attempts[a].status # "completed"
    BY DEF Tracks
  <2>1. CASE m = m0
    <3>1. listed = active(f, m0)
      <4>1. CASE f.missions[m0] = None
        BY <4>1 DEF Sane, Running
      <4>2. CASE f.missions[m0] # None
        BY <4>2 DEF Sane, Tracks
      <4> QED
        BY <4>1, <4>2
    <3>2. active(g, m0) = active(f, m0) \cup {a0}
      <4>1. a0 \in active(g, m0)
        BY <1>5, <1>7, <1>8, <1>9
      <4>2. \A a \in Attempts \ {a0} : a \in active(g, m0) <=> a \in active(f, m0)
        BY <1>7, <1>8, <1>10
      <4>3. a0 \in Attempts /\ active(f, m0) \subseteq Attempts /\ active(g, m0) \subseteq Attempts
        OBVIOUS
      <4> HIDE DEF active
      <4> QED
        BY <4>1, <4>2, <4>3
    <3> QED
      BY <1>4, <1>7, <1>8, <2>1, <3>1, <3>2
  <2>2. CASE m # m0
    <3>1. g.missions[m] = f.missions[m]
      BY <1>7, <1>8, <2>2
    <3>2. active(g, m) = active(f, m)
      <4>1. a0 \notin active(g, m) /\ a0 \notin active(f, m)
        BY <1>5, <1>7, <1>8, <1>9, <2>2
      <4>2. \A a \in Attempts \ {a0} : a \in active(g, m) <=> a \in active(f, m)
        BY <1>7, <1>8, <1>10
      <4>3. active(f, m) \subseteq Attempts /\ active(g, m) \subseteq Attempts
        OBVIOUS
      <4> HIDE DEF active
      <4> QED
        BY <4>1, <4>2, <4>3
    <3>3. \A a \in ended(f, m) : a \in ended(g, m) /\ g.attempts[a] = f.attempts[a]
      BY <1>7, <1>8, <1>10
    <3>4. /\ f.missions[m].active = active(f, m)
          /\ f.missions[m].status = "active" <=> f.missions[m].active # {}
          /\ f.missions[m].status = "completed" =>
               \E a \in ended(f, m) : f.attempts[a].status = "completed"
          /\ f.missions[m].status = "replan_required" =>
               \E a \in ended(f, m) : f.attempts[a].status # "completed"
      BY <3>1 DEF Sane, Tracks
    <3> QED
      BY <3>1, <3>2, <3>3, <3>4
  <2> QED
    BY <2>1, <2>2
<1>13. Kept(f, g)
  BY <1>7, <1>8 DEF Kept
<1> QED
  BY <1>5, <1>7, <1>8, <1>11, <1>12, <1>13 DEF Sane, g

\* A vessel that disappears becomes unavailable, and takes its interrupted
\* attempts along.
LEMMA DisappearSound ==
  ASSUME NEW f, Sane(f), NEW e, e.vessel \in Vessels, e.interrupted \in SUBSET Attempts,
         e.reason \in AttemptTermination \cup {None}
  PROVE  LET g == ApplyDisappeared(f, e)
         IN /\ Sane(g) /\ Kept(f, g)
            /\ g.vessels = f.vessels /\ g.unavailable = f.unavailable \cup {e.vessel}
            /\ \A a \in Attempts : Running(g, a) =>
                 Running(f, a) /\ a \notin e.interrupted /\ g.attempts[a] = f.attempts[a]
            /\ \A a \in Attempts : f.attempts[a] = None => g.attempts[a] = None
<1> DEFINE f2 == [f EXCEPT !.unavailable = @ \cup {e.vessel}]
           g == ApplyDisappeared(f, e)
<1>1. g = End(f2, e.interrupted, "inconclusive", e.reason)
  BY DEF ApplyDisappeared
<1>2. /\ Sane(f2) /\ f2.attempts = f.attempts /\ f2.vessels = f.vessels
      /\ f2.unavailable = f.unavailable \cup {e.vessel}
  BY UnavailableSound
<1> HIDE DEF f2
<1>3. "inconclusive" \in AttemptStatus \ {"running"}
  BY DEF AttemptStatus
<1>4. EndsOnly(f2, End(f2, e.interrupted, "inconclusive", e.reason), e.interrupted)
  BY <1>2, <1>3, EndSound
<1>5. EndsOnly(f2, g, e.interrupted)
  BY <1>1, <1>4
<1> HIDE DEF g
<1>6. /\ Sane(g) /\ Kept(f, g)
      /\ g.vessels = f.vessels /\ g.unavailable = f.unavailable \cup {e.vessel}
      /\ \A a \in Attempts : Running(g, a) =>
           Running(f, a) /\ a \notin e.interrupted /\ g.attempts[a] = f.attempts[a]
      /\ \A a \in Attempts : f.attempts[a] = None => g.attempts[a] = None
  BY <1>2, <1>5 DEF EndsOnly, Kept, Running
<1> QED
  BY <1>6 DEF g

\* An event that ends one attempt does nothing else.
LEMMA EndEventSound ==
  ASSUME NEW f, Sane(f), NEW e \in Event,
         e.type \in {"work_attempt_interrupted", "work_attempt_timed_out",
                    "work_attempt_completed"}
  PROVE  EndsOnly(f, Apply(f, e), {e.attempt})
<1>1. PICK status \in AttemptStatus \ {"running"}, why \in AttemptTermination \cup {None} :
        Apply(f, e) = End(f, {e.attempt}, status, why)
  <2>1. CASE e.type = "work_attempt_interrupted"
    BY <2>1 DEF Apply, Event, AttemptStatus, AttemptTermination
  <2>2. CASE e.type = "work_attempt_timed_out"
    BY <2>2 DEF Apply, AttemptStatus, AttemptTermination
  <2>3. CASE e.type = "work_attempt_completed"
    BY <2>3 DEF Apply, AttemptStatus
  <2> QED
    BY <2>1, <2>2, <2>3
<1>2. {e.attempt} \in SUBSET Attempts
  BY DEF Event
<1>3. EndsOnly(f, End(f, {e.attempt}, status, why), {e.attempt})
  BY <1>2, EndSound
<1>4. EndsOnly(f, Apply(f, e), {e.attempt})
  BY <1>1, <1>3
<1> QED
  BY <1>4

\* Whatever event is appended, the fleet stays sound, ended attempts keep
\* their end, and no attempt appears but the one that is started.
LEMMA ApplySound ==
  ASSUME NEW f, Sane(f), NEW e \in Event, StartsUnused(f, e)
  PROVE  LET g == Apply(f, e)
         IN /\ Sane(g) /\ Kept(f, g)
            /\ \A a \in Attempts :
                 /\ f.attempts[a] = None
                 /\ e.type = "work_attempt_started" => a # e.attempt
                 => g.attempts[a] = None
<1>1. CASE e.type = "resource_admitted"
  <2>1. Apply(f, e) = ApplyAdmitted(f, e)
    BY <1>1 DEF Apply
  <2>2. e.vessel \in Vessels /\ e.lease \in Lease
    BY <1>1 DEF Event
  <2>3. Sane(ApplyAdmitted(f, e)) /\ Kept(f, ApplyAdmitted(f, e))
        /\ ApplyAdmitted(f, e).attempts = f.attempts
    BY <2>2, AdmitSound
  <2> QED
    BY <2>1, <2>3
<1>2. CASE e.type = "resource_lease_renewed"
  <2>1. Apply(f, e) = ApplyRenewed(f, e)
    BY <1>2 DEF Apply
  <2>2. e.vessel \in Vessels /\ e.lease \in Lease
    BY <1>2 DEF Event
  <2>3. Sane(ApplyRenewed(f, e)) /\ Kept(f, ApplyRenewed(f, e))
        /\ ApplyRenewed(f, e).attempts = f.attempts
    BY <2>2, RenewSound
  <2> QED
    BY <2>1, <2>3
<1>3. CASE e.type = "resource_disappeared"
  <2>1. Apply(f, e) = ApplyDisappeared(f, e)
    BY <1>3 DEF Apply
  <2>2. /\ e.vessel \in Vessels /\ e.interrupted \in SUBSET Attempts
        /\ e.reason \in AttemptTermination \cup {None}
    BY <1>3 DEF Event, AttemptTermination
  <2>3. /\ Sane(ApplyDisappeared(f, e)) /\ Kept(f, ApplyDisappeared(f, e))
        /\ \A a \in Attempts :
             f.attempts[a] = None => ApplyDisappeared(f, e).attempts[a] = None
    BY <2>2, DisappearSound
  <2> QED
    BY <2>1, <2>3
<1>4. CASE e.type = "work_attempt_started"
  <2>1. Apply(f, e) = ApplyStarted(f, e)
    BY <1>4 DEF Apply
  <2>2. /\ e.attempt \in Attempts /\ e.mission \in Missions
        /\ e.vessel \in Vessels /\ e.lease \in LeaseIds
    BY <1>4 DEF Event
  <2>3. f.attempts[e.attempt] = None
    BY <1>4 DEF StartsUnused
  <2>4. /\ Sane(ApplyStarted(f, e)) /\ Kept(f, ApplyStarted(f, e))
        /\ \A a \in Attempts \ {e.attempt} : ApplyStarted(f, e).attempts[a] = f.attempts[a]
    BY <2>2, <2>3, StartSound
  <2> QED
    BY <1>4, <2>1, <2>4
<1>5. CASE e.type \in {"work_attempt_interrupted", "work_attempt_timed_out",
                       "work_attempt_completed"}
  BY <1>5, EndEventSound DEF EndsOnly
<1> QED
  BY <1>1, <1>2, <1>3, <1>4, <1>5 DEF Event

-----------------------------------------------------------------------------
(* One starter.                                                            *)

\* Every call decides on an event it may append, and starts only an attempt
\* whose id the log does not know.
LEMMA CallDecides ==
  ASSUME FleetInv, NEW c \in Controllers, Call(c)
  PROVE  \E call, e : Decide(c, call, e) /\ Pending(c, e) /\ StartsUnused(fleet, e)
<1>1. fleet \in FleetState /\ clock \in Nat /\ MaxClock \in Nat
  BY MaxClockAssumption DEF FleetInv, TypeOK
<1>2. ASSUME NEW v \in Vessels, NEW l \in Offers, Admit(c, v, l)
      PROVE  \E call, e : Decide(c, call, e) /\ Pending(c, e) /\ StartsUnused(fleet, e)
  <2> DEFINE e == [type |-> "resource_admitted", vessel |-> v, lease |-> l]
  <2>1. Decide(c, "admit", e)
    BY <1>2 DEF Admit
  <2>2. e \in Event /\ e.type = "resource_admitted"
    BY OffersAssumption DEF Event
  <2> HIDE DEF e
  <2> QED
    BY <2>1, <2>2 DEF Decide, Pending, StartsUnused
<1>3. ASSUME NEW v \in Vessels, NEW id \in LeaseIds, NEW end \in 1..MaxClock + 1,
             Renew(c, v, id, end)
      PROVE  \E call, e : Decide(c, call, e) /\ Pending(c, e) /\ StartsUnused(fleet, e)
  <2> DEFINE lease == [fleet.vessels[v] EXCEPT !.expires = end]
             e == [type |-> "resource_lease_renewed", vessel |-> v, lease |-> lease]
  <2>1. Decide(c, "renew", e)
    BY <1>3 DEF Renew
  <2>2. fleet.vessels[v] \in Lease
    BY <1>1, <1>3 DEF Renew, Holds, FleetState
  <2>3. lease \in Lease
    BY <1>1, <2>2 DEF Lease
  <2> HIDE DEF lease
  <2>4. e \in Event /\ e.type = "resource_lease_renewed"
    BY <2>3 DEF Event
  <2> HIDE DEF e
  <2> QED
    BY <2>1, <2>4 DEF Decide, Pending, StartsUnused
<1>4. ASSUME NEW a \in Attempts, NEW m \in Missions, NEW v \in Vessels, NEW id \in LeaseIds,
             StartAttempt(c, a, m, v, id)
      PROVE  \E call, e : Decide(c, call, e) /\ Pending(c, e) /\ StartsUnused(fleet, e)
  <2> DEFINE e == [type |-> "work_attempt_started", attempt |-> a,
                   mission |-> m, vessel |-> v, lease |-> id]
  <2>1. Decide(c, "start", e) /\ fleet.attempts[a] = None
    BY <1>4 DEF StartAttempt
  <2>2. e \in Event /\ e.type = "work_attempt_started" /\ e.attempt = a
    BY DEF Event
  <2> HIDE DEF e
  <2> QED
    BY <2>1, <2>2 DEF Decide, Pending, StartsUnused
<1>5. ASSUME NEW v \in Vessels, NEW id \in LeaseIds,
             NEW reason \in {"lease_lost", "runner_interrupted"}, Disappear(c, v, id, reason)
      PROVE  \E call, e : Decide(c, call, e) /\ Pending(c, e) /\ StartsUnused(fleet, e)
  <2> DEFINE e == [type |-> "resource_disappeared", vessel |-> v,
                   reason |-> reason, interrupted |-> Interrupted(v, id)]
  <2>1. Decide(c, "disappear", e)
    BY <1>5 DEF Disappear
  <2>2. Interrupted(v, id) \subseteq Attempts
    BY DEF Interrupted
  <2>3. e \in Event /\ e.type = "resource_disappeared"
    BY <2>2 DEF Event
  <2> HIDE DEF e
  <2> QED
    BY <2>1, <2>3 DEF Decide, Pending, StartsUnused
<1>6. ASSUME NEW a \in Attempts, RecordExecutionTimeout(c, a)
      PROVE  \E call, e : Decide(c, call, e) /\ Pending(c, e) /\ StartsUnused(fleet, e)
  <2> DEFINE e == [type |-> "work_attempt_timed_out", attempt |-> a]
  <2>1. Decide(c, "timeout", e)
    BY <1>6 DEF RecordExecutionTimeout
  <2>2. e \in Event /\ e.type = "work_attempt_timed_out"
    BY DEF Event
  <2> HIDE DEF e
  <2> QED
    BY <2>1, <2>2 DEF Decide, Pending, StartsUnused
<1> QED
  BY <1>2, <1>3, <1>4, <1>5, <1>6 DEF Call

\* Every step keeps the fleet sound, and every attempt that has ended as it is.
LEMMA FleetStep ==
  ASSUME SoleStarter, FleetInv, [Next]_vars
  PROVE  FleetInv' /\ Kept(fleet, fleet')
<1> USE DEF FleetInv
<1>1. ASSUME UNCHANGED fleet, clock' \in 0..MaxClock,
             \A c \in Controllers : appending'[c] # None =>
               Pending(c, appending'[c]) /\ StartsUnused(fleet, appending'[c]),
             appending' \in [Controllers -> Event \cup {None}]
      PROVE  FleetInv' /\ Kept(fleet, fleet')
  BY <1>1 DEF TypeOK, Kept, Pending, StartsUnused, Sane, Tracks, Running
<1>2. ASSUME NEW c \in Controllers, Append(c)
      PROVE  FleetInv' /\ Kept(fleet, fleet')
  <2> DEFINE e == appending[c]
  <2>1. /\ e \in Event /\ Pending(c, e) /\ StartsUnused(fleet, e) /\ Sane(fleet)
        /\ fleet' = Apply(fleet, e) /\ clock' = clock
        /\ appending' = [appending EXCEPT ![c] = None]
    BY <1>2 DEF Append, TypeOK
  <2> HIDE DEF e
  <2>2. /\ Sane(Apply(fleet, e)) /\ Kept(fleet, Apply(fleet, e))
        /\ \A a \in Attempts :
             /\ fleet.attempts[a] = None
             /\ e.type = "work_attempt_started" => a # e.attempt
             => Apply(fleet, e).attempts[a] = None
    BY <2>1, ApplySound
  <2>3. /\ Sane(fleet') /\ Kept(fleet, fleet')
        /\ \A a \in Attempts :
             /\ fleet.attempts[a] = None
             /\ e.type = "work_attempt_started" => a # e.attempt
             => fleet'.attempts[a] = None
    BY <2>1, <2>2
  <2>4. ASSUME NEW d \in Controllers, appending'[d] # None
        PROVE  Pending(d, appending'[d]) /\ StartsUnused(fleet', appending'[d])
    <3>1. d # c /\ appending'[d] = appending[d] /\ appending[d] # None
      BY <2>1, <2>4 DEF TypeOK
    <3>2. Pending(d, appending[d]) /\ StartsUnused(fleet, appending[d]) /\ appending[d] \in Event
      BY <3>1 DEF TypeOK
    <3>3. CASE appending[d].type = "work_attempt_started"
      <4>1. appending[d].attempt \in Attempts /\ fleet.attempts[appending[d].attempt] = None
        BY <3>2, <3>3 DEF StartsUnused, Event
      <4>2. e.type # "work_attempt_started"
        BY <2>1, <3>1, <3>2, <3>3 DEF SoleStarter, Pending
      <4> QED
        BY <2>3, <3>1, <3>2, <4>1, <4>2 DEF StartsUnused
    <3>4. CASE appending[d].type # "work_attempt_started"
      BY <3>1, <3>2, <3>4 DEF StartsUnused
    <3> QED
      BY <3>3, <3>4
  <2>5. TypeOK'
    BY <2>1, <2>3 DEF TypeOK, Sane
  <2> QED
    BY <2>3, <2>4, <2>5
<1>3. ASSUME NEW a \in Attempts, RunnerReports(a)
      PROVE  FleetInv' /\ Kept(fleet, fleet')
  <2>1. PICK e \in Event : fleet' = Apply(fleet, e) /\ e.type # "work_attempt_started"
    <3>1. CASE fleet' = Apply(fleet, [type |-> "work_attempt_completed", attempt |-> a])
      <4>1. [type |-> "work_attempt_completed", attempt |-> a] \in Event
        BY DEF Event
      <4> QED
        BY <3>1, <4>1
    <3>2. ASSUME NEW reason \in {"lease_lost", "runner_interrupted"},
                 fleet' = Apply(fleet, [type |-> "work_attempt_interrupted", attempt |-> a,
                                        reason |-> reason])
          PROVE  \E e \in Event : fleet' = Apply(fleet, e) /\ e.type # "work_attempt_started"
      <4>1. [type |-> "work_attempt_interrupted", attempt |-> a, reason |-> reason] \in Event
        BY DEF Event
      <4> QED
        BY <3>2, <4>1
    <3> QED
      BY <1>3, <3>1, <3>2 DEF RunnerReports
  <2>2. UNCHANGED <<clock, appending>>
    BY <1>3 DEF RunnerReports
  <2>3. /\ Sane(Apply(fleet, e)) /\ Kept(fleet, Apply(fleet, e))
        /\ \A b \in Attempts : fleet.attempts[b] = None => Apply(fleet, e).attempts[b] = None
    BY <2>1, ApplySound DEF StartsUnused
  <2>4. /\ Sane(fleet') /\ Kept(fleet, fleet')
        /\ \A b \in Attempts : fleet.attempts[b] = None => fleet'.attempts[b] = None
    BY <2>1, <2>3
  <2>5. ASSUME NEW d \in Controllers, appending[d] # None
        PROVE  Pending(d, appending[d]) /\ StartsUnused(fleet', appending[d])
    <3>1. /\ Pending(d, appending[d]) /\ StartsUnused(fleet, appending[d])
          /\ appending[d].type = "work_attempt_started" => appending[d].attempt \in Attempts
      BY <2>5 DEF TypeOK, Event
    <3> QED
      BY <2>4, <3>1 DEF StartsUnused
  <2>6. TypeOK'
    BY <2>2, <2>4 DEF TypeOK, Sane
  <2> QED
    BY <2>2, <2>4, <2>5, <2>6
<1>4. ASSUME NEW c \in Controllers, NEW call, NEW e, Decide(c, call, e),
             Pending(c, e), StartsUnused(fleet, e)
      PROVE  FleetInv' /\ Kept(fleet, fleet')
  <2>1. /\ appending' = [appending EXCEPT ![c] = e] /\ UNCHANGED <<clock, fleet>>
        /\ e \in Event
    BY <1>4 DEF Decide, Pending
  <2>2. appending' \in [Controllers -> Event \cup {None}]
    BY <2>1 DEF TypeOK
  <2>3. \A d \in Controllers : appending'[d] = IF d = c THEN e ELSE appending[d]
    BY <2>1 DEF TypeOK
  <2>4. clock' \in 0..MaxClock
    BY <2>1 DEF TypeOK
  <2> QED
    BY <1>1, <1>4, <2>1, <2>2, <2>3, <2>4
<1>5. ASSUME NEW c \in Controllers, Call(c)
      PROVE  \E call, e : Decide(c, call, e) /\ Pending(c, e) /\ StartsUnused(fleet, e)
  BY <1>5, CallDecides
<1>6. ASSUME NEW c \in Controllers, Crash(c)
      PROVE  FleetInv' /\ Kept(fleet, fleet')
  <2>1. appending' = [appending EXCEPT ![c] = None] /\ UNCHANGED <<clock, fleet>>
    BY <1>6 DEF Crash
  <2>2. appending' \in [Controllers -> Event \cup {None}] /\ clock' \in 0..MaxClock
    BY <2>1 DEF TypeOK
  <2>3. \A d \in Controllers : appending'[d] = IF d = c THEN None ELSE appending[d]
    BY <2>1 DEF TypeOK
  <2> QED
    BY <1>1, <2>1, <2>2, <2>3
<1>7. ASSUME Tick PROVE FleetInv' /\ Kept(fleet, fleet')
  <2>1. clock' \in 0..MaxClock /\ UNCHANGED <<fleet, appending>>
    BY <1>7, MaxClockAssumption DEF Tick, TypeOK
  <2>2. appending' \in [Controllers -> Event \cup {None}]
    BY <2>1 DEF TypeOK
  <2> QED
    BY <1>1, <2>1, <2>2
<1>8. ASSUME UNCHANGED vars PROVE FleetInv' /\ Kept(fleet, fleet')
  <2>1. UNCHANGED <<clock, fleet, appending>>
    BY <1>8 DEF vars
  <2>2. appending' \in [Controllers -> Event \cup {None}] /\ clock' \in 0..MaxClock
    BY <2>1 DEF TypeOK
  <2> QED
    BY <1>1, <2>1, <2>2
<1> QED
  BY <1>2, <1>3, <1>4, <1>5, <1>6, <1>7, <1>8 DEF Next

\* The empty log.
LEMMA FleetInit == Init => FleetInv
<1> SUFFICES ASSUME Init PROVE FleetInv
  OBVIOUS
<1>1. fleet \in FleetState
  BY DEF Init, FleetState
<1>2. Sane(fleet)
  BY <1>1 DEF Init, Sane, Tracks
<1>3. TypeOK
  BY <1>1, MaxClockAssumption DEF Init, TypeOK
<1> QED
  BY <1>2, <1>3 DEF Init, FleetInv

\* Type correctness, for any number of controllers of which one starts
\* attempts.
THEOREM FleetTypeCorrect == SoleStarter => (Spec => []TypeOK)
<1> SUFFICES ASSUME SoleStarter PROVE Spec => []TypeOK
  OBVIOUS
<1>1. Init => FleetInv
  BY FleetInit
<1>2. FleetInv /\ [Next]_vars => FleetInv'
  BY FleetStep
<1>3. FleetInv => TypeOK
  BY DEF FleetInv
<1> QED
  BY <1>1, <1>2, <1>3, PTL DEF Spec

\* An attempt ends once, whatever is appended late, twice or in contradiction,
\* as long as one controller alone starts attempts.
THEOREM AttemptEndsOnce == SoleStarter => (Spec => EndIsFinal)
<1> SUFFICES ASSUME SoleStarter PROVE Spec => EndIsFinal
  OBVIOUS
<1>1. Init => FleetInv
  BY FleetInit
<1>2. FleetInv /\ [Next]_vars => FleetInv'
  BY FleetStep
<1>3. FleetInv /\ [Next]_vars =>
        [\A a \in Attempts :
           fleet.attempts[a] # None /\ ~Running(fleet, a)
             => fleet'.attempts[a] = fleet.attempts[a]]_vars
  BY FleetStep DEF Kept
<1> QED
  BY <1>1, <1>2, <1>3, PTL DEF Spec, EndIsFinal

\* Missions follow their attempts, as long as one controller alone starts
\* attempts.
THEOREM MissionsTracked == SoleStarter => (Spec => []MissionTracksAttempts)
<1> SUFFICES ASSUME SoleStarter PROVE Spec => []MissionTracksAttempts
  OBVIOUS
<1>1. Init => FleetInv
  BY FleetInit
<1>2. FleetInv /\ [Next]_vars => FleetInv'
  BY FleetStep
<1>3. FleetInv => MissionTracksAttempts
  BY DEF FleetInv, Sane, Tracks, MissionTracksAttempts
<1> QED
  BY <1>1, <1>2, <1>3, PTL DEF Spec

-----------------------------------------------------------------------------
(* One writer.                                                             *)

\* An attempt's end takes no lease from another one, and nothing that a
\* pending event relies on.
LEMMA EndHeld ==
  ASSUME NEW f, LeaseHeld(f), NEW g, NEW as, EndsOnly(f, g, as)
  PROVE  LeaseHeld(g) /\ \A e : Relies(f, e) => Relies(g, e)
<1>1. \A v, id : Holds(f, v, id) <=> Holds(g, v, id)
  BY DEF EndsOnly, Holds
<1>2. LeaseHeld(g)
  BY <1>1 DEF EndsOnly, LeaseHeld
<1>3. ASSUME NEW e, Relies(f, e) PROVE Relies(g, e)
  BY <1>1, <1>3 DEF EndsOnly, Relies
<1> QED
  BY <1>2, <1>3

\* An event that finds what it relies on leaves every attempt its lease.
LEMMA ApplyHeld ==
  ASSUME NEW f, Sane(f), LeaseHeld(f), NEW e \in Event, StartsUnused(f, e), Relies(f, e)
  PROVE  LeaseHeld(Apply(f, e))
<1> DEFINE g == Apply(f, e)
<1>0. f \in FleetState
  BY DEF Sane
<1>1. CASE e.type = "resource_admitted"
  <2>1. g = ApplyAdmitted(f, e) /\ e.vessel \in Vessels /\ e.lease \in Lease
    BY <1>1 DEF Apply, Event
  <2> HIDE DEF g
  <2>2. /\ g.attempts = f.attempts /\ g.unavailable = f.unavailable \ {e.vessel}
        /\ g.vessels = [f.vessels EXCEPT ![e.vessel] = e.lease]
    BY <2>1, AdmitSound
  <2>3. ASSUME NEW a \in Attempts, Running(g, a)
        PROVE  Holds(g, g.attempts[a].vessel, g.attempts[a].lease)
    <3>1. Running(f, a) /\ g.attempts[a] = f.attempts[a]
      BY <2>2, <2>3 DEF Running
    <3>2. /\ f.attempts[a].vessel # e.vessel
          /\ Holds(f, f.attempts[a].vessel, f.attempts[a].lease)
      BY <1>1, <3>1 DEF Relies, LeaseHeld
    <3>3. f.attempts[a].vessel \in Vessels /\ f.vessels \in [Vessels -> Lease \cup {None}]
      BY <1>0, <3>1 DEF FleetState, WorkAttempt, Running
    <3> QED
      BY <2>1, <2>2, <3>1, <3>2, <3>3 DEF Holds
  <2> QED
    BY <2>3 DEF LeaseHeld, g
<1>2. CASE e.type = "resource_lease_renewed"
  <2>1. g = ApplyRenewed(f, e) /\ e.vessel \in Vessels /\ e.lease \in Lease
    BY <1>2 DEF Apply, Event
  <2> HIDE DEF g
  <2>2. /\ g.attempts = f.attempts /\ g.unavailable = f.unavailable
        /\ g.vessels = IF f.vessels[e.vessel] = None THEN f.vessels
                       ELSE [f.vessels EXCEPT ![e.vessel] = e.lease]
    BY <2>1, RenewSound
  <2>3. Holds(f, e.vessel, e.lease.id) /\ e.lease # None
    BY <1>2, <2>1, NoneAssumption DEF Relies
  <2>4. ASSUME NEW a \in Attempts, Running(g, a)
        PROVE  Holds(g, g.attempts[a].vessel, g.attempts[a].lease)
    <3>1. Running(f, a) /\ g.attempts[a] = f.attempts[a]
      BY <2>2, <2>4 DEF Running
    <3>2. Holds(f, f.attempts[a].vessel, f.attempts[a].lease)
      BY <3>1 DEF LeaseHeld
    <3>3. f.attempts[a].vessel \in Vessels /\ f.vessels \in [Vessels -> Lease \cup {None}]
      BY <1>0, <3>1 DEF FleetState, WorkAttempt, Running
    <3> QED
      BY <2>1, <2>2, <2>3, <3>1, <3>2, <3>3 DEF Holds
  <2> QED
    BY <2>4 DEF LeaseHeld, g
<1>3. CASE e.type = "resource_disappeared"
  <2>1. /\ g = ApplyDisappeared(f, e) /\ e.vessel \in Vessels
        /\ e.interrupted \in SUBSET Attempts /\ e.reason \in AttemptTermination \cup {None}
    BY <1>3 DEF Apply, Event, AttemptTermination
  <2> HIDE DEF g
  <2>2. /\ g.vessels = f.vessels /\ g.unavailable = f.unavailable \cup {e.vessel}
        /\ \A a \in Attempts : Running(g, a) =>
             Running(f, a) /\ a \notin e.interrupted /\ g.attempts[a] = f.attempts[a]
    BY <2>1, DisappearSound
  <2>3. ASSUME NEW a \in Attempts, Running(g, a)
        PROVE  Holds(g, g.attempts[a].vessel, g.attempts[a].lease)
    <3>1. Running(f, a) /\ a \notin e.interrupted /\ g.attempts[a] = f.attempts[a]
      BY <2>2, <2>3
    <3>2. f.attempts[a].vessel # e.vessel
      BY <1>3, <3>1 DEF Relies
    <3>3. Holds(f, f.attempts[a].vessel, f.attempts[a].lease)
      BY <3>1 DEF LeaseHeld
    <3> QED
      BY <2>2, <3>1, <3>2, <3>3 DEF Holds
  <2> QED
    BY <2>3 DEF LeaseHeld, g
<1>4. CASE e.type = "work_attempt_started"
  <2>1. /\ g = ApplyStarted(f, e) /\ e.attempt \in Attempts /\ e.mission \in Missions
        /\ e.vessel \in Vessels /\ e.lease \in LeaseIds /\ f.attempts[e.attempt] = None
    BY <1>4 DEF Apply, Event, StartsUnused
  <2> HIDE DEF g
  <2>2. /\ g.vessels = f.vessels /\ g.unavailable = f.unavailable
        /\ g.attempts[e.attempt].vessel = e.vessel /\ g.attempts[e.attempt].lease = e.lease
        /\ \A a \in Attempts \ {e.attempt} : g.attempts[a] = f.attempts[a]
    BY <2>1, StartSound
  <2>3. \A v, id : Holds(f, v, id) <=> Holds(g, v, id)
    BY <2>2 DEF Holds
  <2>4. ASSUME NEW a \in Attempts, Running(g, a)
        PROVE  Holds(g, g.attempts[a].vessel, g.attempts[a].lease)
    <3>1. CASE a = e.attempt
      BY <1>4, <2>2, <2>3, <3>1 DEF Relies
    <3>2. CASE a # e.attempt
      <4>1. Running(f, a) /\ g.attempts[a] = f.attempts[a]
        BY <2>2, <2>4, <3>2 DEF Running
      <4> QED
        BY <2>3, <4>1 DEF LeaseHeld
    <3> QED
      BY <3>1, <3>2
  <2> QED
    BY <2>4 DEF LeaseHeld, g
<1>5. CASE e.type \in {"work_attempt_interrupted", "work_attempt_timed_out",
                       "work_attempt_completed"}
  BY <1>5, EndEventSound, EndHeld
<1> QED
  BY <1>1, <1>2, <1>3, <1>4, <1>5 DEF Event

\* Every call decides on an event that finds what it relies on.
LEMMA CallRelies ==
  ASSUME LeaseInv, NEW c \in Controllers, Call(c)
  PROVE  \E call, e : Decide(c, call, e) /\ Relies(fleet, e)
<1>0. fleet \in FleetState /\ LeaseHeld(fleet)
  BY DEF LeaseInv, FleetInv, TypeOK
<1>1. ASSUME NEW v \in Vessels, NEW l \in Offers, Admit(c, v, l)
      PROVE  \E call, e : Decide(c, call, e) /\ Relies(fleet, e)
  <2> DEFINE e == [type |-> "resource_admitted", vessel |-> v, lease |-> l]
  <2>1. Decide(c, "admit", e) /\ (fleet.vessels[v] = None \/ v \in fleet.unavailable)
    BY <1>1 DEF Admit
  <2>2. \A a \in Attempts : Running(fleet, a) => fleet.attempts[a].vessel # v
    BY <1>0, <2>1 DEF LeaseHeld, Holds
  <2>3. Relies(fleet, e)
    BY <2>2 DEF Relies
  <2> QED
    BY <2>1, <2>3
<1>2. ASSUME NEW v \in Vessels, NEW id \in LeaseIds, NEW end \in 1..MaxClock + 1,
             Renew(c, v, id, end)
      PROVE  \E call, e : Decide(c, call, e) /\ Relies(fleet, e)
  <2> DEFINE lease == [fleet.vessels[v] EXCEPT !.expires = end]
             e == [type |-> "resource_lease_renewed", vessel |-> v, lease |-> lease]
  <2>1. Decide(c, "renew", e) /\ Holds(fleet, v, id)
    BY <1>2 DEF Renew
  <2>2. fleet.vessels[v] \in Lease /\ fleet.vessels[v].id = id
    BY <1>0, <2>1 DEF Holds, FleetState
  <2>3. lease.id = id
    BY <2>2 DEF Lease
  <2> HIDE DEF lease
  <2>4. Relies(fleet, e)
    BY <2>1, <2>3 DEF Relies
  <2> QED
    BY <2>1, <2>4
<1>3. ASSUME NEW a \in Attempts, NEW m \in Missions, NEW v \in Vessels, NEW id \in LeaseIds,
             StartAttempt(c, a, m, v, id)
      PROVE  \E call, e : Decide(c, call, e) /\ Relies(fleet, e)
  <2> DEFINE e == [type |-> "work_attempt_started", attempt |-> a,
                   mission |-> m, vessel |-> v, lease |-> id]
  <2>1. Decide(c, "start", e) /\ Holds(fleet, v, id)
    BY <1>3 DEF StartAttempt
  <2>2. Relies(fleet, e)
    BY <2>1 DEF Relies
  <2> QED
    BY <2>1, <2>2
<1>4. ASSUME NEW v \in Vessels, NEW id \in LeaseIds,
             NEW reason \in {"lease_lost", "runner_interrupted"}, Disappear(c, v, id, reason)
      PROVE  \E call, e : Decide(c, call, e) /\ Relies(fleet, e)
  <2> DEFINE e == [type |-> "resource_disappeared", vessel |-> v,
                   reason |-> reason, interrupted |-> Interrupted(v, id)]
  <2>1. Decide(c, "disappear", e) /\ Holds(fleet, v, id)
    BY <1>4 DEF Disappear
  <2>2. ASSUME NEW a \in Attempts, Running(fleet, a), fleet.attempts[a].vessel = v
        PROVE  a \in Interrupted(v, id)
    BY <1>0, <2>1, <2>2 DEF LeaseHeld, Holds, Interrupted
  <2>3. Relies(fleet, e)
    BY <2>2 DEF Relies
  <2> QED
    BY <2>1, <2>3
<1>5. ASSUME NEW a \in Attempts, RecordExecutionTimeout(c, a)
      PROVE  \E call, e : Decide(c, call, e) /\ Relies(fleet, e)
  BY <1>5 DEF RecordExecutionTimeout, Relies
<1> QED
  BY <1>1, <1>2, <1>3, <1>4, <1>5 DEF Call

\* Every step leaves running attempts their lease, and pending events what
\* they rely on.
LEMMA LeaseStep ==
  ASSUME SoleWriter, LeaseInv, [Next]_vars
  PROVE  LeaseInv'
<1> USE DEF LeaseInv
<1>1. SoleStarter
  BY DEF SoleWriter, SoleStarter
<1>2. FleetInv'
  BY <1>1, FleetStep
<1>3. TypeOK /\ Sane(fleet)
  BY DEF FleetInv
<1>4. ASSUME NEW c \in Controllers, Append(c)
      PROVE  LeaseInv'
  <2> DEFINE e == appending[c]
  <2>1. /\ e \in Event /\ Pending(c, e) /\ StartsUnused(fleet, e) /\ Relies(fleet, e)
        /\ fleet' = Apply(fleet, e)
        /\ \A d \in Controllers : appending'[d] = IF d = c THEN None ELSE appending[d]
    BY <1>3, <1>4 DEF Append, TypeOK, FleetInv
  <2> HIDE DEF e
  <2>2. LeaseHeld(fleet')
    BY <1>3, <2>1, ApplyHeld
  <2>3. ASSUME NEW d \in Controllers, appending'[d] # None
        PROVE  Relies(fleet', appending'[d])
    <3>1. d # c /\ appending'[d] = appending[d] /\ appending[d] # None
      BY <2>1, <2>3
    <3>2. Pending(d, appending[d]) /\ Relies(fleet, appending[d]) /\ appending[d] \in Event
      BY <1>3, <3>1 DEF TypeOK, FleetInv
    <3>3. CASE e.type = "work_attempt_timed_out"
      <4>1. EndsOnly(fleet, fleet', {e.attempt})
        BY <1>3, <2>1, <3>3, EndEventSound
      <4> QED
        BY <3>1, <3>2, <4>1, EndHeld
    <3>4. CASE e.type # "work_attempt_timed_out"
      <4>1. Offered[c] \ {"timeout"} # {}
        BY <2>1, <3>4 DEF Pending, Event
      <4>2. Offered[d] \ {"timeout"} = {}
        BY <3>1, <4>1 DEF SoleWriter
      <4>3. appending[d].type = "work_attempt_timed_out"
        BY <3>2, <4>2 DEF Pending, Event
      <4> QED
        BY <3>1, <4>3 DEF Relies
    <3> QED
      BY <3>3, <3>4
  <2> QED
    BY <1>2, <2>2, <2>3
<1>5. ASSUME NEW a \in Attempts, RunnerReports(a)
      PROVE  LeaseInv'
  <2>1. PICK e \in Event : /\ fleet' = Apply(fleet, e)
                           /\ e.type \in {"work_attempt_interrupted", "work_attempt_completed"}
    <3>1. CASE fleet' = Apply(fleet, [type |-> "work_attempt_completed", attempt |-> a])
      <4>1. [type |-> "work_attempt_completed", attempt |-> a] \in Event
        BY DEF Event
      <4> QED
        BY <3>1, <4>1
    <3>2. ASSUME NEW reason \in {"lease_lost", "runner_interrupted"},
                 fleet' = Apply(fleet, [type |-> "work_attempt_interrupted", attempt |-> a,
                                        reason |-> reason])
          PROVE  \E e \in Event :
                   /\ fleet' = Apply(fleet, e)
                   /\ e.type \in {"work_attempt_interrupted", "work_attempt_completed"}
      <4>1. [type |-> "work_attempt_interrupted", attempt |-> a, reason |-> reason] \in Event
        BY DEF Event
      <4> QED
        BY <3>2, <4>1
    <3> QED
      BY <1>5, <3>1, <3>2 DEF RunnerReports
  <2>2. EndsOnly(fleet, fleet', {e.attempt})
    BY <1>3, <2>1, EndEventSound
  <2>3. UNCHANGED appending
    BY <1>5 DEF RunnerReports
  <2>4. LeaseHeld(fleet')
    BY <2>2, EndHeld
  <2>5. \A d \in Controllers : appending'[d] # None => Relies(fleet', appending'[d])
    BY <2>2, <2>3, EndHeld
  <2> QED
    BY <1>2, <2>4, <2>5
<1>6. ASSUME UNCHANGED fleet,
             \A d \in Controllers : appending'[d] # None => Relies(fleet, appending'[d])
      PROVE  LeaseInv'
  BY <1>2, <1>6
<1>7. ASSUME NEW c \in Controllers, Call(c)
      PROVE  LeaseInv'
  <2>1. PICK call, e : Decide(c, call, e) /\ Relies(fleet, e)
    BY <1>7, CallRelies
  <2>2. /\ UNCHANGED fleet
        /\ \A d \in Controllers : appending'[d] = IF d = c THEN e ELSE appending[d]
    BY <1>3, <2>1 DEF Decide, TypeOK
  <2> QED
    BY <1>6, <2>1, <2>2
<1>8. ASSUME NEW c \in Controllers, Crash(c)
      PROVE  LeaseInv'
  <2>1. /\ UNCHANGED fleet
        /\ \A d \in Controllers : appending'[d] = IF d = c THEN None ELSE appending[d]
    BY <1>3, <1>8 DEF Crash, TypeOK
  <2> QED
    BY <1>6, <2>1
<1>9. ASSUME Tick \/ UNCHANGED vars PROVE LeaseInv'
  BY <1>6, <1>9 DEF Tick, vars
<1> QED
  BY <1>4, <1>5, <1>7, <1>8, <1>9 DEF Next

\* No attempt runs on past the loss of its lease, as long as one controller
\* alone admits, renews, starts and lets go, whoever records timeouts.
THEOREM LeasesHeld == SoleWriter => (Spec => []LostLeaseEndsAttempts)
<1> SUFFICES ASSUME SoleWriter PROVE Spec => []LostLeaseEndsAttempts
  OBVIOUS
<1>1. Init => LeaseInv
  BY FleetInit DEF LeaseInv, Init, LeaseHeld, Running
<1>2. LeaseInv /\ [Next]_vars => LeaseInv'
  BY LeaseStep
<1>3. LeaseInv => LostLeaseEndsAttempts
  BY DEF LeaseInv, LeaseHeld, LostLeaseEndsAttempts
<1> QED
  BY <1>1, <1>2, <1>3, PTL DEF Spec
=============================================================================
