----------------------------- MODULE Scheduling -----------------------------
(***************************************************************************)
(* Plan selection over validations and measurements (scheduler/core.py):   *)
(* what is known of the runtimes grows record by record, a scheduler is    *)
(* built from it at some moment, and selects a plan for a mission later.   *)
(*                                                                         *)
(* Validations and runtimes come in some order, and may come twice.        *)
(* Measurements, which the scheduler sorts by their ids, are a set.        *)
(* Capacities are in MiB.                                                  *)
(***************************************************************************)
EXTENDS Integers, Sequences, FiniteSets

CONSTANTS
  Profiles,     \* a sequence of [runtime, resources, memory], memory the largest requirement
  Vessels,      \* Vessels[v]: [resources, lease]; lease is NoLeaseHeld or [acquired, expires, preemptible]
  Capacity,     \* Capacity[r]: memory of resource r, UnknownCapacity where it is not known
  GoodLinks,    \* sets of vessels a direct tailscale path joins
  Missions,     \* missions a plan may be asked for
  KnowableValidations, KnowableBenchmarks, KnowableRuntimes,  \* records that may turn up
  ScheduleClock,             \* the clock stops here (bound)
  MaxRecords, MaxMeasurements  \* validations and runtimes known, measurements known (bounds)

\* Profiles are in a sequence, and the throughput of a measurement is a number.
ASSUME SchedulingAssumption ==
  /\ DOMAIN Profiles \subseteq Nat \ {0} /\ ScheduleClock \in Nat
  /\ \A b \in KnowableBenchmarks : "tps" \in DOMAIN b /\ b.tps \in Int

VARIABLES
  sClock,        \* the current time
  sValidations, sRuntimes,  \* what is known, in the order the scheduler is given it
  sBenchmarks,   \* the measurements that are known
  sBuilt,        \* when the scheduler was built, -1 before; it knows what was known then
  sMission,      \* the mission, once a plan was asked for
  sChoice        \* what select returned, NoPlan when it raised

schedulingVars == <<sClock, sValidations, sBenchmarks, sRuntimes, sBuilt, sMission, sChoice>>

ExecutionMode == {"LOCAL", "POOL", "PIPELINE", "COMPOSE"}
UnknownCapacity == -1
NoLeaseHeld == [acquired |-> 0, expires |-> 0, preemptible |-> FALSE]
NoBuild == "none"
NoRuntime == [id |-> "none", build |-> NoBuild]
NoPlan == [profile |-> 0, mode |-> "LOCAL"]
NoEvidence == [tps |-> 0, measured |-> FALSE]

\* generate: a plan for every profile and mode.
Plans == [profile: DOMAIN Profiles, mode: ExecutionMode]
ResourcesOf(plan) == Profiles[plan.profile].resources
\* The vessels of a plan: those that have any of its resources.
VesselsOf(plan) == {v \in DOMAIN Vessels : Vessels[v].resources \cap ResourcesOf(plan) # {}}

SchedulingTypeOK ==
  /\ sClock \in 0..ScheduleClock /\ sBuilt \in -1..sClock /\ sMission \in Missions
  /\ sValidations \in Seq(KnowableValidations) /\ sRuntimes \in Seq(KnowableRuntimes)
  /\ sBenchmarks \subseteq KnowableBenchmarks
  /\ sChoice \in Plans \cup {NoPlan}

SchedulingInit ==
  /\ sClock = 0 /\ sValidations = <<>> /\ sBenchmarks = {} /\ sRuntimes = <<>>
  /\ sBuilt = -1 /\ sMission \in Missions /\ sChoice = NoPlan

-----------------------------------------------------------------------------
(* Feasibility.                                                            *)

\* The records in a sequence of them.
Given(seq) == {seq[i] : i \in DOMAIN seq}

\* The runtime of a profile: the first identity given of it, provided that all
\* others are the same (current_runtimes), and that it names a version or a
\* build.
RuntimeOf(profile) ==
  LET group == {i \in DOMAIN sRuntimes : sRuntimes[i].id = Profiles[profile].runtime}
      first == sRuntimes[CHOOSE i \in group : \A k \in group : i <= k]
  IN IF group # {} /\ (\A i \in group : sRuntimes[i] = first) /\ first.build # NoBuild
     THEN first ELSE NoRuntime

\* Validations of exactly this profile (its artifact, resources, strategy and
\* options too) under exactly its runtime; one that is repeated counts once.
Matching(profile) ==
  {v \in Given(sValidations) : v.profile = profile /\ v.exact /\ v.runtime = RuntimeOf(profile)}

Favourable(mission, v) == v.state = "SUPPORTED" \/ (v.state = "UNKNOWN" /\ mission.explore)

\* Mutant: of several validations that match, the one that was given last counts.
CertifiedByLast(mission, profile) ==
  /\ RuntimeOf(profile) # NoRuntime
  /\ \E i \in DOMAIN sValidations :
       /\ sValidations[i] \in Matching(profile) /\ Favourable(mission, sValidations[i])
       /\ \A k \in (i + 1)..Len(sValidations) : sValidations[k] \notin Matching(profile)

\* A profile is feasible if one validation matches it, and does not speak
\* against it; several that differ certify nothing (_validation, evaluate).
Certified(mission, profile) ==
  /\ RuntimeOf(profile) # NoRuntime
  /\ Cardinality(Matching(profile)) = 1
  /\ \A v \in Matching(profile) : Favourable(mission, v)

\* lease.active(now) and _lease_reasons: at the time the scheduler was built.
LeaseAllows(mission, lease) ==
  lease # NoLeaseHeld =>
    /\ lease.acquired <= sBuilt /\ sBuilt < lease.expires
    /\ ~(mission.preemption = "forbid" /\ lease.preemptible)

\* _memory_issue: one resource must hold the largest requirement by itself.
MemoryFits(mission, plan) ==
  LET bound == Profiles[plan.profile].memory
      required == IF bound < mission.memory THEN mission.memory ELSE bound
  IN required = 0 \/ \E r \in ResourcesOf(plan) \cap DOMAIN Capacity :
                       Capacity[r] # UnknownCapacity /\ Capacity[r] >= required

\* _unacceptable_pipeline_link.
LinkAcceptable(mission, plan) ==
  plan.mode = "PIPELINE" /\ mission.synchronous /\ Cardinality(VesselsOf(plan)) > 1 =>
    VesselsOf(plan) \in GoodLinks

\* evaluate: a plan without any reason against it but missing evidence.
Eligible(mission, plan) ==
  /\ Certified(mission, plan.profile)
  /\ mission.safe /\ plan.mode \in mission.modes /\ mission.resources \subseteq ResourcesOf(plan)
  /\ \A v \in VesselsOf(plan) : LeaseAllows(mission, Vessels[v].lease)
  /\ MemoryFits(mission, plan) /\ LinkAcceptable(mission, plan)

-----------------------------------------------------------------------------
(* Evidence and choice.                                                    *)

\* Mutant: measurements do not age.
ComparableAgeless(mission, plan) ==
  {[b EXCEPT !.id = 0] : b \in
     {k \in sBenchmarks :
        /\ k.profile = plan.profile /\ k.mode = plan.mode /\ k.usable
        /\ k.workload = mission.workload /\ k.runtime = RuntimeOf(plan.profile)
        /\ k.at <= sClock}}

\* Measurements of the plan under its runtime for the mission's workload,
\* without an error, and with usable metrics, that are neither too old nor of
\* the future.  Records that differ only in their id are the same one.
Comparable(mission, plan) ==
  {[b EXCEPT !.id = 0] : b \in
     {k \in sBenchmarks :
        /\ k.profile = plan.profile /\ k.mode = plan.mode /\ k.usable
        /\ k.workload = mission.workload /\ k.runtime = RuntimeOf(plan.profile)
        /\ mission.notBefore <= k.at /\ k.at <= sClock}}

\* _evidence: the only measurement there is; several stay uncertain.
Evidence(mission, plan) ==
  LET found == Comparable(mission, plan)
  IN IF Cardinality(found) = 1 THEN [tps |-> (CHOOSE b \in found : TRUE).tps, measured |-> TRUE]
     ELSE NoEvidence

\* Whether a plan depends on a lease that may be taken back.
UsesPreemptible(plan) ==
  \E v \in VesselsOf(plan) : Vessels[v].lease # NoLeaseHeld /\ Vessels[v].lease.preemptible

\* How the names of the modes begin plan ids.
ModesInOrder == <<"COMPOSE", "LOCAL", "PIPELINE", "POOL">>
ModeOrder(mode) == CHOOSE i \in 1..4 : ModesInOrder[i] = mode

\* The rank of an eligible plan, less being better: measured first, then
\* preemptible where that is preferred, then any mode but PIPELINE, then the
\* throughput, then the plan's id.
Rank(mission, plan) ==
  LET e == Evidence(mission, plan)
  IN <<IF e.measured THEN 0 ELSE 1,
       IF mission.preemption = "prefer" /\ ~UsesPreemptible(plan) THEN 1 ELSE 0,
       IF plan.mode = "PIPELINE" THEN 1 ELSE 0, -e.tps,
       ModeOrder(plan.mode), plan.profile>>

\* The lexicographic order of ranks.
Before(a, b) == \E i \in DOMAIN a : a[i] < b[i] /\ \A k \in 1..(i - 1) : a[k] = b[k]

-----------------------------------------------------------------------------

\* A record becomes known, until the scheduler is built.
Know ==
  /\ sBuilt = -1
  /\ \/ /\ Len(sValidations) < MaxRecords
        /\ \E v \in KnowableValidations : sValidations' = Append(sValidations, v)
        /\ UNCHANGED <<sBenchmarks, sRuntimes>>
     \/ /\ Cardinality(sBenchmarks) < MaxMeasurements
        /\ \E b \in KnowableBenchmarks : sBenchmarks' = sBenchmarks \cup {b}
        /\ UNCHANGED <<sValidations, sRuntimes>>
     \/ /\ Len(sRuntimes) < MaxRecords
        /\ \E r \in KnowableRuntimes : sRuntimes' = Append(sRuntimes, r)
        /\ UNCHANGED <<sValidations, sBenchmarks>>
  /\ UNCHANGED <<sClock, sBuilt, sMission, sChoice>>

Build ==
  /\ sBuilt = -1 /\ sBuilt' = sClock
  /\ UNCHANGED <<sClock, sValidations, sBenchmarks, sRuntimes, sMission, sChoice>>

\* select: the eligible plan of least rank; it raises when there is none.
Select(mission) ==
  LET eligible == {plan \in Plans : Eligible(mission, plan)}
  IN IF eligible = {} THEN NoPlan
     ELSE CHOOSE p \in eligible : \A q \in eligible \ {p} : Before(Rank(mission, p), Rank(mission, q))

AskForPlan ==
  /\ sBuilt # -1 /\ sChoice' = Select(sMission)
  /\ UNCHANGED <<sClock, sValidations, sBenchmarks, sRuntimes, sBuilt, sMission>>

ScheduleTick ==
  /\ sClock < ScheduleClock /\ sClock' = sClock + 1 /\ sChoice' = NoPlan
  /\ UNCHANGED <<sValidations, sBenchmarks, sRuntimes, sBuilt, sMission>>

SchedulingNext == Know \/ Build \/ AskForPlan \/ ScheduleTick

SchedulingSpec == SchedulingInit /\ [][SchedulingNext]_schedulingVars

-----------------------------------------------------------------------------
(* Properties.                                                             *)

\* No two things that are known contradict the certification of a chosen plan:
\* nothing else is known of its runtime, and nothing else of the profile under
\* it, whenever and in whichever order those records turned up (_validation,
\* current_runtimes).
ChoiceIsUncontradicted ==
  sChoice # NoPlan =>
    LET runtime == Profiles[sChoice.profile].runtime
        runtimes == {r \in Given(sRuntimes) : r.id = runtime}
        about == {v \in Given(sValidations) :
                    v.profile = sChoice.profile /\ v.exact /\ v.runtime \in runtimes}
    IN /\ \A r, q \in runtimes : r = q
       /\ \A v, w \in about : v = w
       /\ \E v \in about : v.state # "UNSUPPORTED"

\* What was measured of a plan that still speaks for it: on the mission's
\* workload, in the mission's time, and under the runtime that everything
\* known of it agrees on.
Speaking(plan) ==
  {b \in sBenchmarks :
     /\ <<b.profile, b.mode>> = <<plan.profile, plan.mode>> /\ b.usable
     /\ b.workload = sMission.workload /\ sMission.notBefore <= b.at /\ b.at <= sClock
     /\ \A r \in Given(sRuntimes) : r.id = Profiles[plan.profile].runtime => r = b.runtime}

\* A plan is preferred for its speed only where one measurement, and no other,
\* speaks for it; and as long as some eligible plan has such a measurement, no
\* plan without one is chosen, nor one that is slower for no other reason.
\* Old records, those of the future and those of another build never decide
\* (_evidence, rank).
ChoiceIsMeasured ==
  sChoice # NoPlan =>
    LET single(plan) == /\ Speaking(plan) # {}
                        /\ \A b, k \in Speaking(plan) : [b EXCEPT !.id = 0] = [k EXCEPT !.id = 0]
    IN \A q \in Plans :
         Eligible(sMission, q) /\ single(q) =>
           /\ single(sChoice)
           /\ /\ sMission.preemption # "prefer" \/ UsesPreemptible(sChoice) = UsesPreemptible(q)
              /\ (sChoice.mode = "PIPELINE") = (q.mode = "PIPELINE")
              => \A a \in Speaking(sChoice), b \in Speaking(q) : a.tps >= b.tps
=============================================================================
