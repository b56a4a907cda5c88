------------------------------ MODULE MCRuntime ------------------------------
(***************************************************************************)
(* The runtime side for TLC.  The native adapter runs by itself and under  *)
(* the reference run; the server's adapter, the benchmark directory and    *)
(* the scheduler share no state with them or with each other.  A behaviour *)
(* therefore moves one part only, named when it starts, and what is        *)
(* explored is the sum of the parts' states and not their product.         *)
(***************************************************************************)
EXTENDS ReferenceRun, Scheduling, LlamaServer, BenchmarkMatrix, TLC

CONSTANT FewFiles   \* binaries but for a first reference run, which may see MaxFiles (bound)

VARIABLE part   \* the part that moves

vars == <<referenceVars, schedulingVars, serverVars, matrixVars, part>>

RuntimeInit ==
  /\ ReferenceInit /\ SchedulingInit /\ ServerInit /\ MatrixInit
  /\ part \in {"native", "reference", "scheduling", "server", "matrix"}
  \* Choices of a part that does not move are made in one way.
  /\ part # "native" => nPlatform = "posix"   \* where a run always ends
  /\ part \notin {"native", "reference"} => nFile.kind = "good"
  /\ nRequest = CHOOSE q \in Requests : TRUE
  /\ part # "scheduling" => sMission = CHOOSE m \in Missions : TRUE
  /\ lRequest = CHOOSE q \in ServerRequests : TRUE

RuntimeNext ==
  /\ UNCHANGED part
  /\ \/ /\ part = "native" /\ NativeNext
        /\ UNCHANGED <<rRun, rStep, rLayers, seen_so_far, files, schedulingVars, serverVars, matrixVars>>
     \/ /\ part = "reference" /\ ReferenceNext
        /\ UNCHANGED <<schedulingVars, serverVars, matrixVars>>
     \/ /\ part = "scheduling" /\ SchedulingNext
        /\ UNCHANGED <<referenceVars, serverVars, matrixVars>>
     \/ /\ part = "server" /\ ServerNext
        /\ UNCHANGED <<referenceVars, schedulingVars, matrixVars>>
     \/ /\ part = "matrix" /\ MatrixNext
        /\ UNCHANGED <<referenceVars, schedulingVars, serverVars>>
  /\ nFile'.number > FewFiles => part = "reference" /\ rRun' = 1

RuntimeSpec == RuntimeInit /\ [][RuntimeNext]_vars /\ ReferenceFairness

\* The types of all parts.
RuntimeTypeOK ==
  NativeTypeOK /\ ReferenceTypeOK /\ SchedulingTypeOK /\ ServerTypeOK /\ MatrixTypeOK

-----------------------------------------------------------------------------
(* The instance.                                                           *)

\* A plain request, and a rendered one with everything it must set.
Plain ==
  [native |-> TRUE, model |-> "present", strategy |-> "resident", layers |-> 0,
   context |-> Absent, asked |-> Absent, tokens |-> 1, threads |-> Absent, batch |-> Absent,
   rendered |-> FALSE, stochastic |-> FALSE, seeded |-> FALSE, allowUnknown |-> FALSE]
Rendered ==
  [Plain EXCEPT !.rendered = TRUE, !.context = 4, !.asked = 4, !.threads = 1,
                !.stochastic = TRUE, !.seeded = TRUE]

MCRequests ==
  {Plain, [Plain EXCEPT !.model = "missing"], [Plain EXCEPT !.model = "unnamed", !.allowUnknown = TRUE],
   Rendered, [Rendered EXCEPT !.tokens = 4],
   [Rendered EXCEPT !.strategy = "accelerated", !.layers = 1, !.allowUnknown = TRUE]}

\* A binary is upgraded, and rolled back to what was there before.
UpgradedAndRolledBack ==
  <<[digest |-> 1, version |-> 1], [digest |-> 2, version |-> 2], [digest |-> 1, version |-> 1]>>

\* Two builds of one runtime, and what is known before either is named.
B0 == [id |-> "rt", build |-> NoBuild]
B1 == [id |-> "rt", build |-> "b1"]
B2 == [id |-> "rt", build |-> "b2"]

MCProfiles ==
  <<[runtime |-> "rt", resources |-> {"r1"}, memory |-> 0],
    [runtime |-> "rt", resources |-> {"r1", "r2"}, memory |-> 2]>>
MCVessels ==
  [v1 |-> [resources |-> {"r1"}, lease |-> NoLeaseHeld],
   v2 |-> [resources |-> {"r2"}, lease |-> [acquired |-> 0, expires |-> 1, preemptible |-> TRUE]]]
MCCapacity == [r1 |-> UnknownCapacity, r2 |-> 2]
MCGoodLinks == {{"v1", "v2"}}

Mission(preemption) ==
  [resources |-> {}, modes |-> {"LOCAL", "PIPELINE"}, workload |-> "w", notBefore |-> 0,
   safe |-> TRUE, memory |-> 0, explore |-> TRUE, synchronous |-> TRUE, preemption |-> preemption]
MCMissions ==
  {Mission(p) : p \in {"allow", "prefer", "forbid"}} \cup
  {[Mission("allow") EXCEPT !.explore = FALSE, !.memory = 1],
   [Mission("allow") EXCEPT !.resources = {"r2"}], [Mission("allow") EXCEPT !.notBefore = 1]}

Validation(profile, runtime, state) ==
  [profile |-> profile, runtime |-> runtime, exact |-> TRUE, state |-> state]
MCValidations ==
  {Validation(1, B1, "SUPPORTED"), Validation(1, B1, "UNSUPPORTED"), Validation(1, B2, "UNKNOWN"),
   Validation(2, B1, "SUPPORTED")}

Measurement(id, profile, mode, tps, at) ==
  [id |-> id, profile |-> profile, mode |-> mode, usable |-> TRUE, workload |-> "w",
   runtime |-> B1, at |-> at, tps |-> tps]
MCBenchmarks ==
  {Measurement(1, 1, "LOCAL", 1, 0), Measurement(2, 1, "LOCAL", 1, 0), Measurement(3, 1, "LOCAL", 3, 1),
   Measurement(4, 2, "PIPELINE", 2, 0), Measurement(5, 2, "LOCAL", 2, 1),
   [Measurement(6, 1, "LOCAL", 4, 0) EXCEPT !.runtime = B2]}
MCRuntimes == {B0, B1, B2}

\* A request with everything it must have, and others that lack something.
Served ==
  [matches |-> TRUE, allowUnknown |-> TRUE, rendered |-> TRUE, context |-> 3, asked |-> 3,
   stochastic |-> TRUE, seeded |-> TRUE, max |-> 1, sendable |-> TRUE]
MCServerRequests ==
  {Served, [Served EXCEPT !.allowUnknown = FALSE, !.max = 2], [Served EXCEPT !.matches = FALSE],
   [Served EXCEPT !.asked = 2], [Served EXCEPT !.sendable = FALSE]}

MCManifestProfiles == <<"p1", "p2">>
MCRepetitions == <<2, 1>>
MCImports == {[profile |-> 1, rows |-> <<2>>], [profile |-> 2, rows |-> <<1, 2>>]}
=============================================================================
