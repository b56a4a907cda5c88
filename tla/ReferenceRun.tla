---------------------------- MODULE ReferenceRun ----------------------------
(***************************************************************************)
(* The reference run (reference.py): ten layers of evidence about one      *)
(* vessel and one runtime, gathered by calls of the native adapter and     *)
(* written to three files, the event log, the benchmark store and the      *)
(* report (validation.py).  Runs follow one another in the same directory, *)
(* and each may stop anywhere, in the middle of a write too.               *)
(*                                                                         *)
(* The adapter writes no file: stopping during one of its calls leaves     *)
(* what stopping just before it does.                                      *)
(***************************************************************************)
EXTENDS NativeRuntime, JsonLines, FiniteSets

CONSTANT MaxRuns   \* runs started in the directory (bound)

ASSUME ReferenceAssumption == MaxRuns \in Nat \ {0}

VARIABLES
  rRun,         \* number of the last run started
  rStep,        \* what it does next, idle when it is over
  rLayers,      \* its report's layers, in memory
  rValidated,   \* the files its validation's runtime was identified by
  rMeasured,    \* the files its first execution's was
  rEvents,      \* lines of the event log
  rBenchmarks,  \* lines of the benchmark store
  rReport       \* the saved report, with the number of the run that wrote it

referenceVars == <<nativeVars, rRun, rStep, rLayers, rValidated, rMeasured, rEvents, rBenchmarks,
                   rReport>>

LayerState == {"PASS", "UNSUPPORTED", "UNKNOWN", "FAIL_SYSTEM", "FAIL_RUNTIME", "FAIL_RESOURCE"}
Layer == [layer: 0..10, state: LayerState]
NoReport == [run |-> 0, layers |-> <<>>]
\* What is left of a report whose writing was cut short.
TornReport == [run |-> -1, layers |-> <<>>]

LogSteps == {"log request", "log decision", "log scheduled request", "log observation"}
SaveSteps == {"announce", "announce scheduled", "finish", "save"}
CallSteps == {"execute", "select", "execute scheduled"}
Waits == {"validating", "executing", "identifying", "executing scheduled"}
Steps == {"idle", "discover", "store"} \cup LogSteps \cup SaveSteps \cup CallSteps \cup Waits

ReferenceTypeOK ==
  /\ rRun \in 0..MaxRuns /\ rStep \in Steps
  /\ rLayers \in Seq(Layer) /\ rValidated \in Seen /\ rMeasured \in Seen
  /\ \A lines \in {rEvents, rBenchmarks} : \A i \in DOMAIN lines :
       lines[i] = TornLine \/ lines[i].run \in 1..rRun
  /\ rReport.run \in -1..rRun /\ rReport.layers \in Seq(Layer)

ReferenceInit ==
  /\ NativeInit
  /\ rRun = 0 /\ rStep = "idle" /\ rLayers = <<>> /\ rValidated = NothingSeen
  /\ rMeasured = NothingSeen /\ rEvents = <<>> /\ rBenchmarks = <<>> /\ rReport = NoReport

\* Groups of variables that steps leave alone together.
files == <<rEvents, rBenchmarks, rReport>>
seen_so_far == <<rValidated, rMeasured>>

-----------------------------------------------------------------------------
(* The report.                                                             *)

\* record, and set_layer, which replaces the layer's provisional result.
Recorded(layers, layer, state) == Append(layers, [layer |-> layer, state |-> state])
SetLayer(layers, layer, state) ==
  IF \E i \in DOMAIN layers : layers[i].layer = layer
  THEN LET first == CHOOSE i \in DOMAIN layers :
                      layers[i].layer = layer /\ \A k \in 1..(i - 1) : layers[k].layer # layer
       IN [layers EXCEPT ![first] = [layer |-> layer, state |-> state]]
  ELSE Recorded(layers, layer, state)

\* checkpoint.
Save(layers) == rReport' = [run |-> rRun, layers |-> layers]

-----------------------------------------------------------------------------
(* The steps of a run.                                                     *)

\* The run does this next; calls of the adapter are waited for.
RunAt(step) == rStep = step /\ nOp = "idle"

\* The one request a reference run makes; whether its model is there may change.
ReferenceRequests ==
  {q \in Requests : /\ q.native /\ q.strategy = "resident" /\ q.model # "unnamed"
                    /\ ~q.rendered /\ ~q.allowUnknown
                    /\ q.context = Absent /\ q.threads = Absent /\ q.batch = Absent}

CallAdapter(op) == \E request \in ReferenceRequests : Call(op, request)

\* A run starts: layers 0 and 1 are recorded.
Start ==
  /\ RunAt("idle") /\ rRun < MaxRuns /\ rRun' = rRun + 1 /\ rStep' = "discover"
  /\ rLayers' = Recorded(Recorded(<<>>, 0, "PASS"), 1, "PASS")
  /\ rValidated' = NothingSeen /\ rMeasured' = NothingSeen
  /\ UNCHANGED <<nativeVars, files>>

\* prepare, up to the validation: discovery finds a CPU or not.
Discover ==
  /\ RunAt("discover")
  /\ LET discovered == Recorded(rLayers, 2, "PASS")
     IN \/ /\ CallAdapter("validate") /\ rStep' = "validating" /\ rLayers' = discovered
        \/ /\ rStep' = "save" /\ rLayers' = Recorded(discovered, 3, "FAIL_RESOURCE")
           /\ UNCHANGED nativeVars
  /\ UNCHANGED <<rRun, seen_so_far, files>>

\* prepare, once the profile has been validated.
Prepared ==
  /\ RunAt("validating")
  /\ IF nResult.state = "SUPPORTED"
     THEN /\ rStep' = "log request" /\ rValidated' = nResult.identity.seen
          /\ rLayers' = Recorded(Recorded(rLayers, 3, "PASS"), 4, "PASS")
     ELSE /\ rStep' = "save" /\ rLayers' = Recorded(rLayers, 3, nResult.state)
          /\ UNCHANGED rValidated
  /\ UNCHANGED <<nativeVars, rRun, rMeasured, files>>

\* What is logged at each of the steps that log, and the step that follows.
Log ==
  /\ rStep \in LogSteps /\ nOp = "idle"
  /\ rEvents' = Appended(rEvents, [run |-> rRun, says |-> rStep])
  /\ rStep' = CASE rStep = "log request" -> "announce"
                [] rStep = "log decision" -> "log scheduled request"
                [] rStep = "log scheduled request" -> "announce scheduled"
                [] OTHER -> "finish"
  /\ UNCHANGED <<nativeVars, rRun, rLayers, seen_so_far, rBenchmarks, rReport>>

\* An execution is recorded as under way, and saved so, before it starts.
Announce ==
  /\ \/ RunAt("announce") /\ rStep' = "execute" /\ rLayers' = Recorded(rLayers, 5, "UNKNOWN")
     \/ /\ RunAt("announce scheduled") /\ rStep' = "execute scheduled"
        /\ rLayers' = Recorded(rLayers, 8, "UNKNOWN")
  /\ Save(rLayers')
  /\ UNCHANGED <<nativeVars, rRun, seen_so_far, rEvents, rBenchmarks>>

Execute ==
  /\ \/ RunAt("execute") /\ rStep' = "executing"
     \/ RunAt("execute scheduled") /\ rStep' = "executing scheduled"
  /\ CallAdapter("execute")
  /\ UNCHANGED <<rRun, rLayers, seen_so_far, files>>

\* Mutant: the class of the failure is taken for a state of a layer.
FailureStateRaw == nResult.outcome

\* _failure_state.
FailureState == IF nResult.outcome = "FAIL_RESOURCE" THEN "FAIL_RESOURCE" ELSE "FAIL_RUNTIME"

\* direct and scheduled, once the execution is over.
Executed ==
  /\ rStep \in {"executing", "executing scheduled"} /\ nOp = "idle"
  /\ LET layer == IF rStep = "executing" THEN 5 ELSE 8
     IN IF nResult.outcome = "success"
        THEN /\ rLayers' = SetLayer(rLayers, layer, "PASS")
             /\ rStep' = IF layer = 5 THEN "store" ELSE "log observation"
             /\ rMeasured' = IF layer = 5 THEN nResult.identity.seen ELSE rMeasured
        ELSE /\ rLayers' = SetLayer(rLayers, layer, FailureState) /\ rStep' = "save"
             /\ UNCHANGED rMeasured
  /\ UNCHANGED <<nativeVars, rRun, rValidated, files>>

\* Mutant: the store is not read back.
QueriedUnread(lines) == TRUE

\* The stored observations can be read back (BenchmarkStore.query).
Queried(lines) == Readable(lines)

\* benchmark: the observation is stored and read back, or layer 6 fails.
Store ==
  /\ RunAt("store")
  /\ \/ /\ rBenchmarks' = Appended(rBenchmarks, [run |-> rRun, says |-> "measured"])
        /\ IF Queried(rBenchmarks')
           THEN rStep' = "select" /\ rLayers' = Recorded(rLayers, 6, "PASS")
           ELSE rStep' = "save" /\ rLayers' = Recorded(rLayers, 6, "FAIL_SYSTEM")
     \/ /\ rStep' = "save" /\ rLayers' = Recorded(rLayers, 6, "FAIL_SYSTEM")   \* an OSError
        /\ rBenchmarks' \in CutShort(rBenchmarks)
  /\ UNCHANGED <<nativeVars, rRun, seen_so_far, rEvents, rReport>>

SelectPlan ==
  /\ RunAt("select") /\ CallAdapter("identity") /\ rStep' = "identifying"
  /\ UNCHANGED <<rRun, rLayers, seen_so_far, files>>

\* Mutant: any identified runtime will do.
SameRuntimeAssumed == nResult.identity.status = "ready"

\* The validation is of the runtime as it is identified now, as the scheduler asks.
SameRuntime ==
  nResult.identity.status = "ready" /\ IdentityOf(nResult.identity.seen) = IdentityOf(rValidated)

\* The scheduler selects the plan, or raises: the run stops as it stands.
Selected ==
  /\ RunAt("identifying")
  /\ IF SameRuntime
     THEN rStep' = "log decision" /\ rLayers' = Recorded(rLayers, 7, "PASS")
     ELSE rStep' = "idle" /\ UNCHANGED rLayers
  /\ UNCHANGED <<nativeVars, rRun, seen_so_far, files>>

\* finish, once the observation is logged: the log is read whole, and where it
\* cannot be the run stops, its report as it was last saved.
Finish ==
  /\ RunAt("finish") /\ rStep' = "idle"
  /\ LET persisted == Recorded(rLayers, 9, "PASS")
     IN IF Readable(rEvents)
        THEN rLayers' = Recorded(persisted, 10, "PASS") /\ Save(rLayers')
        ELSE rLayers' = persisted /\ UNCHANGED rReport
  /\ UNCHANGED <<nativeVars, rRun, seen_so_far, rEvents, rBenchmarks>>

\* The last checkpoint of a run that failed.
SaveFailed ==
  /\ RunAt("save") /\ rStep' = "idle" /\ Save(rLayers)
  /\ UNCHANGED <<nativeVars, rRun, rLayers, seen_so_far, rEvents, rBenchmarks>>

\* The run stops: it is killed, or a write raises.  What it was writing is torn
\* or not written at all; a report is emptied before it is written.
Dies ==
  /\ rStep # "idle" /\ nOp = "idle" /\ rStep' = "idle"
  /\ rEvents' \in IF rStep \in LogSteps THEN CutShort(rEvents) ELSE {rEvents}
  /\ rBenchmarks' \in IF rStep = "store" THEN CutShort(rBenchmarks) ELSE {rBenchmarks}
  /\ rReport' \in {rReport} \cup (IF rStep \in SaveSteps THEN {TornReport} ELSE {})
  /\ UNCHANGED <<nativeVars, rRun, rLayers, seen_so_far>>

RunStep ==
  \/ Discover \/ Prepared \/ Log \/ Announce \/ Execute \/ Executed \/ Store \/ SelectPlan
  \/ Selected \/ Finish \/ SaveFailed

AroundIt == NativeStep /\ UNCHANGED <<rRun, rStep, rLayers, seen_so_far, files>>

ReferenceNext == Start \/ RunStep \/ Dies \/ AroundIt

\* A started run and the adapter go on, and clocks run.  The processes the
\* adapter starts owe nothing: they may never write, close or exit.
ReferenceFairness ==
  WF_referenceVars(RunStep) /\ WF_nativeVars(AdapterStep) /\ WF_nativeVars(TimeRunsOut)

ReferenceSpec == ReferenceInit /\ [][ReferenceNext]_referenceVars /\ ReferenceFairness

-----------------------------------------------------------------------------
(* Properties.                                                             *)

\* What a run logs, in this order, and how much of it must have been logged when
\* the layers of a saved report have reached a layer.
Logged == <<"log request", "log decision", "log scheduled request", "log observation">>
LoggedBy(layer) == IF layer >= 9 THEN 4 ELSE IF layer >= 8 THEN 3 ELSE IF layer >= 5 THEN 1 ELSE 0

\* Whatever earlier and later runs in the directory did, and wherever they
\* stopped, a report that can be read tells of layers that follow one another,
\* passed but for the last one; its measurement is stored; and the events of
\* its run are in the log, in their order and before any other of it, unless a
\* torn line has swallowed some, which a complete report rules out.
ReportBacked ==
  rReport.run > 0 =>
    LET layers == rReport.layers
        reached == Len(layers) - 1
        mine(line) == line # TornLine /\ line.run = rReport.run
    IN /\ \A i \in DOMAIN layers : layers[i].layer = i - 1
       /\ \A i \in 1..reached : layers[i].state = "PASS"
       /\ (reached > 6 \/ (reached = 6 /\ layers[7].state = "PASS")) =>
            \E i \in DOMAIN rBenchmarks : mine(rBenchmarks[i])
       /\ (reached = 10 \/ Readable(rEvents)) =>
            \A k \in 1..LoggedBy(reached) : \E i \in DOMAIN rEvents :
              /\ mine(rEvents[i]) /\ rEvents[i].says = Logged[k]
              /\ Cardinality({j \in 1..i : mine(rEvents[j])}) = k

\* The binary that was measured came after the validated one, and gave way to
\* another of the validated build: an upgrade rolled back in the middle of a run.
RolledBack ==
  /\ rValidated.hash < rMeasured.hash
  /\ \E file \in (rMeasured.hash + 1)..nFile.number : Binaries[file] = Binaries[rValidated.hash]

\* A run passes layer 7 only if what it validated and what it measured were
\* hashed, and told their version, as one file each, though the binary may be
\* replaced at any time; and, though the validation is raised to measured
\* without a comparison (direct), both are one build, unless the binary that was
\* measured has been rolled back before the scheduler looked.
OneBuildUnlessRolledBack ==
  Len(rLayers) > 7 =>
    /\ \A seen \in {rValidated, rMeasured} : seen.stat = seen.hash /\ seen.hash = seen.probe
    /\ IdentityOf(rMeasured) = IdentityOf(rValidated) \/ RolledBack

\* On posix every run ends, whatever the binary, its version probe and the
\* runtime do: all waiting is bounded.
ReferenceEnds == (rStep # "idle" /\ nPlatform = "posix") ~> rStep = "idle"
=============================================================================
