--------------------------- MODULE BenchmarkMatrix ---------------------------
(***************************************************************************)
(* Benchmark evidence in one directory: matrix runs (benchmark_matrix.py)  *)
(* and imports of native results (llama_bench_import.py) append            *)
(* observations to the store and then write the report; a replay           *)
(* (benchmark_scheduler.py) reads both and has the scheduler choose.       *)
(* Processes interleave between their reads and writes, and may stop       *)
(* anywhere, in the middle of a write too.                                 *)
(*                                                                         *)
(* The runtime is told apart by its build; a new one may take its place    *)
(* between any two executions.  Measured speeds, and so the order of plans *)
(* that are measured, are left to Scheduling.                              *)
(***************************************************************************)
EXTENDS Integers, FiniteSets, JsonLines

CONSTANTS
  Runners, Importers,  \* processes that run the matrix, and that import results
  ManifestProfiles, \* the manifest's profiles, a sequence
  Repetitions,     \* Repetitions[w]: how often workload w of the manifest is run
  LastBuild,       \* builds of the runtime are 1 up to this one (bound)
  Imports,         \* results to import: [profile, rows], a build per row; profile is a position
  MaxObservations  \* lines of the store (bound)

Profile == {ManifestProfiles[i] : i \in DOMAIN ManifestProfiles}
Builds == 1..LastBuild

\* A manifest names a profile at least, and what is imported has rows, of a
\* profile the manifest names.
ASSUME MatrixAssumption ==
  /\ ManifestProfiles \in Seq(Profile) \ {<<>>}
  /\ \A w \in DOMAIN Repetitions : Repetitions[w] \in Nat \ {0}
  /\ LastBuild \in Nat \ {0}
  /\ \A import \in Imports : import.profile \in DOMAIN ManifestProfiles /\ import.rows \in Seq(Builds) \ {<<>>}

VARIABLES
  bBuild,    \* the build at the runtime's path
  bStore,    \* lines of benchmarks.jsonl
  bReport,   \* matrix-report.json
  bWriter,   \* bWriter[w]: what w is doing
  bReplay    \* the replay: the report it has read, what it has selected

matrixVars == <<bBuild, bStore, bReport, bWriter, bReplay>>

Writers == Runners \cup Importers
NoBuildYet == 0   \* not measured
\* A profile's record in the report: the build of its measured_validation.
Record == Builds \cup {NoBuildYet}
\* Reports: the records by profile, or no file, or what a cut write left.
Records == UNION {[P -> Record] : P \in SUBSET Profile}
NoFile == [readable |-> FALSE, there |-> FALSE, of |-> <<>>]
TornFile == [readable |-> FALSE, there |-> TRUE, of |-> <<>>]
File(records) == [readable |-> TRUE, there |-> TRUE, of |-> records]
NoSelection == "none"

Resting == [op |-> "idle", step |-> "idle", profile |-> 1, state |-> "none", workload |-> 1,
            repetition |-> 1, record |-> NoBuildYet, records |-> <<>>, rows |-> <<>>]
IdleReplay == [step |-> "idle", of |-> <<>>, selected |-> NoSelection, build |-> NoBuildYet]

MatrixTypeOK ==
  /\ bBuild \in Builds
  /\ \A i \in DOMAIN bStore : bStore[i] = TornLine \/
       bStore[i] \in [profile: Profile, build: Builds, good: BOOLEAN]
  /\ bReport \in {NoFile, TornFile} \/ (bReport.readable /\ bReport.of \in Records)
  /\ \A w \in Writers :
       /\ bWriter[w].step \in {"idle", "validate", "run", "append", "read", "write"}
       /\ bWriter[w].record \in Record /\ bWriter[w].records \in Records \cup {<<>>}
  /\ bReplay.selected \in Profile \cup {NoSelection}

MatrixInit ==
  /\ bBuild = 1 /\ bStore = <<>> /\ bReport = NoFile
  /\ bWriter = [w \in Writers |-> Resting] /\ bReplay = IdleReplay

\* A writer does what changes of its state.
Now(w, state) == bWriter' = [bWriter EXCEPT ![w] = state]

\* The observation of an execution of a profile, appended to the store.
Observes(profile, build, good) ==
  /\ Len(bStore) < MaxObservations
  /\ bStore' = Appended(bStore, [profile |-> profile, build |-> build, good |-> good])

\* records with a profile's record put in place of any it has.
With(records, profile, record) ==
  [p \in DOMAIN records \cup {profile} |-> IF p = profile THEN record ELSE records[p]]

-----------------------------------------------------------------------------
(* run of benchmark_matrix.py.                                             *)

MatrixStart(w) ==
  /\ w \in Runners /\ bWriter[w].op = "idle"
  /\ Now(w, [Resting EXCEPT !.op = "matrix", !.step = "validate"])
  /\ UNCHANGED <<bBuild, bStore, bReport, bReplay>>

\* A profile is done with: on to the next, or to the report.
ProfileDone(s, record) ==
  [s EXCEPT !.records = With(s.records, ManifestProfiles[s.profile], record),
            !.record = NoBuildYet, !.workload = 1, !.repetition = 1,
            !.profile = IF s.profile < Len(ManifestProfiles) THEN s.profile + 1 ELSE s.profile,
            !.step = IF s.profile < Len(ManifestProfiles) THEN "validate" ELSE "write"]

\* The preflight of a profile, which is run if it is supported, or explored.
Validate(w) ==
  /\ bWriter[w].step = "validate"
  /\ \/ \E state \in {"SUPPORTED", "UNKNOWN"} :
          Now(w, [bWriter[w] EXCEPT !.step = "run", !.state = state])
     \/ Now(w, ProfileDone(bWriter[w], NoBuildYet))
  /\ UNCHANGED <<bBuild, bStore, bReport, bReplay>>

\* Mutant: a failed execution counts as measured as well.
MeasuredAnyway(record, good) == bBuild

\* The build of measured_validation after an execution: that of the last success.
MeasuredBy(record, good) == IF good THEN bBuild ELSE record

\* What follows an execution: a failure ends the repetitions of its workload for
\* a profile that is being explored, but not its other workloads.
AfterRun(s, record, good) ==
  IF s.repetition < Repetitions[s.workload] /\ (good \/ s.state # "UNKNOWN")
  THEN [s EXCEPT !.record = record, !.repetition = s.repetition + 1]
  ELSE IF s.workload < Len(Repetitions)
  THEN [s EXCEPT !.record = record, !.workload = s.workload + 1, !.repetition = 1]
  ELSE ProfileDone(s, record)

\* One execution, its observation and its entry in the record.
RunOnce(w) ==
  LET s == bWriter[w]
  IN /\ s.step = "run"
     /\ \E good \in BOOLEAN :
          /\ Observes(ManifestProfiles[s.profile], bBuild, good)
          /\ Now(w, AfterRun(s, MeasuredBy(s.record, good), good))
     /\ UNCHANGED <<bBuild, bReport, bReplay>>

-----------------------------------------------------------------------------
(* import_profile.                                                         *)

ImportStart(w) ==
  /\ w \in Importers /\ bWriter[w].op = "idle"
  /\ \E import \in Imports :
       Now(w, [Resting EXCEPT !.op = "import", !.step = "append", !.profile = import.profile,
                              !.rows = import.rows, !.record = import.rows[1]])
  /\ UNCHANGED <<bBuild, bStore, bReport, bReplay>>

\* _append_observations, row by row; the validation is of the first row's runtime.
ImportAppend(w) ==
  LET s == bWriter[w]
  IN /\ s.step = "append"
     /\ Observes(ManifestProfiles[s.profile], s.rows[1], TRUE)
     /\ Now(w, [s EXCEPT !.rows = Tail(s.rows),
                         !.step = IF Len(s.rows) = 1 THEN "read" ELSE "append"])
     /\ UNCHANGED <<bBuild, bReport, bReplay>>

\* _report: a report that is there is read, and raises if it cannot be; the
\* profile's record takes the place of the one it has.
ImportRead(w) ==
  LET s == bWriter[w]
  IN /\ s.step = "read"
     /\ Now(w, IF bReport = TornFile THEN Resting
               ELSE [s EXCEPT !.step = "write",
                              !.records = With(bReport.of, ManifestProfiles[s.profile], s.record)])
     /\ UNCHANGED <<bBuild, bStore, bReport, bReplay>>

-----------------------------------------------------------------------------

\* Either ends with writing the report whole, whatever it holds by now.
WriteReport(w) ==
  /\ bWriter[w].step = "write" /\ bReport' = File(bWriter[w].records) /\ Now(w, Resting)
  /\ UNCHANGED <<bBuild, bStore, bReplay>>

\* A writer stops, by itself or by a write that fails.
WriterStops(w) ==
  /\ bWriter[w].op # "idle" /\ Now(w, Resting)
  /\ bStore' \in IF bWriter[w].step \in {"run", "append"} THEN CutShort(bStore) ELSE {bStore}
  /\ bReport' \in IF bWriter[w].step = "write" THEN {bReport, TornFile} ELSE {bReport}
  /\ UNCHANGED <<bBuild, bReplay>>

ReplaceBuild ==
  /\ bBuild < LastBuild /\ bBuild' = bBuild + 1 /\ \E w \in Writers : bWriter[w].op = "matrix"
  /\ UNCHANGED <<bStore, bReport, bWriter, bReplay>>

-----------------------------------------------------------------------------
(* The replay.                                                             *)

\* The report is read; what cannot be read raises.
ReplayRead ==
  /\ bReplay.step = "idle"
  /\ bReport.readable
  /\ bReplay' = [IdleReplay EXCEPT !.step = "read", !.of = bReport.of]
  /\ UNCHANGED <<bBuild, bStore, bReport, bWriter>>

\* A profile of the report is eligible under the current runtime if it was
\* measured under it (_profiles_and_validations and the scheduler).
ReplayEligible(profile, build) == bReplay.of[profile] = build

\* The runs of a profile that count as evidence under a build.
ReplayEvidence(profile, build) ==
  {i \in DOMAIN bStore : /\ bStore[i].profile = profile /\ bStore[i].build = build
                         /\ bStore[i].good}

\* The store is read, later, and a plan selected under the current runtime the
\* caller names: one with a single comparable measurement before others.
ReplaySelect ==
  /\ bReplay.step = "read" /\ Readable(bStore)
  /\ \E build \in Builds :
       LET eligible == {p \in DOMAIN bReplay.of : ReplayEligible(p, build)}
           single == {p \in eligible : Cardinality(ReplayEvidence(p, build)) = 1}
       IN \E selected \in (IF single # {} THEN single
                           ELSE IF eligible # {} THEN eligible ELSE {NoSelection}) :
            bReplay' = [IdleReplay EXCEPT !.selected = selected, !.build = build]
  /\ UNCHANGED <<bBuild, bStore, bReport, bWriter>>

ReplayRaises ==
  /\ bReplay.step = "read" /\ ~Readable(bStore) /\ bReplay' = IdleReplay
  /\ UNCHANGED <<bBuild, bStore, bReport, bWriter>>

MatrixNext ==
  \/ \E w \in Writers : \/ MatrixStart(w) \/ Validate(w) \/ RunOnce(w)
                        \/ ImportStart(w) \/ ImportAppend(w) \/ ImportRead(w)
                        \/ WriteReport(w) \/ WriterStops(w)
  \/ ReplaceBuild \/ ReplayRead \/ ReplaySelect \/ ReplayRaises

MatrixSpec == MatrixInit /\ [][MatrixNext]_matrixVars

-----------------------------------------------------------------------------
(* Properties.                                                             *)

\* A replay selects a profile only where the store holds a successful execution
\* of it by the very runtime that is current, though the report and the store
\* are written and read one after the other, by several processes that may stop
\* in between, while the runtime is replaced: no report runs ahead of the store.
ReplaySelectsMeasured ==
  bReplay.selected # NoSelection =>
    \E i \in DOMAIN bStore :
      /\ bStore[i] # TornLine /\ bStore[i].good
      /\ bStore[i].profile = bReplay.selected /\ bStore[i].build = bReplay.build
=============================================================================
