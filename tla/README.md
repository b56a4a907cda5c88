# A verification development for Long Haul

Long Haul schedules and delivers small pieces of machine-learning work to a
fleet of borrowed computers ("vessels"). This directory holds TLA+ models of
the parts of it that are hard to test, configurations that model-check them on
small instances with TLC, and theorems about them with proofs checked by TLAPS.
All paths below are relative to the repository; most code is under
`src/long_haul/` (`src/src/long_haul/` in `PROJECT.json`).

## 1. The system

Components, the state each keeps, its operations, and what makes it correct.

| Component | State | Operations | Correct when |
|---|---|---|---|
| **Durable Flash delivery** `work/flash_storage.py` | one JSON blob per job (generation, attempt, lease, acceptance, notification flags), queue messages, a create-only index of claim tokens, a notification cursor; in memory the contexts of claims | `enqueue`, `claim`, `renew`, `abandon`, `complete`, `completed_result`, `recover_notifications` | one worker holds a job at a time; at most one verified result is accepted, under a current claim; it can be replayed, is notified, and never changes; no enqueued job is forgotten |
| **Fleet lease controller and event log** `ephemeral.py`, `events/store.py` | an append-only JSONL log, folded into vessels, unavailable vessels, attempts, missions on every read | `admit`, `renew`, `start_attempt`, `disappear`, `record_execution_timeout`, the handlers of `materialize`, runner events | work starts only on an available lease, ends once, and does not outlive its lease; missions follow their attempts |
| **In-memory Flash delivery and HTTP adapter** `work/flash_delivery.py`, `work/flash_http.py` | one job: attempt number, current delivery, accepted result; admission decided once | `claim`, `renew`, `abandon`, `complete` behind four routes | the same promise as the durable adapter for one process |
| **Browser vessel prototype** `prototypes/flash-vessel/` | page: worker reference, stop timer, rendered state; worker: joined, stopped, lifecycle; messages between them | Join, Stop, visibility changes, pagehide, timer | the page says "stopped" only when no worker lives and leaves none behind |
| **Contracts and evaluation** `work/contracts.py`, `work/evaluator.py` | contract and evidence records; a target that may change | `evaluate_work`, `evaluate`, `evaluate_packet`, `reopen_regressions`, `admits` | accepted only on passing evidence of every predicate about one candidate |
| **Progress monitor** `work/progress.py`, `adapters/pi_rpc.py` | windows of signatures and failures, counters | `observe` | intervenes exactly at its limits and in their order |
| **Checkpoints** `work/checkpoints.py` | a fold over events | `materialize_checkpoint`, `render_digest` | nothing unresolved is dropped; the digest says what it omits |
| **Decision engine** `decisions/engine.py` | a decision record | `capture_initial`, `resolve` | no consequential decision without everyone's position, none past a block |
| **Scheduler** `scheduler/core.py` | none between calls | `generate`, `evaluate`, `rank`, `select` | selects the best eligible plan, whatever the order of its inputs |
| **Reference run** `reference.py`, `validation.py` | a report of layers, saved as it grows | `prepare`, `direct`, `benchmark`, `scheduled`, `finish` | a saved report never claims a layer that was not reached |
| **Native adapters** `adapters/llama_cpp.py`, `llama_server.py` | a binary on disk, its version probe; a server process its owner runs | `identity`, `validate`, `execute` | results are attributed to the runtime that produced them; nothing is left running untold |
| **Benchmark store, matrix, import, replay** `benchmarks/store.py`, `benchmark_matrix.py`, `llama_bench_import.py`, `benchmark_scheduler.py` | a line per observation, a report by profile | `append`, `query`, `run`, `import_profile`, `replay` | a replay selects only what the store shows measured |
| **The rest** | models, registry, discovery, MCP gateway, command line, infrastructure | | records, parsing, formatting, configuration, I/O |

How they interact. A producer enqueues a contract; workers, through the durable
adapter or the HTTP adapter, claim a job, work within its lease, renew, and
complete; completion calls a trusted verifier (the evaluator) and later an
injected notifier. All processes of the durable adapter share nothing but the
Blob container and the Queue. Fleet controllers, runners and the reference run
share the append-only event log; a reader folds all of it, a writer appends
without looking again. The scheduler reads vessels and leases and hands a plan
to an adapter. The reference run drives all of this once for one vessel: it
calls the native adapter, logs, stores the observation, has the scheduler select, and
saves its report in between. Matrix runs, imports and replays share a
directory. The browser prototype stands alone: a page and its worker
exchange messages.

What is hard. Every request to a service is a point where other processes, the
clock, an error, a lost reply or a crash come in between: `complete` alone
makes seven or more before it returns. The queue delivers at least once,
receipts go stale, notifications may repeat. The log has no compare-and-append,
and a writer that is stopped leaves a torn line.
Leases end by time, not by an event. Targets, binaries and reports change while
they are being looked at, and a process or a server that was given up on goes on. `PROJECT.json` lists the hazards line by line,
with the properties that watch each of them.

## 2. Modules

| Module | Content |
|---|---|
| `FlashJob` | the abstract promise: a job is published, attempted at most `MaxAttempts` times, and ends accepted or exhausted; only an accepted result is told or answered; and what a client may rely on (`JobKept`, `JobEndsOnce`) |
| `FlashStorage` | `DurableFlashDelivery`, one step per request; properties, refinement of `FlashJob`, inductive invariant |
| `MCFlashStorage` | small instances of it |
| `FlashStorageSafety` | `TypeOK`, `WellFormed` and `IInv` are invariants; acceptance, replay and finality follow |
| `FlashStorageOutcomes` | `OutInv` is an invariant; claims, acknowledgements, notifications, triggers and budgets follow, and the refinement of `FlashJob` with what it gives a client |
| `FleetLease` | `FleetLeaseController` and the event handlers, read and append as two steps |
| `MCFleetLease` | small instances of it |
| `FleetLeaseProofs` | types, single end, mission view, held leases |
| `FlashVessel` | the browser prototype: page, worker, messages, timers; small enough to be run as it is |
| `FlashVesselProofs` | types, no worker let go of, shown sessions exist, paused while hidden |
| `FlashDelivery` | the in-memory fixture behind its HTTP adapter, a verifier that yields, and its refinement of `FlashJob` |
| `FlashDeliveryProofs` | the accepted lease stays, acceptance within the budget, the refinement with what it gives a client |
| `Evaluation` | evidence about a target that changes, packets judged again, regressions |
| `Progress` | the monitor's bounded windows against the whole history of the attempt |
| `Checkpoints` | the fold over a contract's events, and the digest with its limit |
| `Decisions` | captures and resolutions in any order |
| `MCWork` | the five of them for TLC |
| `WorkProofs` | everyone is heard; accepted candidates hold; the monitor, checkpoints and digests lose nothing; the five together |
| `NativeRuntime` | the native adapter, its version probe, and a binary that is replaced, by a new build or an old one |
| `JsonLines` | files of one document per line, with torn lines; used by the next and by `BenchmarkMatrix` |
| `ReferenceRun` | reference runs over `NativeRuntime`: layers, early exits, three files, runs that die |
| `ReferenceRunProofs` | no probe is left; what a run measures is of the build it validated, but for a rollback; reports are backed; types |
| `Scheduling` | certification, evidence, rank and choice over records in any order |
| `LlamaServer` | the adapter of a server that goes on when its caller has gone |
| `BenchmarkMatrix` | matrix runs, imports and replays in one directory |
| `MCRuntime` | the runtime side for TLC |
| `RuntimeProofs` | the server's work is owned up to; the plan chosen; replays are measured; the runtime side together |

Definitions beside a comment that begins with "Mutant" are broken variants of
the definition that follows. Nothing uses them: they record, in `PROJECT.json`,
a plausible bug for each property, one the property is known to catch.

### FlashStorage and the code

A process of `Procs` is one `DurableFlashDelivery` object, which runs one call
at a time. `loc[p]` is its program counter and the call's local variables, and
the actions are the code between two requests:

- `enqueue`: `EnqueueBegin`, `EnqueueCreate` (create-only upload), `EnqueueRead`
  (it existed: return if accepted, else send again), `EnqueueSend`.
- `claim`: `ClaimBegin` (prune, limit of local claims, then a page of
  notification recovery), `Receive`, `ClaimRead` (settled, live or exhausted
  job, or a new claim), `Drain`/`Discard` (delete the trigger), `Terminate`,
  `ClaimWrite`.
- `renew`: `RenewBegin` (read and check), `RenewQueue` (new visibility, rotated
  receipt), `RenewRead` (read and check again), `RenewWrite`.
- `abandon`: `AbandonBegin`, `AbandonWrite`, `AbandonQueue`.
- `complete`: `CompleteBegin` (read; replay if accepted), `Verify` (the verifier,
  then the second read), `WriteClaimIndex`, `FinalRead`, `Accept`, `Settle`; with a
  forgotten token `CompleteRetry`, `FindAccepted`.
- `recover_notifications`: `ReadCursor`, `ListPage`, `Scan`, `Notify` or
  `NotifyRaised`, `MarkSent`, `AdvanceCursor`; reached from `claim`, `complete` and
  on its own (`RecoverBegin`).

`blob`, `queue`, `index`, `cursor` are the services' durable state, `claims` the
in-memory contexts. `enqueued`, `released`, `notified`, `acked` record what was
promised to the outside and are read by properties only. Two identities are
abstracted to what they tell apart: an ETag read with a snapshot is valid as long as
nobody has written the blob (`fresh`, cleared in every reader by a write), and
a pop receipt as long as it is the last one handed out (`holder`). Results are
model values; the verifier is the set `Good`.

The environment: `Tick` (time; the queue's visibility follows the same clock),
`Fail` (a request fails without effect), `Crash` (the contexts are lost), and
lost replies, which are disjuncts of the writes themselves, of the notification
cursor's as of the others (`MoveCursor`: the cursor has moved, the caller raises);
`MaxFaults` bounds these together.

### FleetLease and the code

The log only grows, and what a reader makes of it is the fold `fleet`, one event
further with every append; so the log itself is left out and `Apply` is
`_apply_event`. A controller's call reads and decides in one step, which leaves
the event in `appending[c]`, and `Append(c)` appends it later: other controllers,
runners (`RunnerReports`: completions and interruptions, late, repeated,
contradicting), `Crash` and `Tick` come in between. `End` is `_end_attempt`, with its
guard and the mission's bookkeeping. `crew` and `ruptures`, and lists' order, are
left out: no call of the controller reads them. What the code does not prevent, the model does not
either: with a second controller that starts attempts, one that starts between the reading
and the append of `disappear` is not on its list and runs on (`ephemeral.py:237`); with one
that renews, a late renewal puts back the whole lease it was decided on, in the place of one given
since (`events/store.py:137`); and a renewable lease without an end may be renewed to an earlier
one (`ephemeral.py:174`). `LostLeaseEndsAttempts` is therefore checked, and proved, for one writer, and
covers neither of the first two; `fleet_race` shows a third such race.

### FlashVessel and the code

Page and worker each run one handler at a time, to its end, so every handler of
`main.mjs` and `worker.mjs` is one action: `Join` (`JoinFails` when the browser refuses
the worker), `Stop`, `TimerFires`, `PageHide`, `ChangeVisibility`, `PageReceives` on the
page, `WorkerReceives` and `SnapshotSettles` in the worker. Between them lie `toWorker`
and `toPage`, which keep their order and may be slow; `terminate()` discards
what was not yet delivered to a worker, but not what it has sent. `timers` are the
timers that are set, `stopFallback` the one the page remembers: the difference matters.
`LoadFails` is the browser's; what the capability snapshot contains is left out:
collecting it ends with a snapshot or an error. `asked` is read by properties only.

### FlashDelivery and the code

The fixture has no await but the verifier, so `claim`, `renew` and `abandon` are one
action each and `complete` is two, `BeginComplete` and `EndComplete`; `dCalls` are the
completions whose verifier runs. `claim` and `renew` read the clock twice; the
second reading is a choice (`now`). `Construct` decides admission (`Admits`). The
adapter's own refusals are the table `Refused`; requests are taken as parsed. What it
answers is `dReply`; a verifier that raises is answered by the class of its exception
(`VerifierRaised`), the fixture's own `LeaseError` and `VerificationError` among them. `dAnswered` and `dAcceptedBy` are read by properties only.

### Evaluation, Progress, Checkpoints, Decisions and the code

`Evaluation`: `StartRun` reads the fingerprint, `Check` makes one check against what
the target holds by then, `EndRun` binds the packet; `JudgeAgain` is `evaluate_packet`,
`JudgeSoFar` `evaluate_work` on the evidence there is. A candidate and its
fingerprint are one. The code accepts a candidate that changed while it was
checked (`evaluator.py:97`): the run `changed` shows it. `AcceptedCandidateHolds` is what holds
all the same, of a candidate that did not change under its checks (`steady`), however
often it changes afterwards and the packet is judged again.

`Progress`: `Observe` is `observe`, its windows as sequences; `ProgressOf` is what the Pi
adapter makes of a tool's completion. The adapter passes no arguments on, so reading
three files in a row is three times the same action; the model has that too.

`Checkpoints`: `Materialize` is the fold over the log, `Dropped` an item's removal from a
list, and `RenderDigest` keeps what is shown by size; all three are recursive
functions, each local to its operator. The code drops a failure with every failure whose id
continues it after a colon (`checkpoints.py:101`); the reference definition (`Unresolved`) knows
nothing of that. `CheckpointSaysLog` says that all failures listed are unresolved, and
that all unresolved ones are listed where ids do not continue one another
(`FailuresApart`). Where they do, a failure that nobody resolved may be missing: with `a` and
`a:b` reported, the resolution of `a` drops both. The run has such ids. A header
longer than the limit is cut without being called truncated (`checkpoints.py:180`), in the model and
in what is said of digests.

`Decisions`: `Capture` and `Resolve`. `resolve` counts positions; positions may
also be taken after a decision that is not consequential was resolved, and a holder
is looked at only for `scoped_authority`.

### NativeRuntime, ReferenceRun and the code

`identity` is a chain of steps (`nStep`): `Stat`, `Hash`, `StartProbe`, `ReadProbe`,
`WaitProbe`, `CleanupProbe`, `StatAgain`; on Windows `CommunicateProbe` takes the place of
the middle ones. `nSeen` notes which file each of them saw, and `IdentityOf` is what the
code makes of that: the digest of the file that was hashed and the version the probed
one told (the path is always the same). `Binaries` gives every file its digest and
version, and two files may have the same: identities are compared by value, files only by
their stat.
`Identified` ends `validate` or goes on with `execute` (`RunFails`, `RunEnds`). Around it
`Replace` puts another file in the place of the binary, with contents of its own or those of
an earlier one, and `ProbeActs` lets the probe
write, spawn, close and exit as it likes. Assumed away, as the code does it, is only that a
new file has the stat (device, inode, size and times) of an earlier one. What the model shows of the code as it
is: on Windows the probe may hang for ever once its deadline has passed (a descendant that
holds its output), and an `OSError` leaves the process running; an execution is
attributed to the identity taken just before, though the binary may have been
replaced since (`OneBuildUnlessRolledBack` says what still holds of a run); a profile of state
`UNKNOWN` that is allowed and names no model makes `execute` raise (`llama_cpp.py:420`).

`ReferenceRun` extends it: `rStep` is where `run_reference` has got to, `rLayers` the
report in memory, `rReport` the saved one. Calls of the adapter are waited for (`Waits`).
`Dies` is a kill or a write that raises, at every step; what was being written
is torn or absent. Two consequences: a torn line in the log makes every later run
fail at its last layer, one in the store at layer 6; and a run that dies before
its first save leaves the report of the run before. A selection that raises
leaves the saved report at layer 5, `UNKNOWN`.

### Scheduling, LlamaServer, BenchmarkMatrix and the code

`Scheduling`: `Know` brings records in any order, `Build` constructs the scheduler (leases
are looked at for that time), `AskForPlan` selects (evidence is looked at for this
time). `Eligible`, `Evidence` and `Rank` are the code's reasons, evidence and sort key. Validations
and runtimes are kept in the order they are given, with repetitions, since the code
takes the first of a group it has found to agree. `ChoiceIsMeasured` does not use the model's
filters on measurements: `Speaking` states what may count in terms of the records, and so catches a
measurement that is too old, of the future, or of another build, mode or workload. Which
plans compete is taken from `Eligible`.

`LlamaServer`: one request is two posts, `Post`, `WaitOver` or `Answer`, `Read`, `Observe`,
then `Tokenized` or `CompletionDone`. `lWork` are the completions the server is at;
`ServerGoesOn` finishes or loses them without anyone waiting, `DeadlinePasses` comes anywhere.
A reply that breaks the contract, an error, or a part of a completion may come with the
server at work, with the work given up, or before it was taken up (`Answer`). Of the server
is assumed only that it says that a completion has stopped, and was not cut, once it has
(`Finished`). `WorkIsOwnedUp` is then about all outcomes: a `FAIL_EXECUTION` may leave work too, but only
if the completion was answered by something else than a finished one; the code does not
tell these from other failures in the contract, and its owner has to reconcile after them.

`BenchmarkMatrix`: a writer's loop over profiles, workloads and repetitions is
`Validate` and `RunOnce`; an import is `ImportAppend`, `ImportRead`, and both end with
`WriteReport`. `ReplayRead` and `ReplaySelect` read report and store one after the
other. Two writers lose each other's report entries; the model has it, and no
property denies it. The accelerated path, which names its backends differently, is
left out.

## 3. Runs

| Run | Question | Bounds | States |
|---|---|---|---|
| `claims` | do two processes making every call keep one claim, one outcome and the budgets? | 1 job, 2 messages, a good and a bad result, 2 attempts, wall 3, lease 2 | 2.7 M |
| `faults` | with an error, lost reply or crash anywhere, is what was acknowledged true, and is the adapter an implementation of `FlashJob`? | as above without renew and abandon, wall 2, lease 1, 1 fault | 2.0 M |
| `notify` | is every accepted job with a reachable notifier notified, while another job's notifier raises for ever? | 2 jobs on pages of 1, one process that serves and one that only recovers | 40 k |
| `resolve` | does every enqueued job end? | 1 job, 2 pollers of which one never completes, 2 attempts, 1 fault | 141 k |
| `commit_late` | can a result be accepted after its lease? (yes) | 1 attempt, lease 1 | stops at the violation |
| `fleet` | do attempts end once, missions follow, and leases hold, with one writer and a separate recorder of timeouts? | 2 vessels, 2 attempts, 2 missions, 2 leases, clock to 2 | 236 k |
| `fleet_race` | is every attempt started on an available vessel with two controllers? (no) | 1 vessel, 1 attempt | stops at the violation |
| `vessel` | does the page keep hold of its worker, show sessions it has, pause while hidden, and end what Stop was pressed for? | 2 sessions, 2 visibility changes | 110 k |
| `vessel_stopped` | does "stopped" on the page mean that no worker is active? (no) | 2 sessions, 1 visibility change | stops at the violation |
| `work` | does the fixture keep `FlashJob`'s promise under concurrent completions; does only a candidate that passes get accepted; do windows, checkpoints and digests lose nothing; is everyone heard? | fixture: 2 callers, 4 submissions, 2 attempts, wall 3, lease 2, clock 4; 2 candidates, 2 predicates; 3 tools, window 3, 5 steps; 3 log events, 3 digest limits; 3 members of whom 2 take part, 2 scopes | 345 k |
| `changed` | is an accepted candidate always one that passes? (no) | as `work` | stops at the violation |
| `runtime` | is a probe ever left behind, a report unbacked, a run passed on a build that is not the one it validated (but for a rollback), a plan chosen on contradicting, old or foreign evidence, a server's work disowned; does every run end? | 2 runs, 2 files, and in the first run a third that has the contents of the first, 6 requests; 2 profiles, 2 vessels, up to 2 validations and 2 runtimes in any order, and 3 measurements; 2 server requests, counts to 2; 1 matrix runner, 1 importer, 2 builds, 2 store lines | 1.7 M |

Why the bounds suffice to make the interesting cases happen. Two processes are
the fewest that race, and every guard of the code compares one process with
"someone else". Two messages are a trigger and its duplicate, by a producer's
retry. Two attempts allow a claim that is lost and one that takes over, and
make the second the last. Wall 3 with lease 2 makes the second lease the one
the deadline cuts; wall 2 with lease 1 lets a job be exhausted by time as well
as by attempts. Two jobs on pages of one are the fewest for which the cursor
passes a page that is not finished. One fault in a run is placed at every
request of every call; more would mostly repeat it:
`Fail` and `Crash` leave the durable state alone, and what they take away from one
call the next call has to find again in any case. In `fleet`, a second vessel and a
second attempt let a mission have active attempts on different leases, and
clock 2 reaches the expiry of the first offer and the beginning of the second.
In `vessel` the page has one worker at a time, so what a session can disturb is the next:
two sessions show it; two visibility changes hide a document and show it again,
or the other way round.
`work` and `runtime` each hold parts that share no state in the code. A behaviour
moves one of them, chosen at the start (`part`), so that what is explored is the sum of
their states and not the product; the native adapter is explored by itself, with
Windows, and below the reference run. In `work`, two callers are two completions in
flight, two attempts and clock 4 a lease that ends and one that the deadline cuts; a
window of three over five steps drops steps; three events are report, resolution
and report again, for ids of which one continues another and one does not; the three digest limits one below the header, one with
room for some lines and one for most. In `runtime`, the second file is one that takes the first's
place at any step (and in the first run of the reference, alone there to keep the runs short (`FewFiles`), a third one
brings the first build back, the fewest files for which one can be measured and gone again), the second run finds what a dead one has left, a second server
request finds the first one's work still under way, and two lines of the store are
a measurement and its repetition, or the other writer's.
The theorems below hold without any of these bounds.

Deadlock is not checked: with bounded clocks, messages and faults, and all jobs
settled, the models may really stop; so may each part of `work` and `runtime`.

Symmetry is used where processes, messages or attempts are interchangeable
(`claims`, `faults`, `fleet`) and never in a run with a liveness property.

### Fairness

`notify` and `resolve` assume (`Fairness`): time passes; a call under way goes on, as
the code has no wait but its requests; every process polls again and again
(`claim`, `recover_notifications`), strongly, because other calls of the same
process take turns with it: this is the loop of the harness that embeds the
adapter; and a notifier of `Reachable` that is called again and again delivers at some
call. Nothing is assumed of the notifiers of other jobs, of completion, or of
renewal: a worker may never complete. In `FleetLease` no liveness is claimed:
nothing in the repository makes anyone call `disappear` when a lease ends. `vessel`
assumes only that some timer fires while timers are set, which is the browser's
promise; a worker may hang, and its messages may never be delivered. `ReferenceRun`
(`ReferenceFairness`) assumes that a run that was started and the adapter's call go on, as both
are plain code, and that the time a call gives a process runs out. The processes owe
nothing: they need not write, close or exit. `ReferenceEnds` is claimed for posix alone, as the Windows
probe may hang.

### What the violated runs show

- `commit_late`: between the last check and the acceptance write lies a request
  without a bound in time; the write is conditional on the ETag, not on the
  clock, so a result can be accepted after lease and deadline have ended. It is
  still the only one: the ETag excludes a newer claim (`AcceptedUnderCurrentClaim`).
- `fleet_race`: with a second controller on the log, an attempt starts on a
  vessel that has disappeared, and nobody will interrupt it.
- `changed`: the target is read as one candidate and changes between two of its checks. The packet
  is bound to the first, and accepted, though not all of it passed.
- `vessel_stopped`: a message of the worker that is on its way when Stop is pressed
  renders the session as joined again, so that Stop can be pressed twice. The page
  then remembers the second timer only, and the first fires over the next session: it
  says "Stopped. No worker is active." while that session's worker lives, Stop is
  disabled and Join does nothing.

## 4. Theorems

Assumed are only the named `ASSUME`s on constants, which every run evaluates. They say
what the code's own checks or its types say: a budget is positive, a manifest has
profiles and an import rows (`MatrixAssumption`), a line has a length and a text is not empty
(`CheckpointAssumption`), a throughput is a number (`SchedulingAssumption`).

Every safety and action property that a passing run checks is stated by a theorem
below, and so is the refinement of `FlashJob` by both of its implementations.

**FlashStorage**, for any processes, jobs, messages, results and options:

- `TypeCorrect`, `WellFormedAlways`. `TypeOK` alone is not inductive, as a step uses
  locals that an earlier step of the call has set; `WellFormed` adds which locals
  are in use at which program counter. One step per action.
- `InvariantHolds`: `IInv`. Its heart is `DecisionOK`: a snapshot that is still fresh *is*
  the blob. A conditional write therefore acts on the state its decision was
  taken on, and what the decision established (no acceptance, no terminal
  reason, this very lease, an attempt left, an index entry written) holds at
  the write. `JobOK` says what this keeps true of every job: generations count
  attempts, the lease belongs to the newest generation, no released token is a
  lease. Actions fall into those that leave all blobs alone ("quiet") and those
  that write one, which clears `fresh` in every other reader.
- `AcceptanceSafe`, `ReplaySafe`: `AcceptedUnderCurrentClaim` and `CompletionReplayable` are
  conjuncts of `IInv`. `OutcomeSafe`: `OutcomeIsFinal`, as `DecisionOK` lets no write start
  from an accepted or terminal snapshot.
- `OutcomesInvariant`: `OutInv`, which adds to `IInv` what a call has in hand between two
  requests (`CallOK`): a decision that was right when the job was read and is right still
  (`DecidedInTime`), a message that refers to its job (`TriggerInHand`), a lease that a renewal
  ends no earlier (`RenewalExtends`), and the outcome it is to acknowledge or to notify
  (`OutcomeInHand`); and what every context in memory was told (`ContextOK`). None of this can be
  undone by others, as outcomes, start times and what a message refers to stay and
  the clock only advances (`Onward`), so each step answers for its own process alone (`StepKeeps`).
- `LiveClaimSafe`, `AcksSafe`, `NotificationsSafe`, `TriggersSafe`, `BudgetsSafe`: conjuncts of `OutInv`.
  `LiveClaimIsCurrent` needs most of it: a new claim is written only where the old
  lease was over at the read, the ETag excludes a renewal since, and no context
  outlives the lease it was given.
- `OutcomesRefine`: `FlashStorage` implements `FlashJob` under the mapping `Abstract`. The create-only
  write publishes, the claim's write starts an attempt, `Terminate` exhausts, `Accept`
  accepts, `Notify` tells, and the last request of a completion answers; all others stutter.
- `ClientsRelyOnOutcomes`: what that promise is worth, from the refinement alone. `JobKept` is inductive
  for `FlashJob`: a job has a verified result exactly when it is accepted, of one of at most `MaxAttempts`
  attempts, and all that was ever told or answered about it is that result. `JobEndsOnce`: an ended
  job stays as it is. `FixtureClientsRely` says the same of `FlashDelivery`.

**FleetLease**, for any vessels, attempts, missions, leases and clock:

- `FleetTypeCorrect`, `AttemptEndsOnce`, `MissionsTracked`, assuming that one controller
  alone starts attempts (`SoleStarter`). The invariant `FleetInv` adds to the types that
  the fold is sound (`Sane`) and that a pending start names an attempt the log
  does not know. The latter needs the assumption: a second starter may append the same id
  first, and the event handler would overwrite an attempt that has ended.
- `LeasesHeld`, assuming that one controller alone makes all calls but the recording
  of timeouts (`SoleWriter`): `LostLeaseEndsAttempts`. The invariant `LeaseInv` adds what a
  pending event relies on (`Relies`): that the vessel to admit carries no attempt,
  that the lease to renew or to start on is held, that all attempts on a vessel
  that disappears are listed. Events that only end attempts preserve all of it,
  so any number of runners and recorders of timeouts may come in between.

**FlashDelivery**, for any callers, submissions, budgets and leases:

- `AcceptedLeaseKept`, `WithinBudget`. The invariant `DeliveryInv` adds to the types that a
  lease never outlives the deadline (`LeaseBounded`: both readings of the clock go
  through `LeaseEnd`), that an acceptance was made once, by the current lease of the
  last attempt (`AcceptedOnce`), and that nothing happens before construction
  (`Untouched`).
- `FixturePromise`: initial states and steps of the fixture are those of `FlashJob` under
  the mapping `Promise`; construction, claims, the acceptance and replays are its steps, and
  every other action stutters.

**FlashVessel**, for any sessions and visibility changes:

- `VesselTypeOK`, `VesselNoOrphans`, `VesselShownSession`.
- `VesselPausedWhileHidden`: a session that has caught up shows as paused exactly while the
  document is hidden. Nothing on the page says so: the invariant (`WorkerInv`) is about what is on
  its way. The queue to the worker ends with what the document is now
  (`WorkerWillKnow`), the queue to the page with the lifecycle of the worker
  (`PageWillKnow`), and a worker that no longer runs has sent word of it (`LastWord`). Each
  handler either adds to the end of one queue or takes from the front of the other.

**Evaluation**, for any candidates and predicates: `AcceptanceHolds`. `EvaluationInv` adds that a steady
run's candidate is still the target, so that each check of it found what holds of
the candidate (`ChecksHold`), in the run under way and in the packet that is judged again.

**Progress**, for any tools, window and limits: `MonitorLosesNothing`. `ProgressInv` places the two
bounded windows at the end of the history (`SignaturesAreLast`; `FailuresAreLast`, by a map
that keeps the order and leaves out earlier failures only), and both counters
(`EndsRun`, `EndsIdle`). What `observe` counts in its windows is then what `Expected` counts in
the history, as the cardinalities of two sets in bijection.

**Checkpoints**, for any texts, ids, sizes and limits: `CheckpointsSayLog`, `DigestsAreFull`. This is
induction over the log and over the lines of a digest. The library's induction
theorems cannot be used, but two lemmas do the same without an operator for a
parameter: `UpTo` (a *set* that has 0 and with n - 1 also n has all numbers: otherwise take
the least one it lacks) and `StepByStep` (a function that starts at a base and goes on
by given steps exists). With the second, `MaterializeIs`, `DroppedIs` and `RenderIs` unfold a recursive
function once and for all; with the first, `AfterEventSays` is carried along a log. It speaks
of failures as the fold treats them; that each one listed is unresolved, and all of them are where ids are
apart, is seen at the last report of each (`GreatestOf`, `FailingIsUnresolved`). For digests, what
is carried along (`Full`) says that an omitted line does not fit at the end: a later
line that was taken lengthens the digest by at least the title it saves the omitted one.

**Decisions**, for any members, participants and scopes: `EveryoneIsHeard`. `resolve`
compares two numbers; that they are equal says that *everyone* was heard only because
no one but participants ever is (`DecisionInv`), and finite sets of one cardinality, one in
the other, are the same.

**The work side together**: the five share no state, so a behaviour of `WorkSpec` is one of
each (`WorkIsItsParts`); hence its types (`WorkTyped`) and everything above at once (`WorkSafe`).

**NativeRuntime and ReferenceRun**, for any number of files and runs:

- `ProbeNeverLeft`, `NoProbeLeftByRun`. `NativeInv` says in which order a call's looks at the
  file came (`SeenInOrder`), what its result may say (`ResultSound`), and between which steps
  a probe exists (`ProbeBounded`).
- `OneBuildMeasured`, for any assignment of builds to files: a new file is never taken for an
  earlier one, so an identity that ends with the stat it began with is of one file. `RunInv`
  orders the validated, the measured and the identified file (`BinariesInOrder`), knows how many
  layers precede each step (`LayersSoFar`), that the adapter's call is the run's own
  (`CallsOwned`), and that past the selection the last file has the *build* of the first
  (`Settled`). If the measured file is of another build, it therefore lies strictly between two
  of the validated one's: it was rolled back. The exception is needed, and is what the code does: validated
  as A, executed and measured as B, identified as A again, a run passes its scheduling layer with A's
  validation, whose depth `direct` and `benchmark` raised without a comparison (`reference.py:125`, `:158`).
  The measurement names B and does not count for A.
- `ReportsBacked`: wherever this run and the others are killed. `ReportInv`: layers follow one another, all
  passed but the last (`Chain`); as long as the log can be read, the lines of a run in it
  are exactly the events it has got to, in their order (`LogIs`); of a report that was
  saved the log has at least as many (`LogBegins`), which growth of the file and runs that follow
  cannot change, as every line names its run.
- `ReferenceTyped`: a layer is recorded with the state of a validation, which is never "none", as
  what `validating` finds is what a call of `validate` returned (`ValidationAwaited`).

**LlamaServer**, for any requests and counts: `LeftWorkIsTold`, `SuccessInTime`. `ServerInv` adds
that a request under way with work at the server is waiting for it or has been answered by
something else than a finished completion (`WorkWaitedFor`), that outcomes are set at the end only (`OutcomeAtEnd`), and
that what was found to fit stays so (`Fits`).

**Scheduling**, for any profiles, vessels, missions and knowledge: `ChoiceMeasured`, `ChoiceUncontradicted`.
`SchedulingInv`: a choice is an eligible plan no other eligible one is ranked before
(`Least`), and what is known stays as it was when the scheduler was built. That `CHOOSE` finds one
at all needs that ranks, compared entry by entry, have a least element: one
position of the tuple after the other (`NarrowedIsThere`), each of them bounded from below. That the measurements that
`Speaking` names are those the filters let through (`SpeakingIs`) needs that all known identities of
the runtime of an eligible plan are one.

**BenchmarkMatrix**, for any runners, imports, builds and repetitions: `ReplayIsMeasured`. `MatrixInv`: whatever
states a measurement is backed by a line of the store, be it the saved report, the
records a writer holds, or those a replay has read. Only an import names its first row's
build before the line is there, but reads the report when all its rows are. The store only grows, and an appended line is
in it or was swallowed by a torn one, after which the store cannot be read.

**The runtime side together**: `RuntimeIsItsParts`, `RuntimeTyped`, `RuntimeSafe`. The native adapter
runs by itself or below reference runs; `AdapterInv` holds in both cases.

Only model-checked: liveness (`NotificationDelivered`, `JobResolved`, `StopTakesEffect`, `ReferenceEnds`). It rests
on fairness, and so on `ENABLED`, which the prover does not handle. That the steps of a model are possible at
all is shown by the runs alone, which fire every action.

## 5. Not modelled, and why

In `FlashStorage`: parsing and validation of blobs and messages, versions, the size
limits of queue messages, logging. A blob that does not parse makes every
page that contains it raise; the hazard is listed and needs no interleaving to
be seen. In `FleetLease`: torn log lines (they are in `JsonLines`, for the reference
run), crew and ruptures, time zones. In `FlashDelivery`: the parsing of requests. Of the contracts:
path scopes, which match strings. Of checkpoints: sessions, which copy fields. Of the
adapters: the text of the command line, the environment passed on, the parsing of
timings, and `apply_template`, one more post like the two that are modelled. Of the benchmarks: the
parsing of rows, `query_compatible`, and replays of profile contracts, which read one
file and keep no state.

Components marked `not_modelled`: discovery (parses what commands print), domain
models, registry and runtime records (validated records), the MCP gateway and the
function app (calls of others' libraries, one at a time), the command line,
experiments and fixtures (scripts), the offline package, infrastructure and
workflows (configuration). None of them keeps state between steps that could
come in another order.

## 6. Plan

1. Composition: `Evaluation` as the verifier of `FlashStorage`'s completion; `Scheduling` over the
   fleet of `FleetLease`, on a plan that is carried out later.
2. Theorems: for those compositions, from the invariants of their parts.
