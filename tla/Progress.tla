------------------------------ MODULE Progress ------------------------------
(***************************************************************************)
(* The progress monitor of a work attempt (work/progress.py), fed with the *)
(* tool completions the Pi adapter translates (adapters/pi_rpc.py).  The   *)
(* monitor keeps a bounded window of what it saw; the module compares what *)
(* it concludes with the whole history of the attempt.                     *)
(***************************************************************************)
EXTENDS Naturals, Sequences, FiniteSets

CONSTANTS
  Tools,             \* names of tools that are used
  RecentWindow, RepeatedCallLimit, ConsecutiveLimit, RepeatedFailureLimit,
  MaxNoProgress,     \* the policy; MaxNoProgress is max_no_progress_steps
  MaxSteps           \* steps of an attempt (bound)

\* The bounds a policy is validated against.
ProgressPolicy ==
  /\ RecentWindow \in Nat \ {0} /\ MaxNoProgress \in Nat \ {0}
  /\ {RepeatedCallLimit, ConsecutiveLimit, RepeatedFailureLimit} \subseteq Nat \ {0, 1}

ASSUME PolicyAssumption == ProgressPolicy

VARIABLES
  pSteps,        \* every step of the attempt; the monitor keeps windows of it:
  pSignatures,   \* signatures
  pConsecutive,  \* consecutive_count, of the last of the signatures
  pNoProgress,   \* no_progress_steps
  pFailures,     \* failure_pairs
  pIntervention  \* what observe returned last

progressVars == <<pSteps, pSignatures, pConsecutive, pNoProgress, pFailures, pIntervention>>

ProgressKind == {"information", "state_change", "verification", "recovery", "no_progress"}
Fingerprints == {"unknown", "f"}
Step == [action: Tools, failed: BOOLEAN, fingerprint: Fingerprints, progress: ProgressKind]
NoIntervention == [reason |-> "none", terminate |-> FALSE]
Reasons == {"repeated_failure_pair", "consecutive_repeated_action", "repeated_action",
            "no_progress_budget_exhausted"}

ProgressTypeOK ==
  /\ pSteps \in Seq(Step) /\ pSignatures \in Seq(Tools)
  /\ pConsecutive \in Nat /\ pNoProgress \in Nat
  /\ pFailures \in Seq(Tools \X Fingerprints)
  /\ pIntervention \in [reason: Reasons \cup {"none"}, terminate: BOOLEAN]

ProgressInit ==
  /\ pSteps = <<>> /\ pSignatures = <<>> /\ pConsecutive = 0 /\ pNoProgress = 0
  /\ pFailures = <<>> /\ pIntervention = NoIntervention

-----------------------------------------------------------------------------

\* What a tool's completion counts as (attempt_step_from_pi_event).  The
\* adapter passes no arguments on, so that a signature is the tool's name.
ProgressOf(tool) ==
  CASE tool \in {"edit", "write"} -> "state_change"
    [] tool = "bash" -> "verification"
    [] OTHER -> "information"

\* The last n elements of a sequence, or all of them: s[-n:].
LastOf(s, n) == IF Len(s) <= n THEN s ELSE SubSeq(s, Len(s) - n + 1, Len(s))
CountOf(s, x) == Cardinality({i \in DOMAIN s : s[i] = x})

\* Steps that show progress of their own.
Advances(step) ==
  \/ step.progress \in {"state_change", "recovery"}
  \/ step.progress = "verification" /\ ~step.failed

\* The intervention observe returns: the first reason in this order.
Intervene(failures, consecutive, recent, idle, progress) ==
  LET reason ==
        IF failures >= RepeatedFailureLimit THEN "repeated_failure_pair"
        ELSE IF consecutive >= ConsecutiveLimit THEN "consecutive_repeated_action"
        ELSE IF recent >= RepeatedCallLimit /\ progress # "verification" THEN "repeated_action"
        ELSE IF idle >= MaxNoProgress THEN "no_progress_budget_exhausted"
        ELSE "none"
  IN [reason |-> reason, terminate |-> reason # "none" /\ idle >= MaxNoProgress]

\* Mutant: the window is cut before the step is added to it.
WindowEarly(s, x) == Append(LastOf(s, RecentWindow), x)

\* The window after x was added to it.
Window(s, x) == LastOf(Append(s, x), RecentWindow)

\* observe(step).
Observe(step) ==
  LET pair == <<step.action, step.fingerprint>>
      recent == CountOf(pSignatures, step.action) + 1
      repeats == pSignatures # <<>> /\ pSignatures[Len(pSignatures)] = step.action
  IN /\ Len(pSteps) < MaxSteps /\ pSteps' = Append(pSteps, step)
     /\ pSignatures' = Window(pSignatures, step.action)
     /\ pConsecutive' = IF repeats THEN pConsecutive + 1 ELSE 1
     /\ pNoProgress' = IF Advances(step) THEN 0 ELSE pNoProgress + 1
     /\ pFailures' = IF step.failed THEN Window(pFailures, pair) ELSE pFailures
     /\ pIntervention' =
          Intervene(IF step.failed THEN CountOf(pFailures', pair) ELSE 0,
                    pConsecutive', recent, pNoProgress', step.progress)

\* Fingerprints are told apart only where a step failed: they are not read
\* otherwise.
ProgressNext ==
  \E tool \in Tools, failed \in BOOLEAN, fingerprint \in Fingerprints :
    /\ failed \/ fingerprint = "unknown"
    /\ Observe([action |-> tool, failed |-> failed, fingerprint |-> fingerprint,
                progress |-> ProgressOf(tool)])

ProgressSpec == ProgressInit /\ [][ProgressNext]_progressVars

-----------------------------------------------------------------------------
(* Properties.                                                             *)

\* What the windows and counters must lead observe to after the steps h, the
\* last of which is step, read off the whole history: its like among the last
\* RecentWindow failures, the unbroken run of equal calls it ends, the calls
\* like it among the last RecentWindow steps before it, and the steps since
\* the last that showed progress.
Expected(h) ==
  LET n == Len(h)
      step == h[n]
      like == {i \in 1..n : h[i].action = step.action}
      run == {i \in 1..n : i..n \subseteq like}
      idle == {i \in 1..n : \A k \in i..n : ~Advances(h[k])}
      failures == {i \in 1..n : h[i].failed}
      sameFailure ==
        {i \in failures \cap like : /\ h[i].fingerprint = step.fingerprint
                                    /\ Cardinality({k \in failures : k > i}) < RecentWindow}
  IN Intervene(IF step.failed THEN Cardinality(sameFailure) ELSE 0, Cardinality(run),
               Cardinality({i \in like : i >= n - RecentWindow}), Cardinality(idle), step.progress)

\* However long the attempt, the bounded windows lose nothing the policy asks
\* about: the monitor intervenes exactly when, and as, the whole history of
\* the attempt says (ProgressMonitor.observe).
MonitorSeesHistory == pSteps # <<>> => pIntervention = Expected(pSteps)
=============================================================================
