------------------------------ MODULE FlashJob ------------------------------
(***************************************************************************)
(* What a Flash delivery service promises about its jobs, whatever queue,  *)
(* leases, processes and retries stand behind it (the contract of          *)
(* src/docs/flash-offline-http.md that FlashStorage is shown to keep).     *)
(*                                                                         *)
(* A job is published once, worked on in at most MaxAttempts attempts, and *)
(* ends in at most one of two ways: one verified result is accepted, or    *)
(* the job is exhausted.  Only an accepted result is ever told to the      *)
(* outside or answered to a worker.                                        *)
(***************************************************************************)
EXTENDS Naturals

CONSTANTS Jobs, Good, MaxAttempts, None

VARIABLES
  status,    \* status[j]: absent, open, accepted or exhausted
  attempts,  \* attempts[j]: attempts begun
  result,    \* result[j]: the accepted result, None until there is one
  told,      \* jobs whose result the notifier was given
  answered   \* <<job, result>> pairs answered to workers

jobVars == <<status, attempts, result, told, answered>>

JobInit ==
  /\ status = [j \in Jobs |-> "absent"]
  /\ attempts = [j \in Jobs |-> 0]
  /\ result = [j \in Jobs |-> None]
  /\ told = {} /\ answered = {}

Publish(j) ==
  /\ status[j] = "absent"
  /\ status' = [status EXCEPT ![j] = "open"]
  /\ UNCHANGED <<attempts, result, told, answered>>

StartAttempt(j) ==
  /\ status[j] = "open" /\ attempts[j] < MaxAttempts
  /\ attempts' = [attempts EXCEPT ![j] = @ + 1]
  /\ UNCHANGED <<status, result, told, answered>>

AcceptResult(j) ==
  /\ status[j] = "open" /\ attempts[j] > 0
  /\ status' = [status EXCEPT ![j] = "accepted"]
  /\ \E r \in Good : result' = [result EXCEPT ![j] = r]
  /\ UNCHANGED <<attempts, told, answered>>

Exhaust(j) ==
  /\ status[j] = "open"
  /\ status' = [status EXCEPT ![j] = "exhausted"]
  /\ UNCHANGED <<attempts, result, told, answered>>

Tell(j) ==
  /\ status[j] = "accepted"
  /\ told' = told \cup {j}
  /\ UNCHANGED <<status, attempts, result, answered>>

Answer(j) ==
  /\ status[j] = "accepted"
  /\ answered' = answered \cup {<<j, result[j]>>}
  /\ UNCHANGED <<status, attempts, result, told>>

JobStep(j) ==
  Publish(j) \/ StartAttempt(j) \/ AcceptResult(j) \/ Exhaust(j) \/ Tell(j) \/ Answer(j)

JobNext == \E j \in Jobs : JobStep(j)

JobSpec == JobInit /\ [][JobNext]_jobVars

\* What a client may rely on: no job has more attempts than its budget; a job
\* has a result exactly when it is accepted, one the verifier approved, of an
\* attempt; only accepted jobs are told, and all that workers were ever
\* answered about a job is its one result.
JobKept ==
  /\ status \in [Jobs -> {"absent", "open", "accepted", "exhausted"}]
  /\ attempts \in [Jobs -> 0..MaxAttempts]
  /\ result \in [Jobs -> Good \cup {None}]
  /\ \A j \in Jobs :
       /\ status[j] = "accepted" <=> result[j] # None
       /\ status[j] = "accepted" => attempts[j] > 0
       /\ status[j] = "absent" => attempts[j] = 0
  /\ \A j \in told : j \in Jobs /\ status[j] = "accepted"
  /\ \A a \in answered : \E j \in Jobs : status[j] = "accepted" /\ a = <<j, result[j]>>

\* And what a step may not undo: a job that has ended is not begun again, ends
\* in no other way, and keeps its result.
EndedStays ==
  \A j \in Jobs :
    status[j] \in {"accepted", "exhausted"} =>
      UNCHANGED <<status[j], attempts[j], result[j]>>

JobEndsOnce == [][EndedStays]_jobVars
=============================================================================
