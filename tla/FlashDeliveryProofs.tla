------------------------ MODULE FlashDeliveryProofs ------------------------
(***************************************************************************)
(* The in-memory delivery fixture, for any budget, any callers and any     *)
(* results: the invariant that relates its lease to its attempts, the wall *)
(* budget and the accepted result, and what follows from it.               *)
(***************************************************************************)
EXTENDS FlashDelivery, TLAPS

\* A lease belongs to the last attempt and never outlives the wall budget:
\* what makes the one check of the lease at the commit enough.
LeaseBounded ==
  /\ dCurrent.lease \in {0, dAttempt}
  /\ dCurrent.lease # 0 => dCurrent.expires <= Deadline

\* What was answered on a replay, and what was accepted, and under which lease.
AcceptedOnce ==
  /\ Completed => /\ dAccepted \in Sound /\ dAcceptedBy # 0
                  /\ dCurrent.lease = dAcceptedBy /\ dAcceptedBy = dAttempt
  /\ \A r \in dAnswered : Completed /\ r = dAccepted

\* Nothing happens before the fixture is constructed.
Untouched ==
  dStarted = NotBuilt =>
    /\ dAttempt = 0 /\ ~Completed /\ dCalls = [c \in Callers |-> NoCall] /\ dCurrent.lease = 0

DeliveryInv == DeliveryTypeOK /\ LeaseBounded /\ AcceptedOnce /\ Untouched

LEMMA DeliveryInvInit == DeliveryInit => DeliveryInv
<1> SUFFICES ASSUME DeliveryInit PROVE DeliveryInv
  OBVIOUS
<1>1. dCurrent.lease = 0 /\ dCurrent \in [lease: Leases, expires: Nat]
  BY FixtureAssumption DEF DeliveryInit, NoLease, Leases
<1>2. dClock \in 0..FixtureClock /\ dAttempt \in 0..BudgetAttempts /\ dAcceptedBy \in Leases
  BY FixtureAssumption DEF DeliveryInit, Leases
<1>3. dReply \in Answers
  BY DEF DeliveryInit, Answers
<1>4. DeliveryTypeOK
  BY <1>1, <1>2, <1>3 DEF DeliveryInit, DeliveryTypeOK
<1> QED
  BY <1>1, <1>4
     DEF DeliveryInit, DeliveryInv, LeaseBounded, AcceptedOnce, Untouched, Completed

\* The end of a lease given within the budget: neither later than the deadline
\* nor negative.
LEMMA LeaseEndBounded ==
  ASSUME DeliveryInv, dStarted # NotBuilt, NEW now \in 0..FixtureClock
  PROVE  LeaseEnd(now) \in Nat /\ LeaseEnd(now) <= Deadline
BY FixtureAssumption DEF DeliveryInv, DeliveryTypeOK, LeaseEnd, Earlier, Deadline, NotBuilt

\* The steps that change neither the job nor what was answered.
LEMMA IdleKeeps ==
  ASSUME DeliveryInv, UNCHANGED <<job, ghosts>>, dReply' \in Answers,
         dClock' \in 0..FixtureClock,
         dCalls' \in [Callers -> [lease: Leases, result: Submissions \ Unencodable] \cup {NoCall}],
         dStarted = NotBuilt => dCalls' = dCalls
  PROVE  DeliveryInv'
BY DEF DeliveryInv, DeliveryTypeOK, LeaseBounded, AcceptedOnce, Untouched, Completed, Deadline,
       job, ghosts

LEMMA ConstructKeeps == DeliveryInv /\ Construct => DeliveryInv'
<1> SUFFICES ASSUME DeliveryInv, Construct PROVE DeliveryInv'
  OBVIOUS
<1>1. dAdmitted' \in BOOLEAN
  BY DEF Construct, Admits
<1>2. DeliveryTypeOK'
  BY <1>1 DEF DeliveryInv, DeliveryTypeOK, Construct, ghosts
<1>3. dCurrent.lease = 0 /\ ~Completed
  BY DEF DeliveryInv, Untouched, Construct
<1> QED
  BY <1>2, <1>3
     DEF DeliveryInv, LeaseBounded, AcceptedOnce, Untouched, Completed, Construct, ghosts, NotBuilt,
         DeliveryTypeOK

LEMMA ClaimKeeps == DeliveryInv /\ dStarted # NotBuilt /\ Claim => DeliveryInv'
<1> SUFFICES ASSUME DeliveryInv, dStarted # NotBuilt, Claim PROVE DeliveryInv'
  OBVIOUS
<1>1. PICK now \in dClock..FixtureClock :
        /\ Claimable(now) /\ dClock' = now /\ dAttempt' = dAttempt + 1
        /\ dCurrent' = [lease |-> dAttempt + 1, expires |-> LeaseEnd(now)]
  BY DEF Claim
<1>2. now \in 0..FixtureClock
  BY DEF DeliveryInv, DeliveryTypeOK
<1>3. LeaseEnd(now) \in Nat /\ LeaseEnd(now) <= Deadline
  BY <1>2, LeaseEndBounded
<1>4. dAttempt' \in 0..BudgetAttempts /\ ~Completed
  BY <1>1, FixtureAssumption DEF Claimable, DeliveryInv, DeliveryTypeOK
<1>5. DeliveryTypeOK'
  BY <1>1, <1>2, <1>3, <1>4
     DEF DeliveryInv, DeliveryTypeOK, Claim, ghosts, Leases, Answers
<1> QED
  BY <1>1, <1>3, <1>4, <1>5
     DEF DeliveryInv, LeaseBounded, AcceptedOnce, Untouched, Completed, Claim, ghosts, Deadline

LEMMA RenewKeeps ==
  ASSUME DeliveryInv, dStarted # NotBuilt, NEW lease \in Leases, Renew(lease)
  PROVE  DeliveryInv'
<1>1. PICK now \in dClock..FixtureClock :
        dClock' = now /\ dCurrent' = [dCurrent EXCEPT !.expires = LeaseEnd(now)]
  BY DEF Renew
<1>2. now \in 0..FixtureClock
  BY DEF DeliveryInv, DeliveryTypeOK
<1>3. LeaseEnd(now) \in Nat /\ LeaseEnd(now) <= Deadline
  BY <1>2, LeaseEndBounded
<1>4. dCurrent'.lease = dCurrent.lease /\ dCurrent'.expires = LeaseEnd(now)
      /\ dCurrent' \in [lease: Leases, expires: Nat]
  BY <1>1, <1>3 DEF DeliveryInv, DeliveryTypeOK
<1>5. DeliveryTypeOK'
  BY <1>1, <1>2, <1>4 DEF DeliveryInv, DeliveryTypeOK, Renew, ghosts, Answers
<1> QED
  BY <1>3, <1>4, <1>5
     DEF DeliveryInv, LeaseBounded, AcceptedOnce, Untouched, Completed, Renew, ghosts, Deadline,
         Current

LEMMA AbandonKeeps ==
  ASSUME DeliveryInv, dStarted # NotBuilt, NEW lease \in Leases, Abandon(lease)
  PROVE  DeliveryInv'
<1>1. dCurrent'.lease = 0 /\ dCurrent' \in [lease: Leases, expires: Nat] /\ ~Completed
  BY FixtureAssumption DEF Abandon, NoLease, Leases, Current
<1>2. dReply' \in Answers
  BY DEF Abandon, Answers
<1>3. DeliveryTypeOK'
  BY <1>1, <1>2 DEF DeliveryInv, DeliveryTypeOK, Abandon, ghosts
<1> QED
  BY <1>1, <1>3
     DEF DeliveryInv, LeaseBounded, AcceptedOnce, Untouched, Completed, Abandon, ghosts

LEMMA BeginKeeps ==
  ASSUME DeliveryInv, dStarted # NotBuilt, NEW c \in Callers, NEW lease \in Leases,
         NEW r \in Submissions, BeginComplete(c, lease, r)
  PROVE  DeliveryInv'
<1>1. dCalls' \in [Callers -> [lease: Leases, result: Submissions \ Unencodable] \cup {NoCall}]
  BY DEF DeliveryInv, DeliveryTypeOK, BeginComplete
<1>2. dReply' \in Answers
  <2>1. dReply' \in {"invalid_result", "completed", "lease_conflict", dReply}
    BY DEF BeginComplete
  <2>2. {"invalid_result", "completed", "lease_conflict"} \subseteq Answers
    BY DEF Answers
  <2> QED
    BY <2>1, <2>2 DEF DeliveryInv, DeliveryTypeOK
<1>3. \/ UNCHANGED dAnswered
      \/ Completed /\ dAnswered' = dAnswered \cup {dAccepted}
  BY DEF BeginComplete, Replays
<1>4. dAnswered' \subseteq Submissions
  BY <1>3 DEF DeliveryInv, DeliveryTypeOK, Completed
<1> QED
  BY <1>1, <1>2, <1>3, <1>4
     DEF DeliveryInv, DeliveryTypeOK, LeaseBounded, AcceptedOnce, Untouched, Completed, Deadline,
         BeginComplete, job

LEMMA EndKeeps ==
  ASSUME DeliveryInv, dStarted # NotBuilt, NEW c \in Callers, EndComplete(c)
  PROVE  DeliveryInv'
<1>1. dCalls' \in [Callers -> [lease: Leases, result: Submissions \ Unencodable] \cup {NoCall}]
  BY DEF DeliveryInv, DeliveryTypeOK, EndComplete
<1>2. dReply' \in Answers
  <2>1. dReply' \in {"invalid_result", "internal_error", "invalid_request", "completed",
                     "lease_conflict"}
    BY DEF EndComplete, Verified, VerifierRaised
  <2>2. {"invalid_result", "internal_error", "completed", "lease_conflict"} \subseteq Answers
    BY DEF Answers
  <2>3. Refused["content_type"] = "invalid_request" /\ "content_type" \in DOMAIN Refused
    BY DEF Refused
  <2>4. "invalid_request" \in Answers
    BY <2>3 DEF Answers
  <2> QED
    BY <2>1, <2>2, <2>4
<1>3. CASE UNCHANGED <<dAccepted, dAcceptedBy>>
  BY <1>1, <1>2, <1>3, IdleKeeps
     DEF EndComplete, job, ghosts, DeliveryInv, DeliveryTypeOK
<1>4. CASE ~UNCHANGED <<dAccepted, dAcceptedBy>>
  <2>1. /\ dCalls[c].result \in Sound /\ Current(dCalls[c].lease)
        /\ dAccepted' = dCalls[c].result /\ dAcceptedBy' = dCalls[c].lease
    BY <1>4 DEF EndComplete, Verified
  <2>2. /\ dAcceptedBy' = dCurrent.lease /\ dCurrent.lease # 0 /\ ~Completed
        /\ dCurrent.lease = dAttempt
    BY <2>1 DEF Current, DeliveryInv, LeaseBounded
  <2>3. dAccepted' \in Sound /\ dAccepted' # NoSubmission /\ dAccepted' \in Submissions
    BY <2>1, FixtureAssumption
  <2>4. DeliveryTypeOK'
    BY <1>1, <1>2, <2>2, <2>3 DEF DeliveryInv, DeliveryTypeOK, EndComplete
  <2> QED
    BY <2>2, <2>3, <2>4
       DEF DeliveryInv, LeaseBounded, AcceptedOnce, Untouched, Completed, Deadline, EndComplete
<1> QED
  BY <1>3, <1>4

\* Every step of the fixture and its adapter keeps the invariant.
LEMMA DeliveryInvNext == DeliveryInv /\ [DeliveryNext]_deliveryVars => DeliveryInv'
<1> SUFFICES ASSUME DeliveryInv, [DeliveryNext]_deliveryVars PROVE DeliveryInv'
  OBVIOUS
<1>1. CASE Construct
  BY <1>1, ConstructKeeps
<1>2. ASSUME dStarted # NotBuilt, Request PROVE DeliveryInv'
  <2>1. CASE ClaimRefused \/ Refuse \/ \E lease \in Leases : Conflict(lease)
    <3>1. UNCHANGED <<job, ghosts, dClock, dCalls>> /\ dReply' \in Answers
      BY <2>1 DEF ClaimRefused, Refuse, Conflict, Answers
    <3> QED
      BY <3>1, IdleKeeps DEF DeliveryInv, DeliveryTypeOK
  <2>2. CASE Claim
    BY <1>2, <2>2, ClaimKeeps
  <2>3. CASE \E lease \in Leases : Renew(lease) \/ Abandon(lease)
    BY <1>2, <2>3, RenewKeeps, AbandonKeeps
  <2>4. CASE \E c \in Callers, lease \in Leases, r \in Submissions : BeginComplete(c, lease, r)
    BY <1>2, <2>4, BeginKeeps
  <2>5. CASE \E c \in Callers : EndComplete(c)
    BY <1>2, <2>5, EndKeeps
  <2> QED
    BY <1>2, <2>1, <2>2, <2>3, <2>4, <2>5 DEF Request
<1>3. CASE DeliveryTick
  <2>1. dClock' \in 0..FixtureClock
    BY <1>3, FixtureAssumption DEF DeliveryTick, DeliveryInv, DeliveryTypeOK
  <2> QED
    BY <1>3, <2>1, IdleKeeps DEF DeliveryTick, DeliveryInv, DeliveryTypeOK
<1>4. CASE UNCHANGED deliveryVars
  BY <1>4, IdleKeeps DEF deliveryVars, job, ghosts, DeliveryInv, DeliveryTypeOK
<1> QED
  BY <1>1, <1>2, <1>3, <1>4 DEF DeliveryNext

LEMMA DeliveryInvariant == DeliverySpec => []DeliveryInv
BY DeliveryInvInit, DeliveryInvNext, PTL DEF DeliverySpec

\* The lease that delivered the accepted result stays the current one, and is
\* that of the last attempt: after complete no claim, renewal, abandon or
\* second completion in flight takes it away.
THEOREM AcceptedLeaseKept == DeliverySpec => []AcceptedLeaseStays
<1>1. DeliveryInv => AcceptedLeaseStays
  BY DEF DeliveryInv, AcceptedOnce, AcceptedLeaseStays
<1> QED
  BY <1>1, DeliveryInvariant, PTL

\* Only the end of a completion whose lease is current accepts a result.
LEMMA OnlyEndAccepts ==
  ASSUME DeliveryNext, dAccepted' # dAccepted
  PROVE  \E c \in Callers :
           /\ EndComplete(c) /\ dStarted # NotBuilt
           /\ dCalls[c].result \in Sound /\ dAccepted' = dCalls[c].result
           /\ Current(dCalls[c].lease)
<1>1. PICK c \in Callers : EndComplete(c) /\ dStarted # NotBuilt
  BY DEF DeliveryNext, Request, Construct, ClaimRefused, Claim, Refuse, Renew, Abandon, Conflict,
         BeginComplete, DeliveryTick, job
<1> QED
  BY <1>1 DEF EndComplete, Verified

\* No result is accepted past the wall budget, however claims and renewals
\* near the deadline read the clock.
THEOREM WithinBudget == DeliverySpec => AcceptedWithinBudget
<1>1. DeliveryInv /\ [DeliveryNext]_deliveryVars
        => [dAccepted' # dAccepted => dClock < Deadline]_deliveryVars
  <2> SUFFICES ASSUME DeliveryInv, DeliveryNext, dAccepted' # dAccepted PROVE dClock < Deadline
    OBVIOUS
  <2>1. PICK c \in Callers : Current(dCalls[c].lease)
    BY OnlyEndAccepts
  <2>2. dClock < dCurrent.expires /\ dCurrent.expires <= Deadline
    BY <2>1 DEF Current, DeliveryInv, LeaseBounded
  <2> QED
    BY <2>2, FixtureAssumption DEF DeliveryInv, DeliveryTypeOK, Deadline, NotBuilt
<1> QED
  BY <1>1, DeliveryInvariant, PTL DEF DeliverySpec, AcceptedWithinBudget

-----------------------------------------------------------------------------
(* The promise kept.                                                       *)

\* Steps that change nothing the promise speaks of.
LEMMA Stutters ==
  ASSUME UNCHANGED <<dStarted, dAttempt, dAccepted, dAnswered>>
  PROVE  UNCHANGED Promise!jobVars
BY DEF Promise!jobVars, Completed

LEMMA ConstructPublishes == DeliveryInv /\ Construct => Promise!Publish(1)
<1> SUFFICES ASSUME DeliveryInv, Construct PROVE Promise!Publish(1)
  OBVIOUS
<1>1. dStarted = NotBuilt /\ dStarted' # NotBuilt
  BY FixtureAssumption DEF DeliveryInv, DeliveryTypeOK, Construct, NotBuilt
<1>2. ~Completed /\ ~Completed'
  BY <1>1 DEF DeliveryInv, Untouched, Construct, Completed
<1>3. UNCHANGED <<dAttempt, dAccepted, dAnswered>>
  BY DEF Construct, ghosts
<1> QED
  BY <1>1, <1>2, <1>3 DEF Promise!Publish

LEMMA ClaimStarts == DeliveryInv /\ dStarted # NotBuilt /\ Claim => Promise!StartAttempt(1)
BY DEF Claim, Claimable, Completed, ghosts, Promise!StartAttempt

LEMMA BeginAnswers ==
  ASSUME DeliveryInv, dStarted # NotBuilt, NEW c \in Callers, NEW lease \in Leases,
         NEW r \in Submissions, BeginComplete(c, lease, r)
  PROVE  Promise!Answer(1) \/ UNCHANGED Promise!jobVars
<1>1. CASE UNCHANGED dAnswered
  BY <1>1, Stutters DEF BeginComplete, job
<1>2. CASE ~UNCHANGED dAnswered
  <2>1. Completed /\ dAnswered' = dAnswered \cup {dAccepted}
    BY <1>2 DEF BeginComplete, Replays
  <2>2. {<<1, a>> : a \in dAnswered'} = {<<1, a>> : a \in dAnswered} \cup {<<1, dAccepted>>}
    BY <2>1
  <2> QED
    BY <2>1, <2>2 DEF BeginComplete, job, Completed, Promise!Answer
<1> QED
  BY <1>1, <1>2

LEMMA EndAccepts ==
  ASSUME DeliveryInv, dStarted # NotBuilt, NEW c \in Callers, EndComplete(c)
  PROVE  Promise!AcceptResult(1) \/ UNCHANGED Promise!jobVars
<1>1. CASE UNCHANGED dAccepted
  BY <1>1, Stutters DEF EndComplete
<1>2. CASE ~UNCHANGED dAccepted
  <2>1. /\ dCalls[c].result \in Sound /\ dAccepted' = dCalls[c].result
        /\ Current(dCalls[c].lease)
    BY <1>2 DEF EndComplete, Verified
  <2>2. dAttempt > 0 /\ ~Completed
    BY <2>1, FixtureAssumption DEF Current, DeliveryInv, LeaseBounded, DeliveryTypeOK
  <2>3. Completed'
    BY <2>1, FixtureAssumption DEF Completed
  <2> QED
    BY <1>2, <2>1, <2>2, <2>3 DEF EndComplete, Promise!AcceptResult
<1> QED
  BY <1>1, <1>2

\* The fixture, with its adapter, is a delivery service as FlashJob has it:
\* its initial state and each of its steps are those of the promise, seen
\* through what was constructed, begun, accepted and answered again.
THEOREM FixturePromise == DeliverySpec => FixtureKeepsPromise
<1>1. DeliveryInit => Promise!JobInit
  BY FixtureAssumption DEF DeliveryInit, Promise!JobInit, NotBuilt
<1>2. DeliveryInv /\ [DeliveryNext]_deliveryVars => [Promise!JobNext]_(Promise!jobVars)
  <2> SUFFICES ASSUME DeliveryInv, [DeliveryNext]_deliveryVars
               PROVE  Promise!JobStep(1) \/ UNCHANGED Promise!jobVars
    BY DEF Promise!JobNext
  <2>1. CASE Construct
    BY <2>1, ConstructPublishes DEF Promise!JobStep
  <2>2. ASSUME dStarted # NotBuilt, Request
        PROVE  Promise!JobStep(1) \/ UNCHANGED Promise!jobVars
    <3>1. CASE ClaimRefused \/ Refuse
      BY <3>1, Stutters DEF ClaimRefused, Refuse, job, ghosts
    <3>2. CASE Claim
      BY <2>2, <3>2, ClaimStarts DEF Promise!JobStep
    <3>3. CASE \E lease \in Leases : Renew(lease) \/ Abandon(lease) \/ Conflict(lease)
      BY <3>3, Stutters DEF Renew, Abandon, Conflict, job, ghosts
    <3>4. CASE \E c \in Callers, lease \in Leases, r \in Submissions : BeginComplete(c, lease, r)
      BY <2>2, <3>4, BeginAnswers DEF Promise!JobStep
    <3>5. CASE \E c \in Callers : EndComplete(c)
      BY <2>2, <3>5, EndAccepts DEF Promise!JobStep
    <3> QED
      BY <2>2, <3>1, <3>2, <3>3, <3>4, <3>5 DEF Request
  <2>3. CASE DeliveryTick \/ UNCHANGED deliveryVars
    BY <2>3, Stutters DEF DeliveryTick, deliveryVars, job, ghosts
  <2> QED
    BY <2>1, <2>2, <2>3 DEF DeliveryNext
<1> QED
  BY <1>1, <1>2, DeliveryInvariant, PTL DEF DeliverySpec, FixtureKeepsPromise, Promise!JobSpec

\* FlashJob keeps what its clients rely on (JobKept) and undoes nothing
\* (EndedStays), here read on the state of the fixture.
LEMMA FixtureStepKeeps ==
  ASSUME Promise!JobKept, Promise!JobStep(1)
  PROVE  Promise!JobKept' /\ Promise!EndedStays
<1> DEFINE status == [j \in {1} |-> IF dStarted = NotBuilt THEN "absent"
                                    ELSE IF Completed THEN "accepted" ELSE "open"]
           attempts == [j \in {1} |-> dAttempt]
           result == [j \in {1} |-> dAccepted]
           answered == {<<1, r>> : r \in dAnswered}
<1>1. /\ status[1] \in {"absent", "open", "accepted", "exhausted"}
      /\ attempts[1] \in 0..BudgetAttempts /\ result[1] \in Sound \cup {NoSubmission}
      /\ status[1] = "accepted" <=> result[1] # NoSubmission
      /\ status[1] = "accepted" => attempts[1] > 0
      /\ status[1] = "absent" => attempts[1] = 0
      /\ \A a \in answered : status[1] = "accepted" /\ a = <<1, result[1]>>
      /\ BudgetAttempts \in Nat /\ NoSubmission \notin Sound
  BY FixtureAssumption DEF Promise!JobKept
<1>2. \/ /\ status[1] = "absent" /\ status' = [status EXCEPT ![1] = "open"]
         /\ UNCHANGED <<attempts, result, answered>>
      \/ /\ status[1] = "open" /\ attempts[1] < BudgetAttempts
         /\ attempts' = [attempts EXCEPT ![1] = @ + 1] /\ UNCHANGED <<status, result, answered>>
      \/ /\ status[1] = "open" /\ attempts[1] > 0 /\ status' = [status EXCEPT ![1] = "accepted"]
         /\ \E r \in Sound : result' = [result EXCEPT ![1] = r]
         /\ UNCHANGED <<attempts, answered>>
      \/ /\ status[1] = "open" /\ status' = [status EXCEPT ![1] = "exhausted"]
         /\ UNCHANGED <<attempts, result, answered>>
      \/ UNCHANGED <<status, attempts, result, answered>>
      \/ /\ status[1] = "accepted" /\ answered' = answered \cup {<<1, result[1]>>}
         /\ UNCHANGED <<status, attempts, result>>
  BY DEF Promise!JobStep, Promise!Publish, Promise!StartAttempt, Promise!AcceptResult,
     Promise!Exhaust, Promise!Tell, Promise!Answer
<1>3. DOMAIN status = {1} /\ DOMAIN attempts = {1} /\ DOMAIN result = {1}
  OBVIOUS
<1>4. Promise!EndedStays
  <2> HIDE DEF answered
  <2>1. status[1] \in {"accepted", "exhausted"} =>
          UNCHANGED <<status[1], attempts[1], result[1]>>
    BY <1>1, <1>2
  <2>2. QED
    BY <2>1 DEF Promise!EndedStays
<1>5. /\ status'[1] \in {"absent", "open", "accepted", "exhausted"}
      /\ attempts'[1] \in 0..BudgetAttempts /\ result'[1] \in Sound \cup {NoSubmission}
      /\ status'[1] = "accepted" <=> result'[1] # NoSubmission
      /\ status'[1] = "accepted" => attempts'[1] > 0
      /\ status'[1] = "absent" => attempts'[1] = 0
  <2> HIDE DEF status, attempts, result, answered
  <2>1. QED
    BY <1>1, <1>2, <1>3
<1>6. \A a \in answered' : status'[1] = "accepted" /\ a = <<1, result'[1]>>
  <2> HIDE DEF status, attempts, result, answered
  <2>1. QED
    BY <1>1, <1>2, <1>3
<1>7. Promise!JobKept'
  <2>1. /\ status' \in [{1} -> {"absent", "open", "accepted", "exhausted"}]
        /\ attempts' \in [{1} -> 0..BudgetAttempts]
        /\ result' \in [{1} -> Sound \cup {NoSubmission}]
    BY <1>5
  <2> HIDE DEF answered
  <2>2. \A a \in answered' : \E j \in {1} : status'[j] = "accepted" /\ a = <<j, result'[j]>>
    BY <1>6
  <2>3. \A j \in {1} :
          /\ status'[j] = "accepted" <=> result'[j] # NoSubmission
          /\ status'[j] = "accepted" => attempts'[j] > 0
          /\ status'[j] = "absent" => attempts'[j] = 0
    BY <1>5
  <2> USE DEF answered
  <2>4. QED
    BY <2>1, <2>2, <2>3, Zenon DEF Promise!JobKept
<1>8. QED
  BY <1>4, <1>7

\* The clients of the fixture rely on the same as those of the durable adapter:
\* its job has at most BudgetAttempts attempts, a result exactly when it is
\* accepted, one the verifier approved; retries of complete are answered with
\* that result alone; and nothing happens to the job once it is accepted.
THEOREM FixtureClientsRely == DeliverySpec => []Promise!JobKept /\ Promise!JobEndsOnce
<1>1. Promise!JobInit => Promise!JobKept
  <2> HIDE DEF Completed
  <2>1. QED
    BY FixtureAssumption DEF Promise!JobInit, Promise!JobKept
<1>2. Promise!JobKept /\ Promise!JobNext => Promise!JobKept' /\ Promise!EndedStays
  BY FixtureStepKeeps DEF Promise!JobNext
<1>3. Promise!JobKept /\ UNCHANGED Promise!jobVars => Promise!JobKept'
  BY DEF Promise!JobKept, Promise!jobVars
<1>4. QED
  BY <1>1, <1>2, <1>3, FixturePromise, PTL
     DEF FixtureKeepsPromise, Promise!JobSpec, Promise!JobEndsOnce

=============================================================================
