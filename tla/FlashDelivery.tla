--------------------------- MODULE FlashDelivery ---------------------------
(***************************************************************************)
(* The in-memory Flash delivery fixture (work/flash_delivery.py) behind    *)
(* its HTTP adapter (work/flash_http.py): one job, the lease of its        *)
(* current attempt, and callers that claim, renew, abandon and complete.   *)
(*                                                                         *)
(* Every call runs to its end without another one in between, except that  *)
(* the verifier "may be slow or yield": a completion is a call that begins *)
(* in one step and ends in another.  Time passes between any two steps,    *)
(* and between the readings of the clock within a claim and a renewal.     *)
(***************************************************************************)
EXTENDS Integers

CONSTANTS
  Callers,         \* HTTP callers, each with at most one completion under way
  Submissions,     \* results callers submit
  Sound,           \* those the trusted verifier approves
  Unencodable,     \* those that are not finite JSON data
  NoSubmission,    \* stands for no result
  BudgetAttempts,  \* budget.max_attempts of the contract
  BudgetSeconds,   \* budget.wall_seconds of the contract
  FixtureSeconds,  \* lease_seconds of the fixture
  FixtureClock     \* the clock stops here (bound)

ASSUME FixtureAssumption ==
  /\ Sound \subseteq Submissions \ Unencodable /\ Unencodable \subseteq Submissions
  /\ NoSubmission \notin Submissions
  /\ BudgetAttempts \in Nat \ {0} /\ BudgetSeconds \in Nat \ {0}
  /\ FixtureSeconds \in Nat \ {0} /\ FixtureClock \in Nat

VARIABLES
  dClock,       \* the injected clock
  dStarted,     \* started_at, NotBuilt before the fixture is constructed
  dAdmitted,    \* the adapter's admitted
  dAttempt,     \* attempt_number
  dCurrent,     \* current: lease 0 when there is none
  dAccepted,    \* the accepted result; completed is set together with it
  dCalls,       \* dCalls[c]: the completion whose verifier runs, lease -1 when none
  dReply,       \* what the adapter answered last
  dAnswered,    \* results answered on a replay; read by properties only
  dAcceptedBy   \* lease whose completion was accepted; read by properties only

deliveryVars == <<dClock, dStarted, dAdmitted, dAttempt, dCurrent, dAccepted, dCalls, dReply,
                  dAnswered, dAcceptedBy>>

NotBuilt == -1
NoLease == [lease |-> 0, expires |-> 0]
NoCall == [lease |-> -1, result |-> NoSubmission]
UnknownMemory == 0   \* a memory figure nobody knows

\* Leases a caller may name: 0 is one that was never issued.
Leases == 0..BudgetAttempts

\* What the adapter answers when a request fails a check, by the first check
\* it fails; nothing else happens then.
Refused ==
  [method |-> "method_not_allowed", content_type |-> "invalid_request",
   length |-> "invalid_request", too_large |-> "body_too_large",
   short_body |-> "invalid_request", route |-> "not_found", body |-> "invalid_request"]

Answers ==
  {"none", "claimed", "no_work", "declined", "renewed", "abandoned", "completed",
   "lease_conflict", "invalid_result", "internal_error"} \cup {Refused[f] : f \in DOMAIN Refused}

DeliveryTypeOK ==
  /\ dClock \in 0..FixtureClock /\ dStarted \in {NotBuilt} \cup 0..FixtureClock
  /\ dAdmitted \in BOOLEAN /\ dAttempt \in 0..BudgetAttempts
  /\ dCurrent \in [lease: Leases, expires: Nat]
  /\ dAccepted \in Submissions \cup {NoSubmission}
  /\ dCalls \in [Callers -> [lease: Leases, result: Submissions \ Unencodable] \cup {NoCall}]
  /\ dReply \in Answers
  /\ dAnswered \subseteq Submissions /\ dAcceptedBy \in Leases

DeliveryInit ==
  /\ dClock = 0 /\ dStarted = NotBuilt /\ dAdmitted = FALSE /\ dAttempt = 0
  /\ dCurrent = NoLease /\ dAccepted = NoSubmission
  /\ dCalls = [c \in Callers |-> NoCall]
  /\ dReply = "none" /\ dAnswered = {} /\ dAcceptedBy = 0

\* Groups of variables that steps leave alone together.
job == <<dStarted, dAdmitted, dAttempt, dCurrent, dAccepted>>
ghosts == <<dAnswered, dAcceptedBy>>

-----------------------------------------------------------------------------

Deadline == dStarted + BudgetSeconds
Completed == dAccepted # NoSubmission
Earlier(a, b) == IF a < b THEN a ELSE b

\* Mutant: a lease may outlive the wall budget.
LeaseEndUncapped(now) == now + FixtureSeconds

\* lease_expires_at of a lease given or renewed at now.
LeaseEnd(now) == Earlier(now + FixtureSeconds, Deadline)

\* FlashExecutionExtensionV1.admits: fails closed on whatever is not known.
Admits(state, initialised, required, observed) ==
  /\ state = "available" /\ initialised
  /\ required # UnknownMemory /\ observed # UnknownMemory /\ observed >= required

\* The fixture and its adapter are constructed; the contract may have no
\* flash_execution extension at all.
Construct ==
  /\ dStarted = NotBuilt /\ dStarted' = dClock
  /\ \E state \in {"available", "unavailable", "unknown"}, initialised, extended \in BOOLEAN,
        required, observed \in {UnknownMemory, 1, 2} :
       dAdmitted' = (extended /\ Admits(state, initialised, required, observed))
  /\ UNCHANGED <<dClock, dAttempt, dCurrent, dAccepted, dCalls, dReply, ghosts>>

\* _require_current: the lease is the current one and still runs.
Current(lease) == ~Completed /\ dCurrent.lease = lease /\ lease # 0 /\ dClock < dCurrent.expires

\* Mutant: the attempts of the contract's budget are not counted.
ClaimableUnbudgeted(now) ==
  /\ ~Completed /\ dClock < Deadline
  /\ dCurrent.lease # 0 => now >= dCurrent.expires

\* What a claim that has read the clock again at now requires.
Claimable(now) ==
  /\ ~Completed /\ dClock < Deadline /\ dAttempt < BudgetAttempts
  /\ dCurrent.lease # 0 => now >= dCurrent.expires

\* A claim that is declined, or finds no work.
ClaimRefused ==
  /\ \/ ~dAdmitted /\ dReply' = "declined"
     \/ dAdmitted /\ ~Claimable(dClock) /\ dReply' = "no_work"
  /\ UNCHANGED <<dClock, job, dCalls, ghosts>>

\* claim: the lease runs from a later reading of the clock than the one the
\* deadline is compared with.
Claim ==
  /\ dAdmitted
  /\ \E now \in dClock..FixtureClock :
       /\ Claimable(now)
       /\ dClock' = now
       /\ dAttempt' = dAttempt + 1
       /\ dCurrent' = [lease |-> dAttempt + 1, expires |-> LeaseEnd(now)]
  /\ dReply' = "claimed"
  /\ UNCHANGED <<dStarted, dAdmitted, dAccepted, dCalls, ghosts>>

\* renew, which reads the clock again once the lease has been found current.
Renew(lease) ==
  /\ Current(lease)
  /\ \E now \in dClock..FixtureClock :
       dClock' = now /\ dCurrent' = [dCurrent EXCEPT !.expires = LeaseEnd(now)]
  /\ dReply' = "renewed"
  /\ UNCHANGED <<dStarted, dAdmitted, dAttempt, dAccepted, dCalls, ghosts>>

Abandon(lease) ==
  /\ Current(lease)
  /\ dCurrent' = NoLease /\ dReply' = "abandoned"
  /\ UNCHANGED <<dClock, dStarted, dAdmitted, dAttempt, dAccepted, dCalls, ghosts>>

\* A renewal or an abandon under a lease that is not current.
Conflict(lease) ==
  /\ ~Current(lease) /\ dReply' = "lease_conflict"
  /\ UNCHANGED <<dClock, job, dCalls, ghosts>>
-----------------------------------------------------------------------------
(* complete.                                                               *)

\* The accepted result submitted again under the lease that delivered it.
Replays(lease, r) == Completed /\ dCurrent.lease = lease /\ lease # 0 /\ r = dAccepted

\* Up to the call of the verifier, or to the answer where it is not called.
BeginComplete(c, lease, r) ==
  /\ dCalls[c] = NoCall
  /\ \/ /\ r \in Unencodable /\ dReply' = "invalid_result"
        /\ UNCHANGED <<dCalls, dAnswered>>
     \/ /\ r \notin Unencodable /\ Replays(lease, r)
        /\ dReply' = "completed" /\ dAnswered' = dAnswered \cup {dAccepted}
        /\ UNCHANGED dCalls
     \/ /\ r \notin Unencodable /\ ~Replays(lease, r) /\ ~Current(lease)
        /\ dReply' = "lease_conflict"
        /\ UNCHANGED <<dCalls, dAnswered>>
     \/ /\ r \notin Unencodable /\ Current(lease)
        /\ dCalls' = [dCalls EXCEPT ![c] = [lease |-> lease, result |-> r]]
        /\ UNCHANGED <<dReply, dAnswered>>
  /\ UNCHANGED <<dClock, job, dAcceptedBy>>

\* Mutant: once the verifier has answered, the lease is not checked again.
VerifiedUnchecked(c) ==
  /\ dAccepted' = dCalls[c].result /\ dAcceptedBy' = dCalls[c].lease
  /\ dReply' = "completed"

\* The verifier approves: the lease must still be current.
Verified(c) ==
  LET call == dCalls[c]
  IN IF Current(call.lease)
     THEN /\ dAccepted' = call.result /\ dAcceptedBy' = call.lease
          /\ dReply' = "completed"
     ELSE dReply' = "lease_conflict" /\ UNCHANGED <<dAccepted, dAcceptedBy>>

\* What the adapter answers when the verifier raises: the answer goes by the
\* exception, and the fixture's own LeaseError and VerificationError are
\* exceptions a verifier may raise too.
VerifierRaised == {"internal_error", "invalid_request", "invalid_result", "lease_conflict"}

\* The verifier returns, or raises whatever it likes.
EndComplete(c) ==
  /\ dCalls[c] # NoCall /\ dCalls' = [dCalls EXCEPT ![c] = NoCall]
  /\ \/ dCalls[c].result \in Sound /\ Verified(c)
     \/ /\ dCalls[c].result \notin Sound /\ dReply' = "invalid_result"
        /\ UNCHANGED <<dAccepted, dAcceptedBy>>
     \/ /\ dReply' \in VerifierRaised
        /\ UNCHANGED <<dAccepted, dAcceptedBy>>
  /\ UNCHANGED <<dClock, dStarted, dAdmitted, dAttempt, dCurrent, dAnswered>>

-----------------------------------------------------------------------------

\* A request that fails a check of the adapter itself.
Refuse ==
  /\ \E fault \in DOMAIN Refused : dReply' = Refused[fault]
  /\ UNCHANGED <<dClock, job, dCalls, ghosts>>

DeliveryTick ==
  /\ dClock < FixtureClock /\ dClock' = dClock + 1
  /\ UNCHANGED <<job, dCalls, dReply, ghosts>>

Request ==
  \/ ClaimRefused \/ Claim \/ Refuse
  \/ \E lease \in Leases : Renew(lease) \/ Abandon(lease) \/ Conflict(lease)
  \/ \E c \in Callers, lease \in Leases, r \in Submissions : BeginComplete(c, lease, r)
  \/ \E c \in Callers : EndComplete(c)

DeliveryNext == Construct \/ (dStarted # NotBuilt /\ Request) \/ DeliveryTick

DeliverySpec == DeliveryInit /\ [][DeliveryNext]_deliveryVars

-----------------------------------------------------------------------------
(* Properties.                                                             *)

\* Once a result has been accepted, the lease that delivered it stays the
\* current one, and is that of the last attempt: a lost answer can be asked
\* for again (complete), and nobody is given the job once more.
AcceptedLeaseStays ==
  Completed => dCurrent.lease = dAcceptedBy /\ dAcceptedBy = dAttempt

\* A result is accepted only within the wall budget of the contract, though
\* at the commit complete compares the clock with the lease alone: neither a
\* claim near the deadline nor a renewal gives a lease that outlives it.
AcceptedWithinBudget == [][dAccepted' # dAccepted => dClock < Deadline]_deliveryVars

\* The fixture keeps the promise of a delivery service: attempts within the
\* budget, one accepted result that the verifier approved, never replaced,
\* and no other one answered to a retry.
Promise ==
  INSTANCE FlashJob WITH
    Jobs <- {1}, Good <- Sound, MaxAttempts <- BudgetAttempts, None <- NoSubmission,
    status <- [j \in {1} |-> IF dStarted = NotBuilt THEN "absent"
                             ELSE IF Completed THEN "accepted" ELSE "open"],
    attempts <- [j \in {1} |-> dAttempt],
    result <- [j \in {1} |-> dAccepted],
    told <- {},
    answered <- {<<1, r>> : r \in dAnswered}

FixtureKeepsPromise == Promise!JobSpec
=============================================================================
