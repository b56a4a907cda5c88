---------------------------- MODULE FlashStorage ----------------------------
(***************************************************************************)
(* DurableFlashDelivery (src/src/long_haul/work/flash_storage.py): jobs    *)
(* announced on an at-least-once queue, each job's state in a blob that is *)
(* only changed by conditional (ETag) writes, a create-only index of claim *)
(* tokens, and a durable cursor that pages through pending notifications.  *)
(*                                                                         *)
(* A process of Procs is one DurableFlashDelivery object.  It runs one     *)
(* call at a time; every queue or blob request of the call is one step, so *)
(* the calls of different processes, the clock and faults interleave       *)
(* between any two requests.                                               *)
(*                                                                         *)
(* Two identities of the services are kept by what they tell apart:        *)
(*   - the ETag read with a snapshot equals the blob's ETag exactly when   *)
(*     nobody wrote the blob since: loc[p].fresh (and loc[p].cfresh for    *)
(*     the cursor), cleared in every reader by a write;                    *)
(*   - a pop receipt is valid exactly when it is the last one the queue    *)
(*     handed out for the message: queue[m].holder is the party that has   *)
(*     it, the process while it claims, its claim context afterwards.      *)
(***************************************************************************)
EXTENDS Integers, FiniteSets

CONSTANTS
  Procs,           \* DurableFlashDelivery objects (processes)
  Jobs,            \* job identifiers, numbered in blob-name order from 1
  Msgs,            \* queue messages that can be sent (bound)
  Results,         \* canonical result documents
  Good,            \* those the trusted verifier accepts
  MaxAttempts,     \* contract.budget.max_attempts
  WallSeconds,     \* contract.budget.wall_seconds
  LeaseSeconds,    \* options.lease_seconds
  ScanLimit,       \* options.recovery_scan_limit
  DrainLimit,      \* options.accepted_trigger_drain_limit
  MaxLocalClaims,  \* options.max_local_claims
  MaxClock,        \* the clock's horizon (bound)
  EnqueueBy,       \* jobs are enqueued at this time at the latest (bound)
  Offered,         \* Offered[p]: the calls process p makes (bound)
  Reachable,       \* jobs whose notifier delivers if tried again and again
  MaxFaults,       \* errors, lost replies and crashes in a behaviour (bound)
  None             \* Python's None

Token == [proc: Procs, job: Jobs, gen: Nat]

ASSUME JobsAssumption ==
  Jobs \subseteq Nat \ {0} /\ IsFiniteSet(Jobs) /\ Jobs # {}
ASSUME ReachableAssumption == Reachable \subseteq Jobs
ASSUME ResultsAssumption == Good \subseteq Results
ASSUME BudgetAssumption ==
  MaxAttempts \in Nat \ {0} /\ WallSeconds \in Nat \ {0}
ASSUME OptionsAssumption ==
  /\ LeaseSeconds \in Nat \ {0} /\ ScanLimit \in Nat \ {0}
  /\ DrainLimit \in Nat \ {0} /\ MaxLocalClaims \in Nat \ {0}
ASSUME BoundsAssumption ==
  MaxClock \in Nat /\ EnqueueBy \in Nat /\ MaxFaults \in Nat

VARIABLES
  clock,   \* the injected clock, which the queue's visibility follows too
  blob,    \* blob[j]: the durable _JobState of job j
  queue,   \* queue[m]: a reference to a job, its visibility and receipt
  index,   \* the claim-index blobs
  cursor,  \* the notification cursor: the first job of the next page, or 0
  claims,  \* claims[p]: the claim contexts process p holds in memory
  loc,     \* loc[p]: the call process p is in, and its local variables
  faults,  \* how many faults have happened
  \* Observed by the properties only, read by no action that models code:
  enqueued,  \* jobs whose enqueue() has returned to the producer
  released,  \* tokens whose lease abandon() has given up durably
  notified,  \* notifications delivered
  acked      \* completions that complete() has returned to a worker

services == <<blob, queue, index, cursor>>
observed == <<enqueued, released, notified, acked>>
vars == <<clock, services, claims, loc, faults, observed>>

-----------------------------------------------------------------------------
(* The durable records and the process-local ones.                         *)

TerminalReasons == {"attempt_budget_exhausted", "wall_budget_expired"}

JobState ==
  [exists: BOOLEAN, started: Nat, attempt: Nat, gen: Nat,
   lease: Token \cup {None}, expires: Nat,
   accGen: Nat \cup {None}, accAttempt: Nat \cup {None},
   accTok: Token \cup {None}, accResult: Results \cup {None},
   terminal: TerminalReasons \cup {None}, pending: BOOLEAN, sent: BOOLEAN]

\* Mutant: lease_expires_at kept as None, without its fallback to 0.
NoJobWithNoExpiry ==
  [exists |-> FALSE, started |-> 0, attempt |-> 0, gen |-> 0,
   lease |-> None, expires |-> None,
   accGen |-> None, accAttempt |-> None, accTok |-> None, accResult |-> None,
   terminal |-> None, pending |-> FALSE, sent |-> FALSE]

NoJob ==
  [exists |-> FALSE, started |-> 0, attempt |-> 0, gen |-> 0,
   lease |-> None, expires |-> 0,
   accGen |-> None, accAttempt |-> None, accTok |-> None, accResult |-> None,
   terminal |-> None, pending |-> FALSE, sent |-> FALSE]

Message == [st: {"unsent", "queued", "deleted"}, job: Jobs \cup {None},
            holder: Procs \cup Token \cup {None}, visible: Nat]
ClaimIndex == [tok: Token, gen: Nat, attempt: Nat]
ClaimContext == [tok: Token, attempt: Nat, msg: Msgs, expires: Nat]
Notification == [job: Jobs, attempt: Nat, result: Results]
Completion == [tok: Token, result: Results]

Calls == {"claim", "complete", "recover"}
\* None is no value of any of the other types.
ASSUME NoneAssumption ==
  /\ None \notin Results \cup Procs \cup Msgs \cup Nat
  /\ None \notin Token \cup ClaimContext
  /\ None \notin Calls \cup TerminalReasons

Steps == {"idle", "enqueue_create", "enqueue_read", "enqueue_send",
          "receive", "claim_read", "claim_write", "terminate", "discard", "drain",
          "renew_queue", "renew_read", "renew_write",
          "abandon_write", "abandon_queue",
          "verify", "index", "final_read", "accept", "settle", "find",
          "cursor", "list", "scan", "notify", "mark"}

Local ==
  [pc: Steps, call: Calls \cup {None}, job: Jobs \cup {None}, snap: JobState,
   fresh: BOOLEAN, at: Nat, msg: Msgs \cup {None}, ctx: ClaimContext \cup {None},
   tok: Token \cup {None}, result: Results \cup {None}, drained: Nat,
   page: SUBSET Jobs, next: Jobs \cup {0}, cfresh: BOOLEAN]

Idle ==
  [pc |-> "idle", call |-> None, job |-> None, snap |-> NoJob, fresh |-> FALSE,
   at |-> 0, msg |-> None, ctx |-> None, tok |-> None, result |-> None,
   drained |-> 0, page |-> {}, next |-> 0, cfresh |-> FALSE]

TypeOK ==
  /\ clock \in 0..MaxClock
  /\ blob \in [Jobs -> JobState]
  /\ queue \in [Msgs -> Message]
  /\ index \subseteq ClaimIndex
  /\ cursor \in Jobs \cup {0}
  /\ claims \in [Procs -> SUBSET ClaimContext]
  /\ loc \in [Procs -> Local]
  /\ faults \in 0..MaxFaults
  /\ enqueued \subseteq Jobs
  /\ released \subseteq Token
  /\ notified \subseteq Notification
  /\ acked \subseteq Completion

Init ==
  /\ clock = 0
  /\ blob = [j \in Jobs |-> NoJob]
  /\ queue = [m \in Msgs |-> [st |-> "unsent", job |-> None, holder |-> None, visible |-> 0]]
  /\ index = {}
  /\ cursor = 0
  /\ claims = [p \in Procs |-> {}]
  /\ loc = [p \in Procs |-> Idle]
  /\ faults = 0
  /\ enqueued = {} /\ released = {} /\ notified = {} /\ acked = {}

-----------------------------------------------------------------------------
(* Helpers.                                                                *)

Lesser(a, b) == IF a < b THEN a ELSE b
Greater(a, b) == IF a > b THEN a ELSE b

Deadline(b) == b.started + WallSeconds

\* Mutant: a lease that nobody gives back never ends.
LeaseNeverEnds(b) == IF b.lease = None THEN 0 ELSE clock + 1

LeaseEnd(b) == Lesser(b.expires, Deadline(b))

\* Mutant: one attempt more than the budget.
ExhaustedLate(b) == b.attempt > MaxAttempts \/ clock >= Deadline(b)

\* No further attempt may begin.
Exhausted(b) == b.attempt >= MaxAttempts \/ clock >= Deadline(b)

Goto(p, l) == loc' = [loc EXCEPT ![p] = l]
Return(p) == Goto(p, Idle)

\* Mutant: any generation of the job will do.
RequireAnyClaim(c, b) ==
  b.accResult = None /\ b.terminal = None /\ clock < LeaseEnd(b)

\* A call holding claim context c may go on from state b of its job.
RequireClaim(c, b) ==
  /\ b.gen = c.tok.gen /\ b.lease = c.tok
  /\ b.accResult = None /\ b.terminal = None
  /\ clock < LeaseEnd(b)

\* Mutant: job blobs are overwritten whatever their ETag.
EtagIgnored(p) == TRUE

\* The ETag p read with its snapshot is still the blob's: a conditional write
\* will succeed.
EtagMatches(p) == loc[p].fresh

\* Process p's conditional write of job state b succeeds; the ETags every
\* other process read with this blob are stale, and p goes on with l.
Put(p, b, l) ==
  LET j == loc[p].job
  IN /\ blob' = [blob EXCEPT ![j] = b]
     /\ loc' = [q \in Procs |->
                 IF q = p THEN l
                 ELSE IF loc[q].job = j THEN [loc[q] EXCEPT !.fresh = FALSE]
                 ELSE loc[q]]

\* The request took effect and the reply was lost: the call raises.
Fault == faults < MaxFaults /\ faults' = faults + 1

HasReceipt(m, who) == queue[m].st = "queued" /\ queue[m].holder = who
Delete(m) == queue' = [queue EXCEPT ![m] = [st |-> "deleted", job |-> @.job,
                                            holder |-> None, visible |-> 0]]
Update(m, who, visible) ==
  queue' = [queue EXCEPT ![m].holder = who, ![m].visible = visible]

\* Locals of a recover_notifications run made by the given call.
Recovering(call, tok, result) ==
  [Idle EXCEPT !.pc = "cursor", !.call = call, !.tok = tok, !.result = result]

-----------------------------------------------------------------------------
(* enqueue                                                                 *)

Enqueuing == {"enqueue_create", "enqueue_read", "enqueue_send"}

\* The bound: a message is left for every enqueue() under way.
EnqueueBegin(p, j) ==
  /\ loc[p].pc = "idle"
  /\ clock <= EnqueueBy
  /\ Cardinality({q \in Procs : loc[q].pc \in Enqueuing})
       < Cardinality({m \in Msgs : queue[m].st = "unsent"})
  /\ Goto(p, [Idle EXCEPT !.pc = "enqueue_create", !.job = j, !.at = clock])
  /\ UNCHANGED <<clock, services, claims, faults, observed>>

EnqueueCreate(p) ==
  LET l == loc[p]
  IN /\ l.pc = "enqueue_create"
     /\ \/ /\ ~blob[l.job].exists
           /\ \/ /\ Put(p, [NoJob EXCEPT !.exists = TRUE, !.started = l.at],
                        [Idle EXCEPT !.pc = "enqueue_send", !.job = l.job])
                 /\ UNCHANGED faults
              \/ /\ Fault
                 /\ Put(p, [NoJob EXCEPT !.exists = TRUE, !.started = l.at], Idle)
        \/ /\ blob[l.job].exists
           /\ Goto(p, [Idle EXCEPT !.pc = "enqueue_read", !.job = l.job])
           /\ UNCHANGED <<blob, faults>>
     /\ UNCHANGED <<clock, queue, index, cursor, claims, observed>>

\* Mutant: the retry of a producer returns as soon as it finds the job.
EnqueueReadReturns(p) ==
  LET l == loc[p]
  IN /\ l.pc = "enqueue_read"
     /\ Return(p) /\ enqueued' = enqueued \cup {l.job}
     /\ UNCHANGED <<clock, services, claims, faults, released, notified, acked>>

\* A producer's retry: the message is sent again unless the job is accepted.
EnqueueRead(p) ==
  LET l == loc[p]
  IN /\ l.pc = "enqueue_read"
     /\ IF blob[l.job].accResult # None
        THEN Return(p) /\ enqueued' = enqueued \cup {l.job}
        ELSE /\ Goto(p, [Idle EXCEPT !.pc = "enqueue_send", !.job = l.job])
             /\ UNCHANGED enqueued
     /\ UNCHANGED <<clock, services, claims, faults,
                    released, notified, acked>>

EnqueueSend(p) ==
  LET l == loc[p]
  IN /\ l.pc = "enqueue_send"
     /\ \E m \in Msgs :
          /\ queue[m].st = "unsent"
          /\ queue' = [queue EXCEPT ![m] = [st |-> "queued", job |-> l.job,
                                            holder |-> None, visible |-> clock]]
     /\ Return(p)
     /\ \/ enqueued' = enqueued \cup {l.job} /\ UNCHANGED faults
        \/ Fault /\ UNCHANGED enqueued
     /\ UNCHANGED <<clock, blob, index, cursor, claims,
                    released, notified, acked>>

-----------------------------------------------------------------------------
(* claim                                                                   *)

Live(p) == {c \in claims[p] : clock < c.expires}

\* _prune_claims, the limit on local claims, then recover_notifications.
ClaimBegin(p) ==
  /\ loc[p].pc = "idle"
  /\ claims' = [claims EXCEPT ![p] = Live(p)]
  /\ IF Cardinality(Live(p)) >= MaxLocalClaims
     THEN UNCHANGED loc
     ELSE Goto(p, Recovering("claim", None, None))
  /\ UNCHANGED <<clock, services, faults, observed>>

\* receive_message hides the message for a lease and hands out its receipt.
Receive(p) ==
  LET l == loc[p]
      visible == {m \in Msgs : queue[m].st = "queued" /\ queue[m].visible <= clock}
  IN /\ l.pc = "receive"
     /\ IF visible = {} \/ l.drained = DrainLimit
        THEN Return(p) /\ UNCHANGED <<queue, faults>>
        ELSE \E m \in visible :
               /\ Update(m, p, clock + LeaseSeconds)
               /\ \/ /\ Goto(p, [Idle EXCEPT !.pc = "claim_read", !.msg = m,
                                             !.job = queue[m].job, !.drained = l.drained])
                     /\ UNCHANGED faults
                  \/ Fault /\ Return(p)
     /\ UNCHANGED <<clock, blob, index, cursor, claims, observed>>

\* _claim_message up to its conditional write: read the job and the clock.
ClaimRead(p) ==
  LET l == loc[p]
      b == blob[l.job]
      read == [l EXCEPT !.snap = b, !.fresh = TRUE, !.at = clock, !.drained = 0]
  IN /\ l.pc = "claim_read"
     /\ CASE b.accResult # None -> Goto(p, [l EXCEPT !.pc = "drain"])
          [] b.accResult = None /\ b.terminal # None ->
               Goto(p, [l EXCEPT !.pc = "discard", !.drained = 0])
          [] OTHER ->
               CASE clock < LeaseEnd(b) -> Return(p)
                 [] clock >= LeaseEnd(b) /\ Exhausted(b) ->
                      Goto(p, [read EXCEPT !.pc = "terminate"])
                 [] OTHER -> Goto(p, [read EXCEPT !.pc = "claim_write"])
     /\ UNCHANGED <<clock, services, claims, faults, observed>>

\* The trigger of an accepted job is deleted and the next one is received; a
\* stale receipt makes the delete, and the claim, raise.
Drain(p) ==
  LET l == loc[p]
  IN /\ l.pc = "drain"
     /\ IF HasReceipt(l.msg, p)
        THEN /\ Delete(l.msg)
             /\ \/ /\ Goto(p, [Idle EXCEPT !.pc = "receive", !.drained = l.drained + 1])
                   /\ UNCHANGED faults
                \/ Fault /\ Return(p)
        ELSE Return(p) /\ UNCHANGED <<queue, faults>>
     /\ UNCHANGED <<clock, blob, index, cursor, claims, observed>>

\* The terminal record is durable before its trigger is deleted.
Terminate(p) ==
  LET l == loc[p]
      reason == IF l.snap.attempt >= MaxAttempts THEN "attempt_budget_exhausted"
                ELSE "wall_budget_expired"
      next == [Idle EXCEPT !.pc = "discard", !.msg = l.msg, !.job = l.job]
  IN /\ l.pc = "terminate"
     /\ IF EtagMatches(p)
        THEN \/ Put(p, [l.snap EXCEPT !.terminal = reason], next) /\ UNCHANGED faults
             \/ Fault /\ Put(p, [l.snap EXCEPT !.terminal = reason], Idle)
        ELSE Return(p) /\ UNCHANGED <<blob, faults>>
     /\ UNCHANGED <<clock, queue, index, cursor, claims, observed>>

Discard(p) ==
  LET l == loc[p]
  IN /\ l.pc = "discard"
     /\ IF HasReceipt(l.msg, p) THEN Delete(l.msg) ELSE UNCHANGED queue
     /\ Return(p)
     /\ UNCHANGED <<clock, blob, index, cursor, claims, faults, observed>>

\* The new generation, attempt and lease land in one conditional write; the
\* context and the token exist only if its reply arrives.
ClaimWrite(p) ==
  LET l == loc[p]
      tok == [proc |-> p, job |-> l.job, gen |-> l.snap.gen + 1]
      expires == Lesser(l.at + LeaseSeconds, Deadline(l.snap))
      new == [l.snap EXCEPT !.gen = @ + 1, !.attempt = @ + 1,
                            !.lease = tok, !.expires = expires]
      ctx == [tok |-> tok, attempt |-> l.snap.attempt + 1, msg |-> l.msg,
              expires |-> expires]
  IN /\ l.pc = "claim_write"
     /\ IF ~EtagMatches(p)
        THEN Return(p) /\ UNCHANGED <<blob, queue, claims, faults>>
        ELSE /\ Put(p, new, Idle)
             /\ \/ /\ claims' = [claims EXCEPT ![p] = @ \cup {ctx}]
                   \* the process's receipt is the context's from here on
                   /\ queue' = [queue EXCEPT ![l.msg].holder = IF @ = p THEN tok ELSE @]
                   /\ UNCHANGED faults
                \/ Fault /\ UNCHANGED <<queue, claims>>
     /\ UNCHANGED <<clock, index, cursor, observed>>

-----------------------------------------------------------------------------
(* renew                                                                   *)

RenewBegin(p, c) ==
  LET b == blob[c.tok.job]
  IN /\ loc[p].pc = "idle" /\ c \in claims[p]
     /\ RequireClaim(c, b)
     /\ clock < c.expires
     /\ Goto(p, [Idle EXCEPT !.pc = "renew_queue", !.ctx = c, !.job = c.tok.job,
                             !.at = Lesser(clock + LeaseSeconds, Deadline(b)) - clock])
     /\ UNCHANGED <<clock, services, claims, faults, observed>>

\* update_message extends the invisibility and rotates the receipt, which the
\* context records at once; a stale receipt makes renew() raise.
RenewQueue(p) ==
  LET l == loc[p]
      visible == clock + Greater(1, l.at)
  IN /\ l.pc = "renew_queue"
     /\ IF HasReceipt(l.ctx.msg, l.ctx.tok)
        THEN \/ /\ Update(l.ctx.msg, l.ctx.tok, visible)
                /\ Goto(p, [l EXCEPT !.pc = "renew_read", !.at = clock])
                /\ UNCHANGED faults
             \/ /\ Update(l.ctx.msg, None, visible)
                /\ Fault /\ Return(p)
        ELSE Return(p) /\ UNCHANGED <<queue, faults>>
     /\ UNCHANGED <<clock, blob, index, cursor, claims, observed>>

\* Mutant: the state read after the queue's reply is not checked again.
RenewReadUnchecked(p) ==
  LET l == loc[p]
      b == blob[l.job]
  IN /\ l.pc = "renew_read"
     /\ Goto(p, [l EXCEPT !.pc = "renew_write", !.snap = b, !.fresh = TRUE,
                          !.at = l.at + LeaseSeconds])
     /\ UNCHANGED <<clock, services, claims, faults, observed>>

\* The state and the clock are read again after the queue's reply; renewed_at
\* is the clock some time between that reply and this read.
RenewRead(p) ==
  LET l == loc[p]
      b == blob[l.job]
  IN /\ l.pc = "renew_read"
     /\ IF RequireClaim(l.ctx, b)
        THEN \E renewed_at \in l.at..clock :
               Goto(p, [l EXCEPT !.pc = "renew_write", !.snap = b, !.fresh = TRUE,
                                 !.at = Lesser(renewed_at + LeaseSeconds, Deadline(b))])
        ELSE Return(p)
     /\ UNCHANGED <<clock, services, claims, faults, observed>>

RenewWrite(p) ==
  LET l == loc[p]
  IN /\ l.pc = "renew_write"
     /\ IF EtagMatches(p)
        THEN /\ Put(p, [l.snap EXCEPT !.expires = l.at], Idle)
             /\ \/ /\ claims' = [claims EXCEPT ![p] =
                                  (@ \ {l.ctx}) \cup {[l.ctx EXCEPT !.expires = l.at]}]
                   /\ UNCHANGED faults
                \/ Fault /\ UNCHANGED claims
        ELSE Return(p) /\ UNCHANGED <<blob, claims, faults>>
     /\ UNCHANGED <<clock, queue, index, cursor, observed>>

-----------------------------------------------------------------------------
(* abandon                                                                 *)

AbandonBegin(p, c) ==
  /\ loc[p].pc = "idle" /\ c \in claims[p]
  /\ RequireClaim(c, blob[c.tok.job])
  /\ Goto(p, [Idle EXCEPT !.pc = "abandon_write", !.ctx = c, !.job = c.tok.job,
                          !.snap = blob[c.tok.job], !.fresh = TRUE])
  /\ UNCHANGED <<clock, services, claims, faults, observed>>

AbandonWrite(p) ==
  LET l == loc[p]
      new == [l.snap EXCEPT !.lease = None, !.expires = 0]
  IN /\ l.pc = "abandon_write"
     /\ IF EtagMatches(p)
        THEN /\ released' = released \cup {l.ctx.tok}
             /\ \/ /\ Put(p, new, [Idle EXCEPT !.pc = "abandon_queue", !.ctx = l.ctx])
                   /\ UNCHANGED faults
                \/ Fault /\ Put(p, new, Idle)
        ELSE Return(p) /\ UNCHANGED <<blob, faults, released>>
     /\ UNCHANGED <<clock, queue, index, cursor, claims,
                    enqueued, notified, acked>>

\* The reference becomes visible at once and the context is dropped; a stale
\* receipt makes abandon() raise and the context stays until it is pruned.
AbandonQueue(p) ==
  LET l == loc[p]
  IN /\ l.pc = "abandon_queue"
     /\ Return(p)
     /\ IF HasReceipt(l.ctx.msg, l.ctx.tok)
        THEN /\ Update(l.ctx.msg, None, clock)
             /\ \/ /\ claims' = [claims EXCEPT ![p] = @ \ {l.ctx}]
                   /\ UNCHANGED faults
                \/ Fault /\ UNCHANGED claims
        ELSE UNCHANGED <<queue, claims, faults>>
     /\ UNCHANGED <<clock, blob, index, cursor, observed>>

-----------------------------------------------------------------------------
(* complete                                                                *)

\* The call has a context: it goes on to the verifier, or settles again what
\* this very claim completed with this very result.
CompleteBegin(p, c, r) ==
  LET b == blob[c.tok.job]
      l == [Idle EXCEPT !.ctx = c, !.job = c.tok.job, !.tok = c.tok, !.result = r]
  IN /\ loc[p].pc = "idle" /\ c \in claims[p]
     /\ \/ /\ b.accResult = r /\ b.accGen = c.tok.gen /\ b.accTok = c.tok
           /\ Goto(p, [l EXCEPT !.pc = "settle"])
        \/ /\ RequireClaim(c, b)
           /\ Goto(p, [l EXCEPT !.pc = "verify"])
     /\ UNCHANGED <<clock, services, claims, faults, observed>>

\* Mutant: the worker's own word is taken for the verifier's.
VerifyNothing(p) ==
  LET l == loc[p]
  IN /\ l.pc = "verify"
     /\ IF RequireClaim(l.ctx, blob[l.job])
        THEN Goto(p, [l EXCEPT !.pc = "index"])
        ELSE Return(p)
     /\ UNCHANGED <<clock, services, claims, faults, observed>>

\* The slow verifier, then the second read.
Verify(p) ==
  LET l == loc[p]
  IN /\ l.pc = "verify"
     /\ IF l.result \in Good /\ RequireClaim(l.ctx, blob[l.job])
        THEN Goto(p, [l EXCEPT !.pc = "index"])
        ELSE Return(p)
     /\ UNCHANGED <<clock, services, claims, faults, observed>>

\* Mutant: the index entry is not written.
WriteNoClaimIndex(p) ==
  /\ loc[p].pc = "index"
  /\ Goto(p, [loc[p] EXCEPT !.pc = "final_read"])
  /\ UNCHANGED <<clock, services, claims, faults, observed>>

\* Create-only: an entry of another claim under this token is a conflict.
WriteClaimIndex(p) ==
  LET l == loc[p]
      entry == [tok |-> l.tok, gen |-> l.tok.gen, attempt |-> l.ctx.attempt]
      existing == {e \in index : e.tok = l.tok}
  IN /\ l.pc = "index"
     /\ IF existing \subseteq {entry}
        THEN /\ index' = index \cup {entry}
             /\ \/ Goto(p, [l EXCEPT !.pc = "final_read"]) /\ UNCHANGED faults
                \/ Fault /\ Return(p)
        ELSE Return(p) /\ UNCHANGED <<index, faults>>
     /\ UNCHANGED <<clock, blob, queue, cursor, claims, observed>>

FinalRead(p) ==
  LET l == loc[p]
      b == blob[l.job]
  IN /\ l.pc = "final_read"
     /\ IF RequireClaim(l.ctx, b)
        THEN Goto(p, [l EXCEPT !.pc = "accept", !.snap = b, !.fresh = TRUE])
        ELSE Return(p)
     /\ UNCHANGED <<clock, services, claims, faults, observed>>

\* The conditional write that accepts the result.
Accept(p) ==
  LET l == loc[p]
      new == [l.snap EXCEPT !.accGen = l.ctx.tok.gen, !.accAttempt = l.ctx.attempt,
                            !.accTok = l.tok, !.accResult = l.result,
                            !.pending = TRUE, !.sent = FALSE]
  IN /\ l.pc = "accept"
     /\ IF EtagMatches(p)
        THEN \/ /\ Put(p, new, [l EXCEPT !.pc = "settle", !.snap = NoJob, !.fresh = FALSE])
                /\ UNCHANGED faults
             \/ Fault /\ Put(p, new, Idle)
        ELSE Return(p) /\ UNCHANGED <<blob, faults>>
     /\ UNCHANGED <<clock, queue, index, cursor, claims, observed>>

\* _settle: a stale receipt is swallowed; a lost reply raises before the
\* context is dropped.
Settle(p) ==
  LET l == loc[p]
  IN /\ l.pc = "settle"
     /\ IF HasReceipt(l.ctx.msg, l.ctx.tok) THEN Delete(l.ctx.msg) ELSE UNCHANGED queue
     /\ \/ /\ claims' = [claims EXCEPT ![p] = @ \ {l.ctx}]
           /\ Goto(p, Recovering("complete", l.tok, l.result))
           /\ UNCHANGED faults
        \/ Fault /\ Return(p) /\ UNCHANGED claims
     /\ UNCHANGED <<clock, blob, index, cursor, observed>>

\* A retry that has no context here (settled before, pruned, or another
\* process): _find_accepted_claim goes through the index to the blob.
CompleteRetry(p, e, r) ==
  /\ loc[p].pc = "idle" /\ e \in index
  /\ ~\E c \in claims[p] : c.tok = e.tok
  /\ Goto(p, [Idle EXCEPT !.pc = "find", !.job = e.tok.job, !.tok = e.tok,
                          !.result = r, !.at = e.attempt])
  /\ UNCHANGED <<clock, services, claims, faults, observed>>

\* Mutant: the retry's result is not compared with the accepted one.
FindAcceptedAnyResult(p) ==
  LET l == loc[p]
  IN /\ l.pc = "find"
     /\ IF blob[l.job].accTok = l.tok
        THEN Goto(p, Recovering("complete", l.tok, l.result))
        ELSE Return(p)
     /\ UNCHANGED <<clock, services, claims, faults, observed>>

FindAccepted(p) ==
  LET l == loc[p]
      b == blob[l.job]
  IN /\ l.pc = "find"
     /\ IF b.accTok = l.tok /\ b.accGen = l.tok.gen /\ b.accAttempt = l.at
           /\ b.accResult = l.result
        THEN Goto(p, Recovering("complete", l.tok, l.result))
        ELSE Return(p)
     /\ UNCHANGED <<clock, services, claims, faults, observed>>

-----------------------------------------------------------------------------
(* recover_notifications, by itself or inside claim and complete           *)

RecoverBegin(p) ==
  /\ loc[p].pc = "idle"
  /\ Goto(p, Recovering("recover", None, None))
  /\ UNCHANGED <<clock, services, claims, faults, observed>>

ReadCursor(p) ==
  /\ loc[p].pc = "cursor"
  /\ Goto(p, [loc[p] EXCEPT !.pc = "list", !.next = cursor, !.cfresh = TRUE])
  /\ UNCHANGED <<clock, services, claims, faults, observed>>

\* One page of at most ScanLimit job blobs from the marker on, and the marker
\* of the page after it (0 after the last one).
ListPage(p) ==
  LET l == loc[p]
      from == {j \in Jobs : blob[j].exists /\ j >= l.next}
      page == {j \in from : Cardinality({k \in from : k < j}) < ScanLimit}
      rest == from \ page
  IN /\ l.pc = "list"
     /\ \E next \in Jobs \cup {0} :
          /\ IF rest = {} THEN next = 0 ELSE next \in rest /\ \A j \in rest : next <= j
          /\ Goto(p, [l EXCEPT !.pc = "scan", !.page = page, !.next = next])
     /\ UNCHANGED <<clock, services, claims, faults, observed>>

\* Locals once the job being scanned is dealt with.
Scanned(l) == [l EXCEPT !.pc = "scan", !.page = @ \ {l.job}, !.job = None,
                        !.snap = NoJob, !.fresh = FALSE]

Scan(p) ==
  LET l == loc[p]
  IN /\ l.pc = "scan"
     /\ \E j \in l.page :
          /\ \A k \in l.page : j <= k
          /\ LET b == blob[j]
                 read == [l EXCEPT !.pc = "notify", !.job = j, !.snap = b, !.fresh = TRUE]
             IN IF b.pending /\ ~b.sent /\ b.accAttempt # None /\ b.accResult # None
                THEN Goto(p, read)
                ELSE Goto(p, Scanned(read))
     /\ UNCHANGED <<clock, services, claims, faults, observed>>

\* Mutant: a job whose notifier raised is marked all the same.
NotifyRaisedMarks(p) ==
  /\ loc[p].pc = "notify"
  /\ Goto(p, [loc[p] EXCEPT !.pc = "mark"])
  /\ UNCHANGED <<clock, services, claims, faults, observed>>

\* Mutant: the notifier's exception leaves recover_notifications.
NotifyRaisedAborts(p) ==
  /\ loc[p].pc = "notify"
  /\ Return(p)
  /\ UNCHANGED <<clock, services, claims, faults, observed>>

\* The notifier raises: the job stays pending and the scan goes on.
NotifyRaised(p) ==
  /\ loc[p].pc = "notify"
  /\ Goto(p, Scanned(loc[p]))
  /\ UNCHANGED <<clock, services, claims, faults, observed>>

\* The notifier of job j delivers; its reply may be lost, and then it counts
\* as raised.
Notify(p, j) ==
  LET l == loc[p]
      n == [job |-> j, attempt |-> l.snap.accAttempt, result |-> l.snap.accResult]
  IN /\ l.pc = "notify" /\ l.job = j
     /\ notified' = notified \cup {n}
     /\ \/ Goto(p, [l EXCEPT !.pc = "mark"]) /\ UNCHANGED faults
        \/ Fault /\ Goto(p, Scanned(l))
     /\ UNCHANGED <<clock, services, claims, enqueued, released, acked>>

\* A conflict means another worker wrote the job: the scan goes on.
MarkSent(p) ==
  LET l == loc[p]
      new == [l.snap EXCEPT !.pending = FALSE, !.sent = TRUE]
  IN /\ l.pc = "mark"
     /\ IF EtagMatches(p)
        THEN \/ Put(p, new, Scanned(l)) /\ UNCHANGED faults
             \/ Fault /\ Put(p, new, Idle)
        ELSE Goto(p, Scanned(l)) /\ UNCHANGED <<blob, faults>>
     /\ UNCHANGED <<clock, queue, index, cursor, claims, observed>>

\* The cursor goes to the next page, and what others read of it is stale;
\* the caller goes on with k.
MoveCursor(p, k) ==
  /\ cursor' = loc[p].next
  /\ loc' = [q \in Procs |-> IF q = p THEN k ELSE [loc[q] EXCEPT !.cfresh = FALSE]]

\* The cursor moves unless another worker moved it since it was read, and the
\* call this recovery belongs to goes on; it raises when the reply of the
\* write is lost.
AdvanceCursor(p) ==
  LET l == loc[p]
      done == IF l.call = "claim" THEN [Idle EXCEPT !.pc = "receive"] ELSE Idle
      answer == IF l.call = "complete" THEN {[tok |-> l.tok, result |-> l.result]} ELSE {}
  IN /\ l.pc = "scan" /\ l.page = {}
     /\ \/ /\ IF l.cfresh THEN MoveCursor(p, done) ELSE Goto(p, done) /\ UNCHANGED cursor
           /\ acked' = acked \cup answer
           /\ UNCHANGED faults
        \/ /\ l.cfresh /\ Fault /\ MoveCursor(p, Idle)
           /\ UNCHANGED acked
     /\ UNCHANGED <<clock, blob, queue, index, claims, enqueued, released, notified>>

-----------------------------------------------------------------------------
(* The environment.                                                        *)

\* Past the horizon every lease and deadline is over, and only the remaining
\* invisibility of messages still runs down.
Tick ==
  /\ \/ clock < MaxClock /\ clock' = clock + 1 /\ UNCHANGED queue
     \/ /\ clock = MaxClock
        /\ \E m \in Msgs : queue[m].visible > clock
        /\ queue' = [m \in Msgs |-> [queue[m] EXCEPT !.visible =
                       IF @ > clock THEN @ - 1 ELSE @]]
        /\ UNCHANGED clock
  /\ UNCHANGED <<blob, index, cursor, claims, loc, faults, observed>>

\* A request fails without effect: the call raises.
Fail(p) ==
  /\ loc[p].pc # "idle"
  /\ Fault /\ Return(p)
  /\ UNCHANGED <<clock, services, claims, observed>>

\* The process restarts: its contexts, and with them its receipts, are gone.
Crash(p) ==
  /\ loc[p].pc # "idle" \/ claims[p] # {}
  /\ Fault /\ Return(p)
  /\ claims' = [claims EXCEPT ![p] = {}]
  /\ UNCHANGED <<clock, services, observed>>

\* Calls that go on once begun.
Continue(p) ==
  \/ EnqueueCreate(p) \/ EnqueueRead(p) \/ EnqueueSend(p)
  \/ Receive(p) \/ ClaimRead(p) \/ Drain(p) \/ Terminate(p) \/ Discard(p) \/ ClaimWrite(p)
  \/ RenewQueue(p) \/ RenewRead(p) \/ RenewWrite(p)
  \/ AbandonWrite(p) \/ AbandonQueue(p)
  \/ Verify(p) \/ WriteClaimIndex(p) \/ FinalRead(p) \/ Accept(p) \/ Settle(p)
  \/ FindAccepted(p)
  \/ ReadCursor(p) \/ ListPage(p) \/ Scan(p) \/ NotifyRaised(p)
  \/ (\E j \in Jobs : Notify(p, j)) \/ MarkSent(p) \/ AdvanceCursor(p)

Begin(p) ==
  \/ "enqueue" \in Offered[p] /\ \E j \in Jobs : EnqueueBegin(p, j)
  \/ "claim" \in Offered[p] /\ ClaimBegin(p)
  \/ "renew" \in Offered[p] /\ \E c \in claims[p] : RenewBegin(p, c)
  \/ "abandon" \in Offered[p] /\ \E c \in claims[p] : AbandonBegin(p, c)
  \/ "complete" \in Offered[p] /\ \E c \in claims[p], r \in Results : CompleteBegin(p, c, r)
  \/ "complete" \in Offered[p] /\ \E e \in index, r \in Results : CompleteRetry(p, e, r)
  \/ "recover" \in Offered[p] /\ RecoverBegin(p)

Next ==
  \/ Tick
  \/ \E p \in Procs : Begin(p) \/ Continue(p) \/ Fail(p) \/ Crash(p)

Spec == Init /\ [][Next]_vars

\* A call that is under way goes on, time passes, and every process keeps
\* polling: calls of claim and of recover_notifications recur whatever other
\* calls the process makes in between.  A notifier of Reachable that is called
\* again and again delivers some time; the others may raise for ever.
Fairness ==
  /\ WF_vars(Tick)
  /\ \A p \in Procs : /\ WF_vars(Continue(p))
                      /\ SF_vars("claim" \in Offered[p] /\ ClaimBegin(p))
                      /\ SF_vars("recover" \in Offered[p] /\ RecoverBegin(p))
                      /\ \A j \in Reachable : SF_vars(Notify(p, j))

FairSpec == Spec /\ Fairness

-----------------------------------------------------------------------------
(* Properties.                                                             *)

Accepted(j) == blob[j].accResult # None
Terminal(j) == blob[j].terminal # None

\* An accepted job keeps its result, claim and attempt, an exhausted one its
\* reason; neither is ever claimed again, whatever duplicates, retries and
\* slow calls are still under way (_claim_message, complete).
OutcomeIsFinal ==
  [][\A j \in Jobs :
       LET b == blob[j] n == blob'[j]
       IN /\ Accepted(j) =>
               /\ n.accResult = b.accResult /\ n.accTok = b.accTok
               /\ n.accAttempt = b.accAttempt
          /\ Terminal(j) => n.terminal = b.terminal
          /\ Accepted(j) \/ Terminal(j) => n.gen = b.gen /\ n.attempt = b.attempt]_vars

\* What is accepted passed the verifier, under the newest generation and a
\* lease that was never released, for a job whose budget was not declared
\* exhausted: the conditional writes of claim, abandon, complete exclude
\* each other although each decides on an earlier read.
AcceptedUnderCurrentClaim ==
  \A j \in Jobs : Accepted(j) =>
    LET b == blob[j]
    IN /\ b.accResult \in Good /\ ~Terminal(j)
       /\ b.accTok = b.lease /\ b.accGen = b.gen /\ b.accAttempt = b.attempt
       /\ b.accTok \notin released

\* A completion can be replayed by any process from the moment it is
\* durable: the index entry _find_accepted_claim looks up is there and names
\* the accepted generation and attempt.
CompletionReplayable ==
  \A j \in Jobs : Accepted(j) =>
    [tok |-> blob[j].accTok, gen |-> blob[j].accGen, attempt |-> blob[j].accAttempt]
      \in index

\* complete() returns a result to a worker only if that is durably the
\* job's result, accepted under that worker's own token.
AcksAreDurable ==
  \A a \in acked : /\ blob[a.tok.job].accTok = a.tok
                   /\ blob[a.tok.job].accResult = a.result

\* Notifications tell the accepted result and attempt of their job, and a job
\* counts as notified only after one was delivered.
NotificationsTellOutcome ==
  /\ \A n \in notified : /\ blob[n.job].accAttempt = n.attempt
                         /\ blob[n.job].accResult = n.result
  /\ \A j \in Jobs : /\ Accepted(j) => blob[j].pending = ~blob[j].sent
                     /\ blob[j].sent => \E n \in notified : n.job = j

\* A process that still believes in a lease it has not released is right:
\* the job's durable lease is this one and is over no earlier, and the job is
\* not declared exhausted.  So two workers never hold the same job at once.
LiveClaimIsCurrent ==
  \A p \in Procs : \A c \in Live(p) :
    c.tok \notin released =>
      LET b == blob[c.tok.job]
      IN b.lease = c.tok /\ c.expires <= LeaseEnd(b) /\ b.terminal = None

\* No more generations than the contract allows attempts, and a terminal
\* reason says which budget is really used up.
BudgetsAreKept ==
  \A j \in Jobs :
    LET b == blob[j]
    IN /\ b.attempt <= MaxAttempts /\ b.gen = b.attempt
       /\ b.terminal = "attempt_budget_exhausted" => b.attempt = MaxAttempts
       /\ b.terminal = "wall_budget_expired" => clock >= Deadline(b)

\* The trigger of a job its producer was told is enqueued stays in the queue
\* until the job is accepted or terminal, whoever deletes what meanwhile.
TriggerNotLost ==
  \A j \in enqueued :
    \/ Accepted(j) \/ Terminal(j)
    \/ \E m \in Msgs : queue[m].st = "queued" /\ queue[m].job = j

\* A result is committed only while the lease and the contract's deadline are
\* still valid.
CommitWithinLease ==
  [][\A j \in Jobs :
       ~Accepted(j) /\ blob'[j].accResult # None => clock < LeaseEnd(blob[j])]_vars

\* What a job looks like from outside.
jobStatus == [j \in Jobs |-> IF ~blob[j].exists THEN "absent"
                             ELSE IF Accepted(j) THEN "accepted"
                             ELSE IF Terminal(j) THEN "exhausted" ELSE "open"]

Abstract ==
  INSTANCE FlashJob WITH
    status <- jobStatus,
    attempts <- [j \in Jobs |-> blob[j].attempt],
    result <- [j \in Jobs |-> blob[j].accResult],
    told <- {n.job : n \in notified},
    answered <- {<<a.tok.job, a.result>> : a \in acked}

\* The durable adapter keeps the promise of FlashJob: every request of every
\* process is one step of the abstract job or none, whatever is retried,
\* duplicated, lost or late.
ImplementsFlashJob == Abstract!JobSpec

\* Every accepted job whose notifier can be reached is eventually marked
\* notified: the cursor comes round to its page although pages are bounded,
\* workers race for the cursor and the notifiers of other jobs raise for ever.
NotificationDelivered == \A j \in Reachable : Accepted(j) ~> blob[j].sent

\* An enqueued job never just stays open: polling workers bring it to
\* acceptance or, once its budget is used up, to a terminal reason, although
\* claims are lost in crashes and conflicts.
JobResolved == \A j \in Jobs : j \in enqueued ~> Accepted(j) \/ Terminal(j)

-----------------------------------------------------------------------------
(* The inductive invariant behind the proofs of FlashStorageSafety.        *)

\* Steps of a claim that has a trigger, of a call that has a claim context,
\* and of a completion on its way to acceptance.
Triggered == {"claim_read", "claim_write", "terminate", "discard", "drain"}
Completing == {"verify", "index", "final_read", "accept", "settle"}
Owning == Completing \cup {"renew_queue", "renew_read", "renew_write", "abandon_write"}

\* A call has the locals its next request uses.
LocalsInUse(l) ==
  /\ l.pc \in Enqueuing \cup Triggered \cup Owning \cup {"find", "notify", "mark"} =>
       l.job \in Jobs
  /\ l.pc \in Triggered => l.msg \in Msgs
  /\ l.pc \in Owning \cup {"abandon_queue"} => l.ctx \in ClaimContext
  /\ l.pc \in Owning => l.job = l.ctx.tok.job
  /\ l.pc \in Completing => l.tok = l.ctx.tok /\ l.result \in Results
  /\ l.pc = "find" \/ l.call = "complete" => l.tok \in Token /\ l.result \in Results
  /\ l.pc \in {"notify", "mark"} => l.snap.accAttempt # None /\ l.snap.accResult # None
  /\ l.fresh => l.job \in Jobs

WellFormed ==
  /\ TypeOK
  /\ \A p \in Procs : LocalsInUse(loc[p])
  /\ \A m \in Msgs : queue[m].st = "queued" => queue[m].job \in Jobs

\* A snapshot whose ETag still matches is the blob, and the decision taken on
\* it is one the snapshot allows.
DecisionOK(l, jobs, entries) ==
  /\ l.fresh => l.snap = jobs[l.job]
  /\ l.pc \in Owning => l.ctx.attempt = l.ctx.tok.gen
  /\ l.pc \in Triggered \cup {"enqueue_read", "enqueue_send"} => jobs[l.job].exists
  /\ l.pc \in {"claim_write", "terminate", "accept"} =>
       l.snap.accResult = None /\ l.snap.terminal = None
  /\ l.pc = "claim_write" => l.snap.attempt < MaxAttempts
  /\ l.pc \in {"renew_write", "abandon_write", "accept"} =>
       l.snap.lease = l.ctx.tok /\ l.snap.accResult = None
  /\ l.pc \in {"index", "final_read", "accept"} => l.result \in Good
  /\ l.pc \in {"final_read", "accept"} =>
       [tok |-> l.tok, gen |-> l.tok.gen, attempt |-> l.ctx.attempt] \in entries
  /\ l.pc = "accept" => l.snap.gen = l.ctx.tok.gen

JobOK(j) ==
  LET b == blob[j]
  IN /\ ~b.exists => b = NoJob
     /\ b.gen = b.attempt /\ b.attempt <= MaxAttempts
     /\ b.lease \notin released
     /\ b.lease # None => b.lease.job = j /\ b.lease.gen = b.gen

IInv ==
  /\ WellFormed
  /\ \A p \in Procs : DecisionOK(loc[p], blob, index)
  /\ \A j \in Jobs : JobOK(j)
  /\ \A m \in Msgs : queue[m].st = "queued" => blob[queue[m].job].exists
  /\ \A p \in Procs : \A c \in claims[p] : c.attempt = c.tok.gen
  /\ \A t \in released : t.gen <= blob[t.job].gen
  /\ AcceptedUnderCurrentClaim /\ CompletionReplayable

=============================================================================
