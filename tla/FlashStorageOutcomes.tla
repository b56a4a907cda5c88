------------------------- MODULE FlashStorageOutcomes -------------------------
(***************************************************************************)
(* What FlashStorage tells the outside is so, and stays so: OutInv extends *)
(* the inductive invariant IInv by what a call holds in its hands between  *)
(* two requests (its trigger, the lease it renews, the outcome it          *)
(* acknowledges or notifies), and FlashStorage implements FlashJob.        *)
(*                                                                         *)
(* The argument: what one call has found out, no other call undoes         *)
(* (Onward): outcomes, start times and triggers' jobs stay, the clock only *)
(* advances.  So a step has to answer for its own process (StepKeeps), and *)
(* is either quiet or one conditional write (QuietKeeps, WriteKeeps).      *)
(***************************************************************************)
EXTENDS FlashStorageSafety

\* Message i is, or was, a trigger of job j.
Refers(msgs, i, j) == msgs[i].st # "unsent" /\ msgs[i].job = j

\* Result r is the job's, accepted under tok.
Holds(jobs, tok, r) == jobs[tok.job].accTok = tok /\ jobs[tok.job].accResult = r

\* The token of a claim that process p made.
IssuedTo(tok, p) == tok.proc = p /\ tok.gen > 0

\* A claim or a terminal record is written only when the lease is over, the
\* latter when a budget is used up: both were so when the job was read.  New
\* leases are counted from the past.
DecidedInTime(l, t) ==
  /\ l.pc = "claim_write" => l.at <= t
  /\ l.pc = "renew_write" => l.at <= t + LeaseSeconds
  /\ l.pc \in {"claim_write", "terminate"} => t >= LeaseEnd(l.snap)
  /\ l.pc = "terminate" => l.snap.attempt >= MaxAttempts \/ t >= Deadline(l.snap)

\* A call handles a trigger of its job, and deletes it when the job is over.
TriggerInHand(l, jobs, msgs) ==
  /\ l.pc \in Triggered => Refers(msgs, l.msg, l.job)
  /\ l.pc = "drain" => jobs[l.job].accResult # None
  /\ l.pc = "discard" => jobs[l.job].terminal # None
  /\ l.pc \in Owning \cup {"abandon_queue"} => Refers(msgs, l.ctx.msg, l.ctx.tok.job)

\* A renewal, within the wall budget, ends no context of its claim earlier.
RenewalExtends(l, p, mine) ==
  /\ l.pc \in Owning => IssuedTo(l.ctx.tok, p)
  /\ l.pc = "renew_read" => \A c \in mine : c.expires <= l.at + LeaseSeconds
  /\ l.pc = "renew_write" =>
       /\ l.snap.terminal = None /\ l.at <= Deadline(l.snap)
       /\ \A c \in mine : c.tok = l.ctx.tok => c.expires <= l.at

\* What a call is about to acknowledge or to notify is the outcome.
OutcomeInHand(l, jobs, told) ==
  /\ l.pc = "settle" \/ l.call = "complete" => Holds(jobs, l.tok, l.result)
  /\ l.pc = "find" => l.job = l.tok.job
  /\ l.pc \in {"notify", "mark"} =>
       /\ jobs[l.job].accResult = l.snap.accResult
       /\ jobs[l.job].accAttempt = l.snap.accAttempt
  /\ l.pc = "mark" => \E n \in told : n.job = l.job

\* The call of process p may be where l says.
HandsOK(l, p) ==
  /\ DecidedInTime(l, clock) /\ TriggerInHand(l, blob, queue)
  /\ RenewalExtends(l, p, claims[p]) /\ OutcomeInHand(l, blob, notified)

\* The call process p is in may be where it is.
CallOK(p) == HandsOK(loc[p], p)

\* A claim context of process p.
ContextOK(p, c) ==
  /\ IssuedTo(c.tok, p) /\ blob[c.tok.job].exists
  /\ c.expires <= Deadline(blob[c.tok.job]) /\ c.expires <= clock + LeaseSeconds
  /\ Refers(queue, c.msg, c.tok.job)

\* The inductive invariant.
OutInv ==
  /\ IInv
  /\ \A p \in Procs : CallOK(p)
  /\ \A p \in Procs : \A c \in claims[p] : ContextOK(p, c)
  /\ AcksAreDurable /\ NotificationsTellOutcome
  /\ LiveClaimIsCurrent /\ BudgetsAreKept /\ TriggerNotLost

-----------------------------------------------------------------------------
(* What no step undoes.                                                    *)

\* Locals that differ at most in whether an ETag is still good.
Same(k, l) ==
  /\ l.pc = k.pc /\ l.call = k.call /\ l.job = k.job /\ l.snap = k.snap /\ l.at = k.at
  /\ l.msg = k.msg /\ l.ctx = k.ctx /\ l.tok = k.tok /\ l.result = k.result

\* No step undoes outcomes, times or what a message is about.
Onward ==
  /\ Safe
  /\ clock <= clock' /\ notified \subseteq notified'
  /\ \A j \in Jobs : blob[j].exists => blob'[j].started = blob[j].started
  /\ \A m \in Msgs : queue[m].st # "unsent" =>
                       queue'[m].st # "unsent" /\ queue'[m].job = queue[m].job

\* Types, for the provers.
LEMMA StateTypes ==
  ASSUME IInv
  PROVE  /\ clock \in Nat /\ blob \in [Jobs -> JobState] /\ queue \in [Msgs -> Message]
         /\ claims \in [Procs -> SUBSET ClaimContext] /\ loc \in [Procs -> Local]
         /\ notified \subseteq Notification /\ acked \subseteq Completion
         /\ enqueued \subseteq Jobs /\ released \subseteq Token
BY BoundsAssumption DEF IInv, WellFormed, TypeOK

\* What a call holds stays good while others go on.
LEMMA HandsKept ==
  ASSUME OutInv, Onward, NEW p \in Procs, NEW l \in Local, LocalsInUse(l), HandsOK(l, p),
         claims'[p] \subseteq claims[p]
  PROVE  /\ DecidedInTime(l, clock') /\ TriggerInHand(l, blob', queue')
         /\ RenewalExtends(l, p, claims'[p]) /\ OutcomeInHand(l, blob', notified')
<1>1. IInv /\ \A j \in Jobs : JobKept(blob[j], blob'[j])
  BY DEF OutInv, Onward, Safe
<1>2. DecidedInTime(l, clock')
  <2>1. clock \in Nat /\ clock' \in Nat /\ clock <= clock'
    BY <1>1, StateTypes, BoundsAssumption DEF Onward, Safe, IInv, WellFormed, TypeOK
  <2>2. Deadline(l.snap) \in Nat /\ LeaseEnd(l.snap) \in Nat /\ l.at \in Nat
    BY BudgetAssumption DEF Local, JobState, Deadline, LeaseEnd, Lesser
  <2>3. QED
    BY <2>1, <2>2, OptionsAssumption DEF HandsOK, DecidedInTime
<1>3. TriggerInHand(l, blob', queue')
  <2>1. /\ l.pc \in Triggered => l.msg \in Msgs /\ l.job \in Jobs
        /\ l.pc \in Owning \cup {"abandon_queue"} => l.ctx.msg \in Msgs
    BY DEF LocalsInUse, ClaimContext
  <2>2. \A m \in Msgs : \A j : Refers(queue, m, j) => Refers(queue', m, j)
    BY DEF Onward, Refers
  <2>3. QED
    BY <1>1, <2>1, <2>2 DEF HandsOK, TriggerInHand, JobKept, Triggered
<1>4. RenewalExtends(l, p, claims'[p])
  BY DEF HandsOK, RenewalExtends
<1>5. OutcomeInHand(l, blob', notified')
  <2>1. l.pc = "settle" \/ l.call = "complete" => l.tok.job \in Jobs /\ l.result # None
    BY NoneAssumption DEF LocalsInUse, Completing, Owning, Token, ClaimContext
  <2>2. l.pc \in {"notify", "mark"} => l.job \in Jobs /\ l.snap.accResult # None
    BY DEF LocalsInUse
  <2>3. notified \subseteq notified'
    BY DEF Onward
  <2>4. QED
    BY <1>1, <2>1, <2>2, <2>3 DEF HandsOK, OutcomeInHand, Holds, JobKept
<1>6. QED
  BY <1>2, <1>3, <1>4, <1>5

\* The same, for a process that does not move.
LEMMA CallKept ==
  ASSUME OutInv, Onward, NEW q \in Procs, Same(loc[q], loc'[q]), claims'[q] = claims[q]
  PROVE  CallOK(q)'
<1> DEFINE k == loc[q]
           l == loc'[q]
<1>1. HandsOK(k, q) /\ k \in Local /\ LocalsInUse(k)
  BY DecisionOf DEF OutInv, CallOK
<1>2. /\ l.pc = k.pc /\ l.call = k.call /\ l.job = k.job /\ l.snap = k.snap /\ l.at = k.at
      /\ l.msg = k.msg /\ l.ctx = k.ctx /\ l.tok = k.tok /\ l.result = k.result
  BY DEF Same
<1> HIDE DEF k, l
<1>3. /\ DecidedInTime(k, clock') /\ TriggerInHand(k, blob', queue')
      /\ RenewalExtends(k, q, claims'[q]) /\ OutcomeInHand(k, blob', notified')
  BY <1>1, HandsKept
<1>4. /\ DecidedInTime(l, clock') /\ TriggerInHand(l, blob', queue')
      /\ RenewalExtends(l, q, claims'[q]) /\ OutcomeInHand(l, blob', notified')
  BY <1>2, <1>3 DEF DecidedInTime, TriggerInHand, RenewalExtends, OutcomeInHand
<1>5. QED
  BY <1>4 DEF CallOK, HandsOK, l

\* Contexts stay good while others go on.
LEMMA ContextKept ==
  ASSUME OutInv, Onward, NEW q \in Procs, NEW c \in claims[q]
  PROVE  ContextOK(q, c)'
<1>1. ContextOK(q, c) /\ IInv /\ c \in ClaimContext
  BY StateTypes DEF OutInv
<1>2. c.tok.job \in Jobs /\ c.msg \in Msgs /\ c.expires \in Nat
  BY <1>1 DEF ClaimContext, Token
<1>3. blob'[c.tok.job].exists /\ blob'[c.tok.job].started = blob[c.tok.job].started
  BY <1>1, <1>2 DEF Onward, Safe, JobKept, ContextOK
<1>4. clock \in Nat /\ clock' \in Nat /\ clock <= clock'
  BY <1>1, StateTypes, BoundsAssumption DEF Onward, Safe, IInv, WellFormed, TypeOK
<1>5. Deadline(blob'[c.tok.job]) = Deadline(blob[c.tok.job])
  BY <1>3 DEF Deadline
<1>6. Refers(queue', c.msg, c.tok.job)
  BY <1>1, <1>2 DEF ContextOK, Onward, Refers
<1>7. c.expires <= clock' + LeaseSeconds
  BY <1>1, <1>2, <1>4, OptionsAssumption DEF ContextOK
<1>8. QED
  BY <1>1, <1>3, <1>5, <1>6, <1>7 DEF ContextOK

\* A step answers for the call of its own process, the contexts it adds and
\* the properties.
LEMMA StepKeeps ==
  ASSUME OutInv, Onward, NEW p \in Procs,
         \A q \in Procs \ {p} : Same(loc[q], loc'[q]) /\ claims'[q] = claims[q],
         CallOK(p)', \A c \in claims'[p] \ claims[p] : ContextOK(p, c)',
         (AcksAreDurable /\ NotificationsTellOutcome /\ LiveClaimIsCurrent
          /\ BudgetsAreKept /\ TriggerNotLost)'
  PROVE  OutInv'
<1>1. IInv'
  BY DEF Onward, Safe
<1>2. \A q \in Procs : CallOK(q)'
  BY CallKept
<1>3. \A q \in Procs : \A c \in claims'[q] : ContextOK(q, c)'
  BY ContextKept
<1>4. QED
  BY <1>1, <1>2, <1>3 DEF OutInv

\* What was acknowledged stays the outcome.
LEMMA AcksKept ==
  ASSUME OutInv, Onward, UNCHANGED acked
  PROVE  AcksAreDurable'
<1> SUFFICES ASSUME NEW a \in acked
             PROVE  blob'[a.tok.job].accTok = a.tok /\ blob'[a.tok.job].accResult = a.result
  BY DEF AcksAreDurable
<1>1. a \in Completion
  BY StateTypes DEF OutInv
<1>2. a.tok.job \in Jobs /\ a.result # None
  BY <1>1, NoneAssumption DEF Completion, Token
<1>3. blob[a.tok.job].accTok = a.tok /\ blob[a.tok.job].accResult = a.result
  BY DEF OutInv, AcksAreDurable
<1>4. QED
  BY <1>2, <1>3 DEF Onward, Safe, JobKept

\* NotificationsTellOutcome, for one job.
LEMMA NotifiedOf ==
  ASSUME OutInv, NEW j \in Jobs
  PROVE  /\ blob[j].accResult # None => blob[j].pending = ~blob[j].sent
         /\ blob[j].sent => \E n \in notified : n.job = j
<1>1. NotificationsTellOutcome
  BY DEF OutInv
<1>2. Accepted(j) => blob[j].pending = ~blob[j].sent
  BY <1>1, JobsOfIInv, SMTT(20) DEF NotificationsTellOutcome, OutInv, JobState
<1>3. blob[j].sent => \E n \in notified : n.job = j
  BY <1>1 DEF NotificationsTellOutcome
<1>4. QED
  BY <1>2, <1>3 DEF Accepted

\* What was notified stays the outcome.
LEMMA NotificationsKept ==
  ASSUME OutInv, Onward, UNCHANGED notified,
         \A j \in Jobs : /\ blob'[j].accResult # None => blob'[j].pending = ~blob'[j].sent
                         /\ blob'[j].sent => \E n \in notified : n.job = j
  PROVE  NotificationsTellOutcome'
<1>1. ASSUME NEW n \in notified
      PROVE  blob'[n.job].accAttempt = n.attempt /\ blob'[n.job].accResult = n.result
  <2>1. n \in Notification
    BY StateTypes DEF OutInv
  <2>2. n.job \in Jobs /\ n.result # None
    BY <2>1, NoneAssumption DEF Notification
  <2>3. blob[n.job].accAttempt = n.attempt /\ blob[n.job].accResult = n.result
    BY DEF OutInv, NotificationsTellOutcome
  <2>4. QED
    BY <2>2, <2>3 DEF Onward, Safe, JobKept
<1>2. QED
  BY <1>1 DEF NotificationsTellOutcome, Accepted

\* A trigger is deleted only when its job is over.
LEMMA TriggersKept ==
  ASSUME OutInv, Onward, UNCHANGED enqueued,
         \A m \in Msgs : queue[m].st = "queued" =>
           \/ queue'[m].st = "queued"
           \/ blob[queue[m].job].accResult # None \/ blob[queue[m].job].terminal # None
  PROVE  TriggerNotLost'
<1> SUFFICES ASSUME NEW j \in enqueued
             PROVE  \/ blob'[j].accResult # None \/ blob'[j].terminal # None
                    \/ \E m \in Msgs : queue'[m].st = "queued" /\ queue'[m].job = j
  BY DEF TriggerNotLost, Accepted, Terminal
<1>1. j \in Jobs
  BY StateTypes DEF OutInv
<1>2. JobKept(blob[j], blob'[j])
  BY <1>1 DEF Onward, Safe
<1>3. CASE blob[j].accResult # None \/ blob[j].terminal # None
  BY <1>2, <1>3 DEF JobKept
<1>4. CASE ~(blob[j].accResult # None \/ blob[j].terminal # None)
  <2>1. PICK m \in Msgs : queue[m].st = "queued" /\ queue[m].job = j
    BY <1>4 DEF OutInv, TriggerNotLost, Accepted, Terminal
  <2>2. queue'[m].st = "queued" /\ queue'[m].job = j
    BY <1>4, <2>1 DEF Onward
  <2>3. QED
    BY <2>2
<1>5. QED
  BY <1>3, <1>4

\* A reason, once given, stays true.
LEMMA BudgetKept ==
  ASSUME OutInv, Onward, NEW j \in Jobs, blob[j].terminal # None
  PROVE  /\ blob'[j].terminal = "attempt_budget_exhausted" => blob'[j].attempt = MaxAttempts
         /\ blob'[j].terminal = "wall_budget_expired" => clock' >= Deadline(blob'[j])
<1>1. blob[j] \in JobState /\ blob[j].exists /\ JobKept(blob[j], blob'[j])
  BY JobsOfIInv DEF OutInv, Onward, Safe, NoJob
<1>2. /\ blob'[j].terminal = blob[j].terminal /\ blob'[j].attempt = blob[j].attempt
      /\ blob'[j].started = blob[j].started
  BY <1>1 DEF Onward, JobKept
<1>3. clock \in Nat /\ clock' \in Nat /\ clock <= clock'
  BY StateTypes, BoundsAssumption DEF OutInv, Onward, Safe, IInv, WellFormed, TypeOK
<1>4. /\ blob[j].terminal = "attempt_budget_exhausted" => blob[j].attempt = MaxAttempts
      /\ blob[j].terminal = "wall_budget_expired" => clock >= Deadline(blob[j])
  BY DEF OutInv, BudgetsAreKept
<1>5. Deadline(blob[j]) \in Nat /\ Deadline(blob'[j]) = Deadline(blob[j])
  BY <1>1, <1>2, BudgetAssumption DEF Deadline, JobState
<1>6. QED
  BY <1>2, <1>3, <1>4, <1>5

\* So a step has to answer for the reasons it gives.
LEMMA BudgetsKept ==
  ASSUME OutInv, Onward,
         \A j \in Jobs : blob[j].terminal = None =>
           /\ blob'[j].terminal = "attempt_budget_exhausted" => blob'[j].attempt = MaxAttempts
           /\ blob'[j].terminal = "wall_budget_expired" => clock' >= Deadline(blob'[j])
  PROVE  BudgetsAreKept'
<1>1. \A j \in Jobs : JobOK(j)'
  BY DEF Onward, Safe, IInv
<1>2. QED
  BY <1>1, BudgetKept DEF BudgetsAreKept, JobOK

\* Claims of jobs whose lease is left alone.
LEMMA LiveKept ==
  ASSUME OutInv, Onward, released \subseteq released', NEW q \in Procs, NEW c \in claims[q],
         clock' < c.expires, c.tok \notin released',
         blob'[c.tok.job].lease = blob[c.tok.job].lease,
         blob'[c.tok.job].expires = blob[c.tok.job].expires,
         blob'[c.tok.job].terminal = blob[c.tok.job].terminal
  PROVE  LET b == blob'[c.tok.job]
         IN b.lease = c.tok /\ c.expires <= LeaseEnd(b) /\ b.terminal = None
<1>1. ContextOK(q, c) /\ c \in ClaimContext
  BY StateTypes DEF OutInv
<1>2. clock \in Nat /\ clock' \in Nat /\ clock <= clock'
  BY StateTypes, BoundsAssumption DEF OutInv, Onward, Safe, IInv, WellFormed, TypeOK
<1>3. c \in Live(q) /\ c.tok \notin released
  BY <1>1, <1>2 DEF Live, ClaimContext
<1>4. /\ blob[c.tok.job].lease = c.tok /\ c.expires <= LeaseEnd(blob[c.tok.job])
      /\ blob[c.tok.job].terminal = None
  BY <1>3 DEF OutInv, LiveClaimIsCurrent
<1>5. c.tok.job \in Jobs /\ blob'[c.tok.job].started = blob[c.tok.job].started
  BY <1>1 DEF ClaimContext, Token, ContextOK, Onward
<1>6. LeaseEnd(blob'[c.tok.job]) = LeaseEnd(blob[c.tok.job])
  BY <1>5 DEF LeaseEnd, Deadline
<1>7. QED
  BY <1>4, <1>6

\* A step that writes no job and adds no context.
LEMMA QuietKeeps ==
  ASSUME OutInv, Safe, NEW p \in Procs, UNCHANGED <<blob, released>>,
         clock <= clock', notified \subseteq notified',
         \A m \in Msgs :
           queue[m].st # "unsent" => queue'[m].st # "unsent" /\ queue'[m].job = queue[m].job,
         \A q \in Procs \ {p} : Same(loc[q], loc'[q]) /\ claims'[q] = claims[q],
         claims'[p] \subseteq claims[p],
         Onward => CallOK(p)',
         Onward => (AcksAreDurable /\ NotificationsTellOutcome /\ TriggerNotLost)'
  PROVE  OutInv'
<1>1. Onward
  BY DEF Onward
<1>2. BudgetsAreKept'
  <2>1. \A j \in Jobs : blob'[j].terminal = blob[j].terminal
    OBVIOUS
  <2>2. QED
    BY <1>1, <2>1, BudgetsKept, NoneAssumption DEF TerminalReasons
<1>3. LiveClaimIsCurrent'
  <2> SUFFICES ASSUME NEW q \in Procs, NEW c \in Live(q)', c.tok \notin released'
               PROVE  LET b == blob'[c.tok.job]
                      IN b.lease = c.tok /\ c.expires <= LeaseEnd(b) /\ b.terminal = None
    BY DEF LiveClaimIsCurrent, LeaseEnd, Deadline
  <2>1. c \in claims[q] /\ clock' < c.expires
    BY DEF Live
  <2>2. QED
    BY <1>1, <2>1, LiveKept
<1>4. QED
  BY <1>1, <1>2, <1>3, StepKeeps

\* One conditional write of job j.
LEMMA WriteKeeps ==
  ASSUME OutInv, Safe, NEW p \in Procs, NEW n \in JobState, NEW l \in Local,
         Put(p, n, l), loc[p].job \in Jobs,
         blob[loc[p].job].exists => n.started = blob[loc[p].job].started,
         UNCHANGED <<clock, notified, acked, enqueued>>, released \subseteq released',
         \A m \in Msgs : queue'[m].st = queue[m].st /\ queue'[m].job = queue[m].job,
         \A q \in Procs \ {p} : claims'[q] = claims[q],
         \A c \in claims'[p] \ claims[p] : c.tok.job = loc[p].job,
         Onward => CallOK(p)',
         Onward => \A c \in claims'[p] \ claims[p] : ContextOK(p, c)',
         n.accResult # None => n.pending = ~n.sent,
         n.sent => \E i \in notified : i.job = loc[p].job,
         blob[loc[p].job].terminal = None =>
           /\ n.terminal = "attempt_budget_exhausted" => n.attempt = MaxAttempts
           /\ n.terminal = "wall_budget_expired" => clock >= Deadline(n),
         \A q \in Procs : \A c \in claims'[q] :
           c.tok.job = loc[p].job /\ clock < c.expires /\ c.tok \notin released' =>
             n.lease = c.tok /\ c.expires <= LeaseEnd(n) /\ n.terminal = None
  PROVE  OutInv'
<1> DEFINE j == loc[p].job
<1>1. IInv /\ \A i \in Jobs : blob'[i] = IF i = j THEN n ELSE blob[i]
  BY StateTypes DEF OutInv, Put
<1>2. Onward
  BY <1>1, StateTypes DEF Onward
<1>3. \A q \in Procs \ {p} : Same(loc[q], loc'[q]) /\ claims'[q] = claims[q]
  <2> SUFFICES ASSUME NEW q \in Procs \ {p} PROVE Same(loc[q], loc'[q])
    OBVIOUS
  <2>1. loc[q] \in Local
    BY <1>1, StateTypes
  <2>2. loc'[q] = [loc[q] EXCEPT !.fresh = FALSE] \/ loc'[q] = loc[q]
    BY DEF Put
  <2>3. QED
    BY <2>1, <2>2 DEF Local, Same
<1>4. AcksAreDurable'
  BY <1>2, AcksKept
<1>5. NotificationsTellOutcome'
  <2>1. ASSUME NEW i \in Jobs
        PROVE  /\ blob'[i].accResult # None => blob'[i].pending = ~blob'[i].sent
               /\ blob'[i].sent => \E k \in notified : k.job = i
    <3>1. CASE i = j
      BY <1>1, <3>1
    <3>2. CASE i # j
      <4>1. blob'[i] = blob[i]
        BY <1>1, <3>2
      <4>2. /\ blob[i].accResult # None => blob[i].pending = ~blob[i].sent
            /\ blob[i].sent => \E k \in notified : k.job = i
        BY NotifiedOf
      <4>3. QED
        BY <4>1, <4>2
    <3>3. QED
      BY <3>1, <3>2
  <2>2. QED
    BY <1>2, <2>1, NotificationsKept
<1>6. TriggerNotLost'
  BY <1>2, TriggersKept
<1>7. BudgetsAreKept'
  <2>1. \A i \in Jobs : blob[i].terminal = None =>
           /\ blob'[i].terminal = "attempt_budget_exhausted" => blob'[i].attempt = MaxAttempts
           /\ blob'[i].terminal = "wall_budget_expired" => clock' >= Deadline(blob'[i])
    <3> SUFFICES ASSUME NEW i \in Jobs, i # j, blob[i].terminal = None
                 PROVE  /\ blob'[i].terminal # "attempt_budget_exhausted"
                        /\ blob'[i].terminal # "wall_budget_expired"
      BY <1>1
    <3>1. blob'[i].terminal = None
      BY <1>1
    <3>2. QED
      BY <3>1, NoneAssumption DEF TerminalReasons
  <2>2. QED
    BY <1>2, <2>1, BudgetsKept
<1>8. LiveClaimIsCurrent'
  <2> SUFFICES ASSUME NEW q \in Procs, NEW c \in Live(q)', c.tok \notin released'
               PROVE  LET b == blob'[c.tok.job]
                      IN b.lease = c.tok /\ c.expires <= LeaseEnd(b) /\ b.terminal = None
    BY DEF LiveClaimIsCurrent, LeaseEnd, Deadline
  <2>1. c \in claims'[q] /\ clock < c.expires /\ clock' < c.expires
    BY DEF Live
  <2>2. CASE c.tok.job = j
    BY <1>1, <2>1, <2>2
  <2>3. CASE c.tok.job # j
    <3>1. c \in claims[q] /\ c.tok.job \in Jobs
      BY <1>1, <2>1, <2>3, StateTypes DEF ClaimContext, Token
    <3>2. blob'[c.tok.job] = blob[c.tok.job]
      BY <1>1, <2>3, <3>1
    <3>3. QED
      BY <1>2, <2>1, <3>1, <3>2, LiveKept
  <2>4. QED
    BY <2>2, <2>3
<1>9. QED
  BY <1>2, <1>3, <1>4, <1>5, <1>6, <1>7, <1>8, StepKeeps

-----------------------------------------------------------------------------
(* Quiet steps: no job is written, no context is added.                    *)

\* A process that moves on leaves the others where they are.
LEMMA GotoOthers ==
  ASSUME IInv, NEW p \in Procs, NEW l, Goto(p, l)
  PROVE  loc'[p] = l /\ \A q \in Procs \ {p} : Same(loc[q], loc'[q])
BY StateTypes DEF Goto, Same

\* The process goes on with l, which is right of the state it leaves.
LEMMA GotoKeeps ==
  ASSUME OutInv, Safe, NEW p \in Procs, NEW l, Goto(p, l), HandsOK(l, p),
         UNCHANGED <<blob, released>>, clock <= clock', notified \subseteq notified',
         \A m \in Msgs : queue[m].st # "unsent" =>
                           queue'[m].st # "unsent" /\ queue'[m].job = queue[m].job,
         \A q \in Procs \ {p} : claims'[q] = claims[q], claims'[p] \subseteq claims[p],
         Onward => (AcksAreDurable /\ NotificationsTellOutcome /\ TriggerNotLost)'
  PROVE  OutInv'
<1>1. loc'[p] = l /\ \A q \in Procs \ {p} : Same(loc[q], loc'[q])
  BY GotoOthers DEF OutInv
<1>2. l \in Local /\ LocalsInUse(l)
  <2>1. loc'[p] \in Local /\ LocalsInUse(loc'[p])
    BY DEF Safe, IInv, WellFormed, TypeOK
  <2>2. QED
    BY <1>1, <2>1
<1>3. ASSUME Onward PROVE CallOK(p)'
  <2>1. /\ DecidedInTime(l, clock') /\ TriggerInHand(l, blob', queue')
        /\ RenewalExtends(l, p, claims'[p]) /\ OutcomeInHand(l, blob', notified')
    BY <1>2, <1>3, HandsKept
  <2>2. QED
    BY <1>1, <2>1 DEF CallOK, HandsOK
<1>4. QED
  BY <1>1, <1>3, QuietKeeps

\* Nothing else but the queue and the contexts changes, and triggers are
\* deleted for jobs that are over.
LEMMA QueueKeeps ==
  ASSUME OutInv, Safe, NEW p \in Procs, NEW l, Goto(p, l), HandsOK(l, p),
         UNCHANGED <<clock, blob, released, notified, acked, enqueued>>,
         NEW m \in Msgs,
         \/ UNCHANGED queue
         \/ \E who, v : Update(m, who, v)
         \/ /\ Delete(m)
            /\ blob[queue[m].job].accResult # None \/ blob[queue[m].job].terminal # None,
         \A q \in Procs \ {p} : claims'[q] = claims[q], claims'[p] \subseteq claims[p]
  PROVE  OutInv'
<1>1. queue \in [Msgs -> Message] /\ clock \in Nat
  BY StateTypes DEF OutInv
<1>2. \A i \in Msgs :
        /\ queue[i].st # "unsent" => queue'[i].st # "unsent" /\ queue'[i].job = queue[i].job
        /\ queue[i].st = "queued" =>
             \/ queue'[i].st = "queued"
             \/ blob[queue[i].job].accResult # None \/ blob[queue[i].job].terminal # None
  <2> SUFFICES ASSUME NEW i \in Msgs
               PROVE  \/ queue'[i].st = queue[i].st /\ queue'[i].job = queue[i].job
                      \/ /\ queue'[i].st = "deleted" /\ queue'[i].job = queue[i].job
                         /\ \/ blob[queue[i].job].accResult # None
                            \/ blob[queue[i].job].terminal # None
    OBVIOUS
  <2>1. CASE UNCHANGED queue
    BY <2>1
  <2>2. CASE /\ Delete(m)
             /\ blob[queue[m].job].accResult # None \/ blob[queue[m].job].terminal # None
    BY <1>1, <2>2 DEF Delete
  <2>3. CASE \E who, v : Update(m, who, v)
    <3>1. PICK who, v : Update(m, who, v)
      BY <2>3
    <3>2. queue' = [queue EXCEPT ![m] = [[queue[m] EXCEPT !.holder = who] EXCEPT !.visible = v]]
      BY <1>1, <3>1 DEF Update
    <3>3. QED
      BY <1>1, <3>2 DEF Message
  <2>4. QED
    BY <2>1, <2>2, <2>3
<1>3. Onward => (AcksAreDurable /\ TriggerNotLost)'
  BY <1>2, AcksKept, TriggersKept
<1>4. Onward => NotificationsTellOutcome'
  BY NotifiedOf, NotificationsKept
<1>5. QED
  BY <1>1, <1>2, <1>3, <1>4, GotoKeeps

\* Nothing changes but the call's own locals and contexts it drops.
LEMMA LocalKeeps ==
  ASSUME OutInv, Safe, NEW p \in Procs, NEW l, Goto(p, l), HandsOK(l, p),
         UNCHANGED <<clock, blob, queue, released, notified, acked, enqueued>>,
         \A q \in Procs \ {p} : claims'[q] = claims[q], claims'[p] \subseteq claims[p]
  PROVE  OutInv'
<1>1. \A i \in Msgs : queue[i].st = "queued" => queue'[i].st = "queued"
  OBVIOUS
<1>2. Onward => (AcksAreDurable /\ TriggerNotLost)'
  BY <1>1, AcksKept, TriggersKept
<1>3. Onward => NotificationsTellOutcome'
  BY NotifiedOf, NotificationsKept
<1>4. clock \in Nat
  BY StateTypes DEF OutInv
<1>5. QED
  BY <1>2, <1>3, <1>4, GotoKeeps

\* The steps of a call that has nothing in hand.
PlainSteps == {"idle", "receive", "cursor", "list", "scan"} \cup Enqueuing

\* Where nothing is in hand.
LEMMA PlainHands ==
  ASSUME NEW p, NEW l, l.pc \in PlainSteps, l.call # "complete"
  PROVE  HandsOK(l, p)
BY DEF HandsOK, DecidedInTime, TriggerInHand, RenewalExtends, OutcomeInHand, PlainSteps,
       Triggered, Owning, Completing, Enqueuing

\* An idle process has nothing in hand.
LEMMA IdleHands == \A p : HandsOK(Idle, p)
<1> SUFFICES ASSUME NEW p PROVE HandsOK(Idle, p)
  OBVIOUS
<1>1. Idle.pc \in PlainSteps /\ Idle.call # "complete"
  BY NoneAssumption DEF Idle, PlainSteps, Calls
<1>2. QED
  BY <1>1, PlainHands

\* The invariant, for one process.
LEMMA CallOf ==
  ASSUME OutInv, NEW p \in Procs
  PROVE  /\ IInv /\ loc[p] \in Local /\ LocalsInUse(loc[p]) /\ DecisionOK(loc[p], blob, index)
         /\ HandsOK(loc[p], p)
BY DecisionOf DEF OutInv, CallOK

\* The invariant, for one claim context.
LEMMA ClaimOf ==
  ASSUME OutInv, NEW p \in Procs, NEW c \in claims[p]
  PROVE  c \in ClaimContext /\ ContextOK(p, c) /\ c.tok.job \in Jobs /\ c.msg \in Msgs
BY StateTypes DEF OutInv, ClaimContext, Token

-----------------------------------------------------------------------------
(* The quiet actions.                                                      *)

\* enqueue() begins with nothing in hand.
LEMMA EnqueueBeginKeeps ==
  ASSUME OutInv, Safe, NEW p \in Procs, NEW j \in Jobs, EnqueueBegin(p, j)
  PROVE  OutInv'
<1> DEFINE l == [Idle EXCEPT !.pc = "enqueue_create", !.job = j, !.at = clock]
<1>1. l.pc \in PlainSteps /\ l.call # "complete"
  BY NoneAssumption DEF Idle, PlainSteps, Enqueuing, Calls
<1>2. Goto(p, l)
  BY DEF EnqueueBegin
<1>3. UNCHANGED <<clock, blob, queue, claims, released, notified, acked, enqueued>>
  BY DEF EnqueueBegin, services, observed
<1> HIDE DEF l
<1>4. QED
  BY <1>1, <1>2, <1>3, PlainHands, LocalKeeps

\* A retry of enqueue() that returns has found the job accepted.
LEMMA EnqueueReadKeeps ==
  ASSUME OutInv, Safe, NEW p \in Procs, EnqueueRead(p)
  PROVE  OutInv'
<1> DEFINE send == [Idle EXCEPT !.pc = "enqueue_send", !.job = loc[p].job]
<1>1. send.pc \in PlainSteps /\ send.call # "complete"
  BY NoneAssumption DEF Idle, PlainSteps, Enqueuing, Calls
<1>2. UNCHANGED <<clock, blob, queue, claims, released, notified, acked>>
  BY DEF EnqueueRead, services
<1>3. CASE Goto(p, send) /\ UNCHANGED enqueued
  <2> HIDE DEF send
  <2>1. QED
    BY <1>1, <1>2, <1>3, PlainHands, LocalKeeps
<1>4. CASE /\ Goto(p, Idle) /\ enqueued' = enqueued \cup {loc[p].job}
           /\ blob[loc[p].job].accResult # None
  <2>1. Onward => (AcksAreDurable /\ NotificationsTellOutcome)'
    BY <1>2, AcksKept, NotifiedOf, NotificationsKept
  <2>2. TriggerNotLost'
    BY <1>2, <1>4 DEF OutInv, TriggerNotLost, Accepted, Terminal
  <2>3. clock \in Nat
    BY StateTypes DEF OutInv
  <2>4. QED
    BY <1>2, <1>4, <2>1, <2>2, <2>3, IdleHands, GotoKeeps
<1>5. QED
  BY <1>3, <1>4 DEF EnqueueRead, Return

\* enqueue() returns with its trigger in the queue.
LEMMA EnqueueSendKeeps ==
  ASSUME OutInv, Safe, NEW p \in Procs, EnqueueSend(p)
  PROVE  OutInv'
<1>1. /\ UNCHANGED <<clock, blob, claims, released, notified, acked>> /\ Goto(p, Idle)
      /\ enqueued' = enqueued \cup {loc[p].job} \/ UNCHANGED enqueued
  BY DEF EnqueueSend, Return
<1>2. PICK m \in Msgs :
        /\ queue[m].st = "unsent"
        /\ queue' = [queue EXCEPT ![m] = [st |-> "queued", job |-> loc[p].job,
                                          holder |-> None, visible |-> clock]]
  BY DEF EnqueueSend
<1>3. queue \in [Msgs -> Message] /\ clock \in Nat
  BY StateTypes DEF OutInv
<1>4. queue'[m].st = "queued" /\ queue'[m].job = loc[p].job
  BY <1>2, <1>3
<1>5. \A i \in Msgs : i # m => queue'[i] = queue[i]
  BY <1>2, <1>3
<1>6. Onward => (AcksAreDurable /\ NotificationsTellOutcome)'
  BY <1>1, AcksKept, NotifiedOf, NotificationsKept
<1>7. TriggerNotLost'
  <2> SUFFICES ASSUME NEW j \in enqueued', blob[j].accResult = None, blob[j].terminal = None
               PROVE  \E i \in Msgs : queue'[i].st = "queued" /\ queue'[i].job = j
    BY <1>1 DEF TriggerNotLost, Accepted, Terminal
  <2>1. CASE j = loc[p].job
    BY <1>4, <2>1
  <2>2. CASE j # loc[p].job
    <3>1. PICK i \in Msgs : queue[i].st = "queued" /\ queue[i].job = j
      BY <1>1, <2>2 DEF OutInv, TriggerNotLost, Accepted, Terminal
    <3>2. queue'[i] = queue[i]
      BY <1>2, <1>5, <3>1
    <3>3. QED
      BY <3>1, <3>2
  <2>3. QED
    BY <2>1, <2>2
<1>8. \A i \in Msgs : queue[i].st # "unsent" =>
                        queue'[i].st # "unsent" /\ queue'[i].job = queue[i].job
  BY <1>2, <1>5
<1>9. QED
  BY <1>1, <1>3, <1>6, <1>7, <1>8, IdleHands, GotoKeeps

\* claim() begins by forgetting contexts whose lease is over.
LEMMA ClaimBeginKeeps ==
  ASSUME OutInv, Safe, NEW p \in Procs, ClaimBegin(p)
  PROVE  OutInv'
<1> DEFINE l == Recovering("claim", None, None)
<1>1. /\ UNCHANGED <<clock, blob, queue, released, notified, acked, enqueued>>
      /\ claims' = [claims EXCEPT ![p] = Live(p)] /\ (UNCHANGED loc \/ Goto(p, l))
  BY DEF ClaimBegin, services, observed
<1>2. \A q \in Procs \ {p} : claims'[q] = claims[q]
  BY <1>1, StateTypes DEF OutInv
<1>3. claims'[p] \subseteq claims[p]
  BY <1>1, StateTypes DEF OutInv, Live
<1>4. \E k : Goto(p, k) /\ HandsOK(k, p)
  <2>1. l.pc \in PlainSteps /\ l.call # "complete"
    BY DEF Recovering, Idle, PlainSteps
  <2>2. CASE UNCHANGED loc
    <3>1. Goto(p, loc[p])
      BY <2>2, StateTypes DEF Goto, OutInv
    <3>2. QED
      BY <3>1, CallOf
  <2> HIDE DEF l
  <2>3. QED
    BY <1>1, <2>1, <2>2, PlainHands
<1>5. QED
  BY <1>1, <1>2, <1>3, <1>4, LocalKeeps

\* claim() takes a message that is a trigger.
LEMMA ReceiveKeeps ==
  ASSUME OutInv, Safe, NEW p \in Procs, Receive(p)
  PROVE  OutInv'
<1> DEFINE l(m) == [Idle EXCEPT !.pc = "claim_read", !.msg = m,
                                !.job = queue[m].job, !.drained = loc[p].drained]
<1>1. UNCHANGED <<clock, blob, claims, released, notified, acked, enqueued>>
  BY DEF Receive, observed
<1>2. CASE Return(p) /\ UNCHANGED queue
  BY <1>1, <1>2, IdleHands, LocalKeeps DEF Return
<1>3. CASE ~(Return(p) /\ UNCHANGED queue)
  <2>1. PICK m \in Msgs :
          /\ queue[m].st = "queued"
          /\ Update(m, p, clock + LeaseSeconds)
          /\ Goto(p, l(m)) \/ Goto(p, Idle)
    BY <1>3 DEF Receive, Return
  <2>2. HandsOK(l(m), p)
    <3>1. l(m).pc = "claim_read" /\ l(m).call = None /\ l(m).msg = m /\ l(m).job = queue[m].job
      BY DEF Idle
    <3> HIDE DEF l
    <3>2. QED
      BY <2>1, <3>1, NoneAssumption DEF HandsOK, DecidedInTime, TriggerInHand, RenewalExtends,
         OutcomeInHand, Triggered, Owning, Completing, Refers, Calls
  <2> HIDE DEF l
  <2>3. QED
    BY <1>1, <2>1, <2>2, IdleHands, QueueKeeps
<1>4. QED
  BY <1>2, <1>3

\* The steps of a call that has its trigger.
LEMMA TriggeredHands ==
  ASSUME NEW p, NEW l, l.pc \in Triggered,
         l.call = "complete" => Holds(blob, l.tok, l.result),
         Refers(queue, l.msg, l.job),
         l.pc = "drain" => blob[l.job].accResult # None,
         l.pc = "discard" => blob[l.job].terminal # None,
         l.pc \in {"claim_write", "terminate"} => clock >= LeaseEnd(l.snap),
         l.pc = "claim_write" => l.at <= clock,
         l.pc = "terminate" => l.snap.attempt >= MaxAttempts \/ clock >= Deadline(l.snap)
  PROVE  HandsOK(l, p)
BY DEF HandsOK, DecidedInTime, TriggerInHand, RenewalExtends, OutcomeInHand, Triggered, Owning,
       Completing


\* What a claim with a trigger has in hand.
LEMMA TriggeredOf ==
  ASSUME OutInv, NEW p \in Procs, loc[p].pc \in Triggered
  PROVE  /\ loc[p].msg \in Msgs /\ loc[p].job \in Jobs /\ Refers(queue, loc[p].msg, loc[p].job)
         /\ loc[p].call = "complete" => Holds(blob, loc[p].tok, loc[p].result)
BY CallOf DEF LocalsInUse, HandsOK, TriggerInHand, OutcomeInHand

\* _claim_message decides on the job and the clock as they are.
LEMMA ClaimReadKeeps ==
  ASSUME OutInv, Safe, NEW p \in Procs, ClaimRead(p)
  PROVE  OutInv'
<1> DEFINE l == loc[p]
           b == blob[l.job]
           read == [l EXCEPT !.snap = b, !.fresh = TRUE, !.at = clock, !.drained = 0]
           drain == [l EXCEPT !.pc = "drain"]
           discard == [l EXCEPT !.pc = "discard", !.drained = 0]
           kill == [read EXCEPT !.pc = "terminate"]
           take == [read EXCEPT !.pc = "claim_write"]
           AsBefore(k) == /\ k.msg = l.msg /\ k.job = l.job /\ k.call = l.call
                          /\ k.tok = l.tok /\ k.result = l.result
<1>1. /\ l \in Local /\ l.pc = "claim_read" /\ IInv
      /\ UNCHANGED <<clock, blob, queue, claims, released, notified, acked, enqueued>>
  BY CallOf DEF ClaimRead, services, observed
<1>2. /\ l.msg \in Msgs /\ l.job \in Jobs /\ Refers(queue, l.msg, l.job)
      /\ l.call = "complete" => Holds(blob, l.tok, l.result)
  BY <1>1, TriggeredOf DEF Triggered
<1>3. /\ AsBefore(drain) /\ drain.pc = "drain"
      /\ AsBefore(discard) /\ discard.pc = "discard"
      /\ AsBefore(kill) /\ kill.pc = "terminate" /\ kill.snap = b
      /\ AsBefore(take) /\ take.pc = "claim_write" /\ take.snap = b /\ take.at = clock
  <2> HIDE DEF l
  <2>1. QED
    BY <1>1 DEF Local
<1> DEFINE end == LeaseEnd(b)
<1>4. clock \in Nat /\ end \in Nat /\ Deadline(b) \in Nat /\ b.attempt \in Nat
  BY <1>1, <1>2, StateTypes, BudgetAssumption DEF LeaseEnd, Lesser, Deadline, JobState
<1>5. \/ Goto(p, Idle)
      \/ b.accResult # None /\ Goto(p, drain)
      \/ b.terminal # None /\ Goto(p, discard)
      \/ clock >= end /\ Exhausted(b) /\ Goto(p, kill)
      \/ clock >= end /\ Goto(p, take)
  <2>1. CASE b.accResult # None
    BY <2>1 DEF ClaimRead
  <2>2. CASE b.accResult = None /\ b.terminal # None
    BY <2>2 DEF ClaimRead
  <2>3. CASE b.accResult = None /\ b.terminal = None
    <3>1. CASE clock < end
      <4>1. ~(clock >= end)
        <5> HIDE DEF end
        <5>1. QED
          BY <1>4, <3>1
      <4>2. QED
        BY <2>3, <3>1, <4>1 DEF ClaimRead, Return
    <3>2. CASE ~(clock < end)
      <4>1. clock >= end
        <5> HIDE DEF end
        <5>1. QED
          BY <1>4, <3>2
      <4>2. CASE Exhausted(b)
        BY <2>3, <3>2, <4>1, <4>2 DEF ClaimRead
      <4>3. CASE ~Exhausted(b)
        BY <2>3, <3>2, <4>1, <4>3 DEF ClaimRead
      <4>4. QED
        BY <4>2, <4>3
    <3>3. QED
      BY <3>1, <3>2
  <2>4. QED
    BY <2>1, <2>2, <2>3
<1> HIDE DEF drain, discard, kill, take
<1>6. CASE Goto(p, Idle)
  BY <1>1, <1>6, IdleHands, LocalKeeps
<1>7. CASE b.accResult # None /\ Goto(p, drain)
  <2>1. HandsOK(drain, p)
    BY <1>2, <1>3, <1>7, TriggeredHands DEF Triggered
  <2>2. QED
    BY <1>1, <1>7, <2>1, LocalKeeps
<1>8. CASE b.terminal # None /\ Goto(p, discard)
  <2>1. HandsOK(discard, p)
    BY <1>2, <1>3, <1>8, TriggeredHands DEF Triggered
  <2>2. QED
    BY <1>1, <1>8, <2>1, LocalKeeps
<1>9. CASE clock >= end /\ Exhausted(b) /\ Goto(p, kill)
  <2>1. HandsOK(kill, p)
    BY <1>2, <1>3, <1>9, TriggeredHands DEF Triggered, Exhausted
  <2>2. QED
    BY <1>1, <1>9, <2>1, LocalKeeps
<1>10. CASE clock >= end /\ Goto(p, take)
  <2>1. HandsOK(take, p)
    BY <1>2, <1>3, <1>4, <1>10, TriggeredHands DEF Triggered
  <2>2. QED
    BY <1>1, <1>10, <2>1, LocalKeeps
<1>11. QED
  BY <1>5, <1>6, <1>7, <1>8, <1>9, <1>10

\* claim() deletes the trigger of an accepted job.
LEMMA DrainKeeps ==
  ASSUME OutInv, Safe, NEW p \in Procs, Drain(p)
  PROVE  OutInv'
<1> DEFINE k == [Idle EXCEPT !.pc = "receive", !.drained = loc[p].drained + 1]
<1>1. /\ UNCHANGED <<clock, blob, claims, released, notified, acked, enqueued>>
      /\ Goto(p, k) \/ Goto(p, Idle)
      /\ UNCHANGED queue \/ Delete(loc[p].msg)
  BY DEF Drain, observed, Return
<1>2. /\ loc[p].msg \in Msgs
      /\ queue[loc[p].msg].job = loc[p].job /\ blob[loc[p].job].accResult # None
  BY TriggeredOf, CallOf DEF Drain, Triggered, Refers, HandsOK, TriggerInHand
<1>3. HandsOK(k, p)
  <2>1. k.pc \in PlainSteps /\ k.call # "complete"
    BY NoneAssumption DEF Idle, PlainSteps, Calls
  <2>2. QED
    BY <2>1, PlainHands
<1> HIDE DEF k
<1>4. QED
  BY <1>1, <1>2, <1>3, IdleHands, QueueKeeps

\* claim() deletes the trigger of an exhausted job.
LEMMA DiscardKeeps ==
  ASSUME OutInv, Safe, NEW p \in Procs, Discard(p)
  PROVE  OutInv'
<1>1. /\ UNCHANGED <<clock, blob, claims, released, notified, acked, enqueued>>
      /\ Goto(p, Idle)
      /\ UNCHANGED queue \/ Delete(loc[p].msg)
  BY DEF Discard, observed, Return
<1>2. /\ loc[p].msg \in Msgs
      /\ queue[loc[p].msg].job = loc[p].job /\ blob[loc[p].job].terminal # None
  BY TriggeredOf, CallOf DEF Discard, Triggered, Refers, HandsOK, TriggerInHand
<1>3. QED
  BY <1>1, <1>2, IdleHands, QueueKeeps

-----------------------------------------------------------------------------
(* renew, abandon and complete, between their writes.                      *)

\* The steps of a call that has a claim context, but for a renewal's read and
\* write and settling.
LEMMA OwningHands ==
  ASSUME NEW p, NEW l,
         l.pc \in {"renew_queue", "abandon_write", "abandon_queue", "verify", "index",
                   "final_read", "accept"},
         l.call = "complete" => Holds(blob, l.tok, l.result),
         IssuedTo(l.ctx.tok, p), Refers(queue, l.ctx.msg, l.ctx.tok.job)
  PROVE  HandsOK(l, p)
BY DEF HandsOK, DecidedInTime, TriggerInHand, RenewalExtends, OutcomeInHand, Triggered, Owning,
       Completing

\* What a call with a claim context has in hand.
LEMMA OwningOf ==
  ASSUME OutInv, NEW p \in Procs, loc[p].pc \in Owning
  PROVE  /\ loc[p].ctx \in ClaimContext /\ loc[p].ctx.msg \in Msgs
         /\ loc[p].job = loc[p].ctx.tok.job /\ loc[p].job \in Jobs
         /\ IssuedTo(loc[p].ctx.tok, p) /\ Refers(queue, loc[p].ctx.msg, loc[p].ctx.tok.job)
         /\ loc[p].call = "complete" => Holds(blob, loc[p].tok, loc[p].result)
BY CallOf DEF LocalsInUse, HandsOK, TriggerInHand, RenewalExtends, OutcomeInHand, ClaimContext,
              Token

\* renew() takes the context's token and message in hand.
LEMMA RenewBeginKeeps ==
  ASSUME OutInv, Safe, NEW p \in Procs, NEW c \in claims[p], RenewBegin(p, c)
  PROVE  OutInv'
<1> DEFINE at == Lesser(clock + LeaseSeconds, Deadline(blob[c.tok.job])) - clock
           l == [Idle EXCEPT !.pc = "renew_queue", !.ctx = c, !.job = c.tok.job, !.at = at]
<1>1. /\ UNCHANGED <<clock, blob, queue, claims, released, notified, acked, enqueued>>
      /\ Goto(p, l)
  BY DEF RenewBegin, services, observed
<1>2. l.pc = "renew_queue" /\ l.ctx = c /\ l.call # "complete"
  BY NoneAssumption DEF Idle, Calls
<1> HIDE DEF l
<1>3. HandsOK(l, p)
  BY <1>2, ClaimOf, OwningHands DEF ContextOK
<1>4. QED
  BY <1>1, <1>3, LocalKeeps

\* The receipt is rotated; every context's lease ends within a lease from now.
LEMMA RenewQueueKeeps ==
  ASSUME OutInv, Safe, NEW p \in Procs, RenewQueue(p)
  PROVE  OutInv'
<1> DEFINE k == loc[p]
           l == [k EXCEPT !.pc = "renew_read", !.at = clock]
<1>1. /\ UNCHANGED <<clock, blob, claims, released, notified, acked, enqueued>>
      /\ Goto(p, l) \/ Goto(p, Idle)
      /\ UNCHANGED queue \/ \E who, v : Update(k.ctx.msg, who, v)
  BY DEF RenewQueue, observed, Return
<1>2. /\ k \in Local /\ k.ctx.msg \in Msgs /\ IssuedTo(k.ctx.tok, p)
      /\ Refers(queue, k.ctx.msg, k.ctx.tok.job)
      /\ k.call = "complete" => Holds(blob, k.tok, k.result)
  BY CallOf, OwningOf DEF RenewQueue, Owning
<1>3. /\ l.pc = "renew_read" /\ l.at = clock /\ l.ctx = k.ctx
      /\ l.call = k.call /\ l.tok = k.tok /\ l.result = k.result
  <2> HIDE DEF k
  <2>1. QED
    BY <1>2 DEF Local
<1>4. \A c \in claims[p] : c.expires <= clock + LeaseSeconds
  BY ClaimOf DEF ContextOK
<1> HIDE DEF l
<1>5. HandsOK(l, p)
  BY <1>2, <1>3, <1>4 DEF HandsOK, DecidedInTime, TriggerInHand, RenewalExtends, OutcomeInHand,
     Triggered, Owning, Completing
<1>6. QED
  BY <1>1, <1>2, <1>5, IdleHands, QueueKeeps

\* The renewed lease ends no earlier than any context of the claim, for it is
\* counted from after the queue's reply.
LEMMA RenewReadKeeps ==
  ASSUME OutInv, Safe, NEW p \in Procs, RenewRead(p)
  PROVE  OutInv'
<1> DEFINE k == loc[p]
           b == blob[k.job]
           l(at) == [k EXCEPT !.pc = "renew_write", !.snap = b, !.fresh = TRUE, !.at = at]
<1>1. UNCHANGED <<clock, blob, queue, claims, released, notified, acked, enqueued>>
  BY DEF RenewRead, services, observed
<1>2. /\ k.pc = "renew_read" /\ k \in Local /\ IssuedTo(k.ctx.tok, p) /\ k.job = k.ctx.tok.job
      /\ k.job \in Jobs /\ Refers(queue, k.ctx.msg, k.ctx.tok.job)
      /\ k.call = "complete" => Holds(blob, k.tok, k.result)
  BY CallOf, OwningOf DEF RenewRead, Owning
<1>3. \A c \in claims[p] : c.expires <= k.at + LeaseSeconds
  BY <1>2, CallOf DEF HandsOK, RenewalExtends
<1>4. CASE Goto(p, Idle)
  BY <1>1, <1>4, IdleHands, LocalKeeps
<1>5. ASSUME NEW t \in k.at..clock, RequireClaim(k.ctx, b),
             Goto(p, l(Lesser(t + LeaseSeconds, Deadline(b))))
      PROVE  OutInv'
  <2> DEFINE at == Lesser(t + LeaseSeconds, Deadline(b))
  <2>1. b \in JobState /\ k.at \in Nat /\ clock \in Nat /\ t \in Nat /\ k.at <= t
    BY <1>2, <1>5, StateTypes DEF OutInv, Local
  <2>2. at \in Nat /\ at <= Deadline(b) /\ at <= clock + LeaseSeconds
    BY <2>1, BudgetAssumption, OptionsAssumption DEF Lesser, Deadline, JobState
  <2>3. \A c \in claims[p] : c.tok = k.ctx.tok => c.expires <= at
    <3> SUFFICES ASSUME NEW c \in claims[p], c.tok = k.ctx.tok PROVE c.expires <= at
      OBVIOUS
    <3>1. c.expires <= Deadline(b) /\ c.expires \in Nat
      BY <1>2, ClaimOf DEF ContextOK, ClaimContext
    <3>2. c.expires <= t + LeaseSeconds
      BY <1>3, <2>1, <3>1, OptionsAssumption
    <3>3. QED
      BY <3>1, <3>2 DEF Lesser
  <2> DEFINE m == l(at)
  <2>4. Goto(p, m)
    BY <1>5
  <2>5. /\ m.pc = "renew_write" /\ m.at = at /\ m.ctx = k.ctx /\ m.snap = b
        /\ m.call = k.call /\ m.tok = k.tok /\ m.result = k.result
    <3> HIDE DEF k, at
    <3>1. QED
      BY <1>2 DEF Local
  <2>6. b.terminal = None
    BY <1>5 DEF RequireClaim
  <2> HIDE DEF l, m, at
  <2>7. HandsOK(m, p)
    BY <1>2, <2>2, <2>3, <2>5, <2>6 DEF HandsOK, DecidedInTime, TriggerInHand, RenewalExtends,
       OutcomeInHand, Triggered, Owning, Completing
  <2>8. QED
    BY <1>1, <2>4, <2>7, LocalKeeps
<1>6. QED
  BY <1>4, <1>5 DEF RenewRead, Return

\* So does abandon().
LEMMA AbandonBeginKeeps ==
  ASSUME OutInv, Safe, NEW p \in Procs, NEW c \in claims[p], AbandonBegin(p, c)
  PROVE  OutInv'
<1> DEFINE l == [Idle EXCEPT !.pc = "abandon_write", !.ctx = c, !.job = c.tok.job,
                             !.snap = blob[c.tok.job], !.fresh = TRUE]
<1>1. /\ UNCHANGED <<clock, blob, queue, claims, released, notified, acked, enqueued>>
      /\ Goto(p, l)
  BY DEF AbandonBegin, services, observed
<1>2. l.pc = "abandon_write" /\ l.ctx = c /\ l.call # "complete"
  BY NoneAssumption DEF Idle, Calls
<1> HIDE DEF l
<1>3. HandsOK(l, p)
  BY <1>2, ClaimOf, OwningHands DEF ContextOK
<1>4. QED
  BY <1>1, <1>3, LocalKeeps

\* abandon() gives the message back and may drop the context.
LEMMA AbandonQueueKeeps ==
  ASSUME OutInv, Safe, NEW p \in Procs, AbandonQueue(p)
  PROVE  OutInv'
<1>1. /\ UNCHANGED <<clock, blob, released, notified, acked, enqueued>>
      /\ Goto(p, Idle)
      /\ UNCHANGED queue \/ \E who, v : Update(loc[p].ctx.msg, who, v)
      /\ UNCHANGED claims \/ claims' = [claims EXCEPT ![p] = @ \ {loc[p].ctx}]
  BY DEF AbandonQueue, observed, Return
<1>2. \A q \in Procs : claims'[q] = claims[q] \/ (q = p /\ claims'[q] \subseteq claims[q])
  BY <1>1, StateTypes DEF OutInv
<1>3. loc[p].ctx.msg \in Msgs
  BY CallOf DEF AbandonQueue, LocalsInUse, ClaimContext
<1>4. QED
  BY <1>1, <1>2, <1>3, IdleHands, QueueKeeps

\* complete() settles again only what the job was accepted with.
LEMMA CompleteBeginKeeps ==
  ASSUME OutInv, Safe, NEW p \in Procs, NEW c \in claims[p], NEW r \in Results,
         CompleteBegin(p, c, r)
  PROVE  OutInv'
<1> DEFINE l(pc) == [[Idle EXCEPT !.ctx = c, !.job = c.tok.job, !.tok = c.tok, !.result = r]
                       EXCEPT !.pc = pc]
<1>1. /\ UNCHANGED <<clock, blob, queue, claims, released, notified, acked, enqueued>>
      /\ \/ Goto(p, l("settle")) /\ Holds(blob, c.tok, r)
         \/ Goto(p, l("verify"))
  BY DEF CompleteBegin, services, observed, Holds
<1>2. \A pc : /\ l(pc).pc = pc /\ l(pc).ctx = c /\ l(pc).tok = c.tok /\ l(pc).result = r
              /\ l(pc).call # "complete"
  BY NoneAssumption DEF Idle, Calls
<1> HIDE DEF l
<1>3. HandsOK(l("verify"), p)
  BY <1>2, ClaimOf, OwningHands DEF ContextOK
<1>4. ASSUME Holds(blob, c.tok, r) PROVE HandsOK(l("settle"), p)
  BY <1>2, <1>4, ClaimOf DEF HandsOK, DecidedInTime, TriggerInHand, RenewalExtends,
     OutcomeInHand, Triggered, Owning, Completing, ContextOK
<1>5. QED
  BY <1>1, <1>3, <1>4, LocalKeeps

\* The verifier, the claim index and the last read.
LEMMA CompletingKeeps ==
  ASSUME OutInv, Safe, NEW p \in Procs, Verify(p) \/ WriteClaimIndex(p) \/ FinalRead(p)
  PROVE  OutInv'
<1> DEFINE k == loc[p]
           checked == [k EXCEPT !.pc = "index"]
           indexed == [k EXCEPT !.pc = "final_read"]
           ready == [k EXCEPT !.pc = "accept", !.snap = blob[k.job], !.fresh = TRUE]
<1>1. UNCHANGED <<clock, blob, queue, claims, released, notified, acked, enqueued>>
  BY DEF Verify, WriteClaimIndex, FinalRead, services, observed
<1>2. Goto(p, checked) \/ Goto(p, indexed) \/ Goto(p, ready) \/ Goto(p, Idle)
  BY DEF Verify, WriteClaimIndex, FinalRead, Return
<1>3. /\ k \in Local /\ IssuedTo(k.ctx.tok, p) /\ Refers(queue, k.ctx.msg, k.ctx.tok.job)
      /\ k.call = "complete" => Holds(blob, k.tok, k.result)
  BY CallOf, OwningOf DEF Verify, WriteClaimIndex, FinalRead, Owning, Completing
<1>4. ASSUME NEW l, l \in {checked, indexed, ready}
      PROVE  /\ l.pc \in {"index", "final_read", "accept"} /\ l.ctx = k.ctx
             /\ l.call = k.call /\ l.tok = k.tok /\ l.result = k.result
  <2> HIDE DEF k
  <2>1. QED
    BY <1>3, <1>4 DEF Local
<1> HIDE DEF checked, indexed, ready
<1>5. \A l \in {checked, indexed, ready} : HandsOK(l, p)
  <2> SUFFICES ASSUME NEW l, l \in {checked, indexed, ready} PROVE HandsOK(l, p)
    OBVIOUS
  <2> HIDE DEF k
  <2>1. /\ l.pc \in {"index", "final_read", "accept"} /\ l.ctx = k.ctx
        /\ l.call = k.call /\ l.tok = k.tok /\ l.result = k.result
    BY <1>4
  <2>2. l.call = "complete" => Holds(blob, l.tok, l.result)
    BY <1>3, <2>1
  <2>3. IssuedTo(l.ctx.tok, p) /\ Refers(queue, l.ctx.msg, l.ctx.tok.job)
    BY <1>3, <2>1
  <2>4. QED
    BY <2>1, <2>2, <2>3, OwningHands
<1>6. QED
  BY <1>1, <1>2, <1>5, IdleHands, LocalKeeps

\* Locals of a recovery inside a call that has its outcome.
LEMMA RecoveryHands ==
  ASSUME NEW p, NEW l, l.pc \in {"cursor", "list", "scan"},
         l.call = "complete" => Holds(blob, l.tok, l.result)
  PROVE  HandsOK(l, p)
BY DEF HandsOK, DecidedInTime, TriggerInHand, RenewalExtends, OutcomeInHand, Triggered, Owning,
       Completing

\* _settle deletes the trigger of an accepted job.
LEMMA SettleKeeps ==
  ASSUME OutInv, Safe, NEW p \in Procs, Settle(p)
  PROVE  OutInv'
<1> DEFINE k == loc[p]
           l == Recovering("complete", k.tok, k.result)
<1>1. /\ UNCHANGED <<clock, blob, released, notified, acked, enqueued>>
      /\ Goto(p, l) \/ Goto(p, Idle)
      /\ UNCHANGED queue \/ Delete(k.ctx.msg)
      /\ UNCHANGED claims \/ claims' = [claims EXCEPT ![p] = @ \ {k.ctx}]
  BY DEF Settle, observed, Return
<1>2. \A q \in Procs : claims'[q] = claims[q] \/ (q = p /\ claims'[q] \subseteq claims[q])
  BY <1>1, StateTypes DEF OutInv
<1>3. /\ k.ctx.msg \in Msgs /\ queue[k.ctx.msg].job = k.ctx.tok.job
      /\ Holds(blob, k.tok, k.result) /\ k.tok = k.ctx.tok /\ k.result \in Results
  BY CallOf, OwningOf DEF Settle, Owning, Completing, LocalsInUse, HandsOK, OutcomeInHand,
     Refers
<1>4. blob[queue[k.ctx.msg].job].accResult # None
  BY <1>3, NoneAssumption DEF Holds
<1>5. HandsOK(l, p)
  <2>1. l.pc = "cursor" /\ l.tok = k.tok /\ l.result = k.result
    BY DEF Recovering, Idle
  <2>2. QED
    BY <1>3, <2>1, RecoveryHands
<1> HIDE DEF l
<1>6. QED
  BY <1>1, <1>2, <1>3, <1>4, <1>5, IdleHands, QueueKeeps

\* A completion without context looks its job up by the token.
LEMMA CompleteRetryKeeps ==
  ASSUME OutInv, Safe, NEW p \in Procs, NEW e \in index, NEW r \in Results,
         CompleteRetry(p, e, r)
  PROVE  OutInv'
<1> DEFINE l == [Idle EXCEPT !.pc = "find", !.job = e.tok.job, !.tok = e.tok,
                             !.result = r, !.at = e.attempt]
<1>1. /\ UNCHANGED <<clock, blob, queue, claims, released, notified, acked, enqueued>>
      /\ Goto(p, l)
  BY DEF CompleteRetry, services, observed
<1>2. l.pc = "find" /\ l.job = l.tok.job /\ l.call # "complete"
  BY NoneAssumption DEF Idle, Calls
<1> HIDE DEF l
<1>3. HandsOK(l, p)
  BY <1>2 DEF HandsOK, DecidedInTime, TriggerInHand, RenewalExtends, OutcomeInHand, Triggered,
     Owning, Completing
<1>4. QED
  BY <1>1, <1>3, LocalKeeps

\* A retry that goes on has found its own result accepted under its token.
LEMMA FindAcceptedKeeps ==
  ASSUME OutInv, Safe, NEW p \in Procs, FindAccepted(p)
  PROVE  OutInv'
<1> DEFINE k == loc[p]
           l == Recovering("complete", k.tok, k.result)
<1>1. UNCHANGED <<clock, blob, queue, claims, released, notified, acked, enqueued>>
  BY DEF FindAccepted, services, observed
<1>2. k.job = k.tok.job
  BY CallOf DEF FindAccepted, HandsOK, OutcomeInHand
<1>3. Goto(p, Idle) \/ (Goto(p, l) /\ Holds(blob, k.tok, k.result))
  <2>1. \/ Goto(p, Idle)
        \/ Goto(p, l) /\ blob[k.job].accTok = k.tok /\ blob[k.job].accResult = k.result
    BY DEF FindAccepted, Return
  <2>2. ASSUME blob[k.job].accTok = k.tok, blob[k.job].accResult = k.result
        PROVE  Holds(blob, k.tok, k.result)
    <3> HIDE DEF k
    <3>1. QED
      BY <1>2, <2>2 DEF Holds
  <2>3. QED
    BY <2>1, <2>2
<1>4. ASSUME Holds(blob, k.tok, k.result) PROVE HandsOK(l, p)
  <2>1. l.pc = "cursor" /\ l.tok = k.tok /\ l.result = k.result
    BY DEF Recovering, Idle
  <2>2. QED
    BY <1>4, <2>1, RecoveryHands
<1> HIDE DEF l
<1>5. QED
  BY <1>1, <1>3, <1>4, IdleHands, LocalKeeps

-----------------------------------------------------------------------------
(* recover_notifications and the environment.                              *)

\* A recovery by itself acknowledges nothing.
LEMMA RecoverBeginKeeps ==
  ASSUME OutInv, Safe, NEW p \in Procs, RecoverBegin(p)
  PROVE  OutInv'
<1> DEFINE l == Recovering("recover", None, None)
<1>1. /\ UNCHANGED <<clock, blob, queue, claims, released, notified, acked, enqueued>>
      /\ Goto(p, l)
  BY DEF RecoverBegin, services, observed
<1>2. l.pc = "cursor" /\ l.call # "complete"
  BY DEF Recovering, Idle
<1> HIDE DEF l
<1>3. HandsOK(l, p)
  BY <1>2, RecoveryHands
<1>4. QED
  BY <1>1, <1>3, LocalKeeps

\* A call in its recovery keeps what it is to acknowledge.
LEMMA AckInHand ==
  ASSUME OutInv, NEW p \in Procs, loc[p].call = "complete"
  PROVE  Holds(blob, loc[p].tok, loc[p].result)
BY CallOf DEF HandsOK, OutcomeInHand

\* Reading the cursor keeps what is to be acknowledged.
LEMMA ReadCursorKeeps ==
  ASSUME OutInv, Safe, NEW p \in Procs, ReadCursor(p)
  PROVE  OutInv'
<1> DEFINE k == loc[p]
           l == [k EXCEPT !.pc = "list", !.next = cursor, !.cfresh = TRUE]
<1>1. /\ UNCHANGED <<clock, blob, queue, claims, released, notified, acked, enqueued>>
      /\ Goto(p, l) /\ k \in Local
  BY CallOf DEF ReadCursor, services, observed
<1>2. l.pc = "list" /\ l.call = k.call /\ l.tok = k.tok /\ l.result = k.result
  <2> HIDE DEF k
  <2>1. QED
    BY <1>1 DEF Local
<1> HIDE DEF l
<1>3. HandsOK(l, p)
  BY <1>2, AckInHand, RecoveryHands
<1>4. QED
  BY <1>1, <1>3, LocalKeeps

\* So does listing a page.
LEMMA ListPageKeeps ==
  ASSUME OutInv, Safe, NEW p \in Procs, ListPage(p)
  PROVE  OutInv'
<1> DEFINE k == loc[p]
           l(page, next) == [k EXCEPT !.pc = "scan", !.page = page, !.next = next]
<1>1. /\ UNCHANGED <<clock, blob, queue, claims, released, notified, acked, enqueued>>
      /\ k \in Local
  BY CallOf DEF ListPage, services, observed
<1>2. PICK page, next : Goto(p, l(page, next))
  BY DEF ListPage
<1>3. /\ l(page, next).pc = "scan" /\ l(page, next).call = k.call
      /\ l(page, next).tok = k.tok /\ l(page, next).result = k.result
  <2> HIDE DEF k
  <2>1. QED
    BY <1>1 DEF Local
<1> HIDE DEF l
<1>4. HandsOK(l(page, next), p)
  BY <1>3, AckInHand, RecoveryHands
<1>5. QED
  BY <1>1, <1>2, <1>4, LocalKeeps

\* So does going on to the next job of the page.
LEMMA ScannedHands ==
  ASSUME NEW p, NEW l \in Local, l.call = "complete" => Holds(blob, l.tok, l.result)
  PROVE  HandsOK(Scanned(l), p)
<1>1. /\ Scanned(l).pc = "scan" /\ Scanned(l).call = l.call /\ Scanned(l).tok = l.tok
      /\ Scanned(l).result = l.result
  BY DEF Scanned, Local
<1>2. QED
  BY <1>1, RecoveryHands

\* A job to notify is read as it is.
LEMMA ScanKeeps ==
  ASSUME OutInv, Safe, NEW p \in Procs, Scan(p)
  PROVE  OutInv'
<1> DEFINE k == loc[p]
           l(j) == [k EXCEPT !.pc = "notify", !.job = j, !.snap = blob[j], !.fresh = TRUE]
<1>1. /\ UNCHANGED <<clock, blob, queue, claims, released, notified, acked, enqueued>>
      /\ k \in Local
      /\ k.call = "complete" => Holds(blob, k.tok, k.result)
  BY CallOf, AckInHand DEF Scan, services, observed
<1>2. PICK j \in k.page : Goto(p, l(j)) \/ Goto(p, Scanned(l(j)))
  BY DEF Scan
<1>3. j \in Jobs /\ blob[j] \in JobState
  BY <1>1, StateTypes DEF Local, OutInv
<1> DEFINE m == l(j)
<1>4. /\ m \in Local /\ m.pc = "notify" /\ m.job = j /\ m.snap = blob[j]
      /\ m.call = k.call /\ m.tok = k.tok /\ m.result = k.result
  <2> HIDE DEF k
  <2>1. m \in Local
    BY <1>1, <1>3, LocalSet, StepNames
  <2>2. /\ m.pc = "notify" /\ m.job = j /\ m.snap = blob[j]
        /\ m.call = k.call /\ m.tok = k.tok /\ m.result = k.result
    BY <1>1 DEF Local
  <2>3. QED
    BY <2>1, <2>2
<1>5. Goto(p, m) \/ Goto(p, Scanned(m))
  BY <1>2
<1> HIDE DEF l, m
<1>6. HandsOK(m, p)
  BY <1>1, <1>4 DEF HandsOK, DecidedInTime, TriggerInHand, RenewalExtends, OutcomeInHand,
     Triggered, Owning, Completing
<1>7. HandsOK(Scanned(m), p)
  BY <1>1, <1>4, ScannedHands
<1>8. QED
  BY <1>1, <1>5, <1>6, <1>7, LocalKeeps

\* A notifier that raises leaves nothing in hand.
LEMMA NotifyRaisedKeeps ==
  ASSUME OutInv, Safe, NEW p \in Procs, NotifyRaised(p)
  PROVE  OutInv'
<1>1. /\ UNCHANGED <<clock, blob, queue, claims, released, notified, acked, enqueued>>
      /\ Goto(p, Scanned(loc[p]))
  BY DEF NotifyRaised, services, observed
<1>2. HandsOK(Scanned(loc[p]), p)
  BY CallOf, AckInHand, ScannedHands
<1>3. QED
  BY <1>1, <1>2, LocalKeeps

\* What is notified is the outcome read, which is still the job's.
LEMMA NotifyKeeps ==
  ASSUME OutInv, Safe, NEW p \in Procs, NEW j \in Jobs, Notify(p, j)
  PROVE  OutInv'
<1> DEFINE k == loc[p]
           n == [job |-> j, attempt |-> k.snap.accAttempt, result |-> k.snap.accResult]
           l == [k EXCEPT !.pc = "mark"]
<1>1. /\ UNCHANGED <<clock, blob, queue, claims, released, acked, enqueued>>
      /\ notified' = notified \cup {n}
      /\ Goto(p, l) \/ Goto(p, Scanned(k))
  BY DEF Notify, services
<1>2. /\ k \in Local /\ k.pc = "notify" /\ k.job = j
      /\ blob[j].accResult = k.snap.accResult /\ blob[j].accAttempt = k.snap.accAttempt
      /\ k.call = "complete" => Holds(blob, k.tok, k.result)
  BY CallOf, AckInHand DEF Notify, HandsOK, OutcomeInHand
<1>3. n.job = j /\ n.attempt = blob[j].accAttempt /\ n.result = blob[j].accResult
  BY <1>2
<1> HIDE DEF n
<1>4. /\ l.pc = "mark" /\ l.job = j /\ l.snap = k.snap
      /\ l.call = k.call /\ l.tok = k.tok /\ l.result = k.result
  <2> HIDE DEF k
  <2>1. QED
    BY <1>2 DEF Local
<1>5. \A q \in Procs \ {p} : Same(loc[q], loc'[q])
  BY <1>1, GotoOthers DEF OutInv
<1>6. CallOK(p)'
  <2>1. CASE Goto(p, l)
    <3>1. loc'[p] = l
      BY <2>1, GotoOthers DEF OutInv
    <3> HIDE DEF l
    <3>2. /\ DecidedInTime(l, clock') /\ TriggerInHand(l, blob', queue')
          /\ RenewalExtends(l, p, claims'[p]) /\ OutcomeInHand(l, blob', notified')
      BY <1>1, <1>2, <1>3, <1>4 DEF DecidedInTime, TriggerInHand, RenewalExtends,
         OutcomeInHand, Triggered, Owning, Completing
    <3>3. QED
      BY <3>1, <3>2 DEF CallOK, HandsOK
  <2>2. CASE Goto(p, Scanned(k))
    <3> DEFINE m == Scanned(k)
    <3>1. loc'[p] = m
      BY <2>2, GotoOthers DEF OutInv
    <3>2. /\ m.pc = "scan" /\ m.call = k.call /\ m.tok = k.tok /\ m.result = k.result
      <4> HIDE DEF k
      <4>1. QED
        BY <1>2 DEF Scanned, Local
    <3> HIDE DEF m
    <3>3. /\ DecidedInTime(m, clock') /\ TriggerInHand(m, blob', queue')
          /\ RenewalExtends(m, p, claims'[p]) /\ OutcomeInHand(m, blob', notified')
      BY <1>1, <1>2, <3>2 DEF DecidedInTime, TriggerInHand, RenewalExtends,
         OutcomeInHand, Triggered, Owning, Completing
    <3>4. QED
      BY <3>1, <3>3 DEF CallOK, HandsOK
  <2>3. QED
    BY <1>1, <2>1, <2>2
<1>7. NotificationsTellOutcome'
  <2>1. \A i \in notified' : blob[i.job].accAttempt = i.attempt /\ blob[i.job].accResult = i.result
    BY <1>1, <1>3 DEF OutInv, NotificationsTellOutcome
  <2>2. \A i \in Jobs : /\ blob[i].accResult # None => blob[i].pending = ~blob[i].sent
                        /\ blob[i].sent => \E m \in notified' : m.job = i
    BY <1>1, NotifiedOf
  <2>3. QED
    BY <1>1, <2>1, <2>2 DEF NotificationsTellOutcome, Accepted
<1>8. Onward => (AcksAreDurable /\ TriggerNotLost)'
  BY <1>1, AcksKept, TriggersKept
<1>9. clock \in Nat
  BY StateTypes DEF OutInv
<1>10. QED
  BY <1>1, <1>5, <1>6, <1>7, <1>8, <1>9, QuietKeeps

\* complete() returns what it holds.
LEMMA AdvanceCursorKeeps ==
  ASSUME OutInv, Safe, NEW p \in Procs, AdvanceCursor(p)
  PROVE  OutInv'
<1> DEFINE k == loc[p]
           done == IF k.call = "claim" THEN [Idle EXCEPT !.pc = "receive"] ELSE Idle
           acks == IF k.call = "complete" THEN {[tok |-> k.tok, result |-> k.result]} ELSE {}
<1>1. /\ UNCHANGED <<clock, blob, queue, claims, released, notified, enqueued>>
      /\ acked' = acked \cup acks \/ acked' = acked
  BY DEF AdvanceCursor
<1>9. PICK after \in {done, Idle} :
        \/ Goto(p, after)
        \/ loc' = [q \in Procs |-> IF q = p THEN after ELSE [loc[q] EXCEPT !.cfresh = FALSE]]
  BY DEF AdvanceCursor, MoveCursor
<1>2. after.pc \in PlainSteps /\ after.call # "complete"
  BY NoneAssumption DEF Idle, PlainSteps, Calls
<1> HIDE DEF done
<1>3. loc'[p] = after /\ \A q \in Procs \ {p} : Same(loc[q], loc'[q])
  <2>1. CASE Goto(p, after)
    BY <2>1, GotoOthers DEF OutInv
  <2>2. CASE loc' = [q \in Procs |-> IF q = p THEN after
                                     ELSE [loc[q] EXCEPT !.cfresh = FALSE]]
    BY <2>2, StateTypes DEF OutInv, Local, Same
  <2>3. QED
    BY <1>9, <2>1, <2>2
<1>4. CallOK(p)'
  <2>1. /\ DecidedInTime(after, clock') /\ TriggerInHand(after, blob', queue')
        /\ RenewalExtends(after, p, claims'[p]) /\ OutcomeInHand(after, blob', notified')
    BY <1>2 DEF DecidedInTime, TriggerInHand, RenewalExtends, OutcomeInHand, PlainSteps,
       Triggered, Owning, Completing, Enqueuing
  <2>2. QED
    BY <1>3, <2>1 DEF CallOK, HandsOK
<1>5. AcksAreDurable'
  <2> SUFFICES ASSUME NEW a \in acked'
               PROVE  blob[a.tok.job].accTok = a.tok /\ blob[a.tok.job].accResult = a.result
    BY <1>1 DEF AcksAreDurable
  <2>1. CASE a \in acked
    BY <2>1 DEF OutInv, AcksAreDurable
  <2>2. CASE a \notin acked
    <3>1. k.call = "complete" /\ a = [tok |-> k.tok, result |-> k.result]
      BY <1>1, <2>2
    <3>2. Holds(blob, k.tok, k.result)
      BY <3>1, AckInHand
    <3>3. QED
      BY <3>1, <3>2 DEF Holds
  <2>3. QED
    BY <2>1, <2>2
<1>6. Onward => (NotificationsTellOutcome /\ TriggerNotLost)'
  BY <1>1, NotifiedOf, NotificationsKept, TriggersKept
<1>7. clock \in Nat
  BY StateTypes DEF OutInv
<1>8. QED
  BY <1>1, <1>3, <1>4, <1>5, <1>6, <1>7, QuietKeeps

\* Time makes decisions no worse and lets leases end.
LEMMA TickKeeps ==
  ASSUME OutInv, Safe, Tick
  PROVE  OutInv'
<1>1. /\ UNCHANGED <<blob, claims, loc, released, notified, acked, enqueued>>
      /\ clock \in Nat /\ queue \in [Msgs -> Message]
  BY StateTypes DEF OutInv, Tick, observed
<1>2. clock <= clock'
  BY <1>1 DEF Tick
<1>3. \A m \in Msgs : queue'[m].st = queue[m].st /\ queue'[m].job = queue[m].job
  BY <1>1 DEF Tick, Message
<1>4. Onward
  BY <1>1, <1>2, <1>3 DEF Onward
<1>5. \A q \in Procs : CallOK(q)'
  BY <1>1, <1>4, CallKept DEF Same
<1>6. \A q \in Procs : \A c \in claims'[q] : ContextOK(q, c)'
  BY <1>1, <1>4, ContextKept
<1>7. AcksAreDurable' /\ NotificationsTellOutcome' /\ TriggerNotLost'
  BY <1>1, <1>3, <1>4, AcksKept, NotifiedOf, NotificationsKept, TriggersKept
<1>8. BudgetsAreKept'
  <2>1. \A j \in Jobs : blob'[j].terminal = blob[j].terminal
    BY <1>1
  <2>2. QED
    BY <1>4, <2>1, BudgetsKept, NoneAssumption DEF TerminalReasons
<1>9. LiveClaimIsCurrent'
  <2> SUFFICES ASSUME NEW q \in Procs, NEW c \in Live(q)', c.tok \notin released'
               PROVE  LET b == blob'[c.tok.job]
                      IN b.lease = c.tok /\ c.expires <= LeaseEnd(b) /\ b.terminal = None
    BY DEF LiveClaimIsCurrent, LeaseEnd, Deadline
  <2>1. c \in claims[q] /\ clock' < c.expires
    BY <1>1 DEF Live
  <2>2. QED
    BY <1>1, <1>4, <2>1, LiveKept
<1>10. QED
  BY <1>5, <1>6, <1>7, <1>8, <1>9 DEF OutInv, Safe

\* A call that raises drops what it had in hand.
LEMMA FailKeeps ==
  ASSUME OutInv, Safe, NEW p \in Procs, Fail(p)
  PROVE  OutInv'
<1>1. /\ UNCHANGED <<clock, blob, queue, claims, released, notified, acked, enqueued>>
      /\ Goto(p, Idle)
  BY DEF Fail, services, observed, Return
<1>2. QED
  BY <1>1, IdleHands, LocalKeeps

\* So does a restart, which drops the contexts too.
LEMMA CrashKeeps ==
  ASSUME OutInv, Safe, NEW p \in Procs, Crash(p)
  PROVE  OutInv'
<1>1. /\ UNCHANGED <<clock, blob, queue, released, notified, acked, enqueued>>
      /\ Goto(p, Idle) /\ claims' = [claims EXCEPT ![p] = {}]
  BY DEF Crash, services, observed, Return
<1>2. \A q \in Procs : claims'[q] = claims[q] \/ (q = p /\ claims'[q] \subseteq claims[q])
  BY <1>1, StateTypes DEF OutInv
<1>3. QED
  BY <1>1, <1>2, IdleHands, LocalKeeps

-----------------------------------------------------------------------------
(* The conditional writes.                                                 *)

\* The lease of a job the process writes belongs to every live claim of it.
LEMMA LiveOf ==
  ASSUME OutInv, NEW q \in Procs, NEW c \in claims[q], clock < c.expires,
         c.tok \notin released
  PROVE  /\ blob[c.tok.job].lease = c.tok /\ c.expires <= LeaseEnd(blob[c.tok.job])
         /\ blob[c.tok.job].terminal = None
<1>1. c \in Live(q)
  BY DEF Live
<1>2. QED
  BY <1>1 DEF OutInv, LiveClaimIsCurrent

\* A write that leaves contexts, leases and the terminal reason alone, or is
\* made when no lease of the job can be live.
LEMMA PlainKeeps ==
  ASSUME OutInv, Safe, NEW p \in Procs, NEW n \in JobState, NEW l \in Local,
         Put(p, n, l), loc[p].job \in Jobs,
         blob[loc[p].job].exists => n.started = blob[loc[p].job].started,
         UNCHANGED <<clock, queue, claims, released, notified, acked, enqueued>>,
         Onward => CallOK(p)',
         n.accResult # None => n.pending = ~n.sent,
         n.sent => \E i \in notified : i.job = loc[p].job,
         blob[loc[p].job].terminal = None =>
           /\ n.terminal = "attempt_budget_exhausted" => n.attempt = MaxAttempts
           /\ n.terminal = "wall_budget_expired" => clock >= Deadline(n),
         \/ /\ n.lease = blob[loc[p].job].lease /\ n.expires = blob[loc[p].job].expires
            /\ n.started = blob[loc[p].job].started
            /\ n.terminal = blob[loc[p].job].terminal
         \/ clock >= LeaseEnd(blob[loc[p].job])
  PROVE  OutInv'
<1> DEFINE b == blob[loc[p].job]
<1>1. ASSUME NEW q \in Procs, NEW c \in claims[q], c.tok.job = loc[p].job,
             clock < c.expires, c.tok \notin released
      PROVE  n.lease = c.tok /\ c.expires <= LeaseEnd(n) /\ n.terminal = None
  <2>1. b.lease = c.tok /\ c.expires <= LeaseEnd(b) /\ b.terminal = None
    BY <1>1, LiveOf
  <2>2. clock \in Nat /\ c.expires \in Nat /\ LeaseEnd(b) \in Nat
    BY StateTypes, ClaimOf, BudgetAssumption
       DEF OutInv, ClaimContext, LeaseEnd, Lesser, Deadline, JobState
  <2>3. ~(clock >= LeaseEnd(b))
    BY <1>1, <2>1, <2>2
  <2>4. /\ n.lease = b.lease /\ n.expires = b.expires /\ n.started = b.started
        /\ n.terminal = b.terminal
    BY <2>3
  <2>5. LeaseEnd(n) = LeaseEnd(b)
    BY <2>4 DEF LeaseEnd, Deadline
  <2>6. QED
    BY <2>1, <2>4, <2>5
<1>2. QED
  BY <1>1, WriteKeeps

\* A process that has nothing in hand after its write.
LEMMA IdleCall == \A p : loc'[p] = Idle => CallOK(p)'
<1> SUFFICES ASSUME NEW p, loc'[p] = Idle PROVE CallOK(p)'
  OBVIOUS
<1>1. /\ Idle.pc = "idle" /\ Idle.call # "complete"
  BY NoneAssumption DEF Idle, Calls
<1>2. /\ DecidedInTime(Idle, clock') /\ TriggerInHand(Idle, blob', queue')
      /\ RenewalExtends(Idle, p, claims'[p]) /\ OutcomeInHand(Idle, blob', notified')
  BY <1>1 DEF DecidedInTime, TriggerInHand, RenewalExtends, OutcomeInHand, Triggered, Owning,
     Completing
<1>3. QED
  BY <1>2 DEF CallOK, HandsOK

\* The job created is not accepted, not over and not claimed.
LEMMA EnqueueCreateKeeps ==
  ASSUME OutInv, Safe, NEW p \in Procs, EnqueueCreate(p)
  PROVE  OutInv'
<1> DEFINE j == loc[p].job
           n == [NoJob EXCEPT !.exists = TRUE, !.started = loc[p].at]
           send == [Idle EXCEPT !.pc = "enqueue_send", !.job = j]
           read == [Idle EXCEPT !.pc = "enqueue_read", !.job = j]
<1>1. j \in Jobs /\ loc[p].at \in Nat /\ IInv
  BY CallOf DEF EnqueueCreate, LocalsInUse, Enqueuing, Local
<1>2. UNCHANGED <<clock, queue, claims, released, notified, acked, enqueued>>
  BY DEF EnqueueCreate, observed
<1>3. CASE blob[j].exists
  <2>1. Goto(p, read) /\ UNCHANGED blob
    BY <1>3 DEF EnqueueCreate
  <2>2. read.pc \in PlainSteps /\ read.call # "complete"
    BY NoneAssumption DEF Idle, PlainSteps, Enqueuing, Calls
  <2> HIDE DEF read
  <2>3. QED
    BY <1>2, <2>1, <2>2, PlainHands, LocalKeeps
<1>4. CASE ~blob[j].exists
  <2>1. Put(p, n, send) \/ Put(p, n, Idle)
    BY <1>4 DEF EnqueueCreate
  <2>2. n \in JobState
    BY <1>1, NoJobType DEF JobState
  <2>3. blob[j] = NoJob
    BY <1>1, <1>4, JobsOfIInv
  <2>4. /\ n.accResult = None /\ ~n.sent /\ n.terminal = None /\ n.lease = None
    BY DEF NoJob
  <2>5. send \in Local /\ Idle \in Local
    BY <1>1, IdleType, LocalSet, StepNames
  <2>6. clock >= LeaseEnd(blob[j])
    <3>1. NoJob.expires = 0 /\ clock \in Nat
      BY <1>1, StateTypes DEF NoJob
    <3>2. NoJob.started = 0
      BY DEF NoJob
    <3>3. QED
      BY <2>3, <3>1, <3>2, BudgetAssumption DEF LeaseEnd, Lesser, Deadline
  <2>7. send.pc \in PlainSteps /\ send.call # "complete"
    BY NoneAssumption DEF Idle, PlainSteps, Enqueuing, Calls
  <2>8. CallOK(p)'
    <3>1. loc'[p] \in {send, Idle}
      BY <2>1 DEF Put
    <3>2. CASE loc'[p] = send
      <4> HIDE DEF send
      <4>1. /\ DecidedInTime(send, clock') /\ TriggerInHand(send, blob', queue')
            /\ RenewalExtends(send, p, claims'[p]) /\ OutcomeInHand(send, blob', notified')
        BY <2>7 DEF DecidedInTime, TriggerInHand, RenewalExtends, OutcomeInHand, PlainSteps,
           Triggered, Owning, Completing, Enqueuing
      <4>2. QED
        BY <3>2, <4>1 DEF CallOK, HandsOK
    <3>3. QED
      BY <3>1, <3>2, IdleCall
  <2>9. /\ n.terminal # "attempt_budget_exhausted" /\ n.terminal # "wall_budget_expired"
    BY <2>4, NoneAssumption DEF TerminalReasons
  <2> HIDE DEF n, send
  <2>10. QED
    BY <1>1, <1>2, <1>4, <2>1, <2>2, <2>4, <2>5, <2>6, <2>8, <2>9, PlainKeeps
<1>5. QED
  BY <1>3, <1>4

\* A process goes on from its write with what it had in hand.
LEMMA PutCall ==
  ASSUME OutInv, Onward, NEW p \in Procs, NEW l, loc'[p] = l, HandsOK(l, p),
         claims'[p] \subseteq claims[p]
  PROVE  CallOK(p)'
<1>1. l \in Local /\ LocalsInUse(l)
  <2>1. loc'[p] \in Local /\ LocalsInUse(loc'[p])
    BY DEF Onward, Safe, IInv, WellFormed, TypeOK
  <2>2. QED
    BY <2>1
<1>2. /\ DecidedInTime(l, clock') /\ TriggerInHand(l, blob', queue')
      /\ RenewalExtends(l, p, claims'[p]) /\ OutcomeInHand(l, blob', notified')
  BY <1>1, HandsKept
<1>3. QED
  BY <1>2 DEF CallOK, HandsOK

\* The reason is true: the budget was used up when the job was read.
LEMMA TerminateKeeps ==
  ASSUME OutInv, Safe, NEW p \in Procs, Terminate(p)
  PROVE  OutInv'
<1> DEFINE l == loc[p]
           reason == IF l.snap.attempt >= MaxAttempts THEN "attempt_budget_exhausted"
                     ELSE "wall_budget_expired"
           n == [l.snap EXCEPT !.terminal = reason]
           next == [Idle EXCEPT !.pc = "discard", !.msg = l.msg, !.job = l.job]
<1>1. /\ l.pc = "terminate" /\ DecisionOK(l, blob, index) /\ l.job \in Jobs /\ l.msg \in Msgs
      /\ Refers(queue, l.msg, l.job) /\ DecidedInTime(l, clock) /\ IInv
  BY CallOf, TriggeredOf DEF Terminate, Triggered, HandsOK
<1>2. /\ UNCHANGED <<clock, queue, claims, released, notified, acked, enqueued>>
      /\ l.snap.accResult = None /\ l.snap.terminal = None
  BY <1>1 DEF Terminate, observed, DecisionOK
<1>3. CASE ~EtagMatches(p)
  <2>1. Goto(p, Idle) /\ UNCHANGED blob
    BY <1>3 DEF Terminate, Return
  <2>2. QED
    BY <1>2, <2>1, IdleHands, LocalKeeps
<1>4. CASE EtagMatches(p)
  <2>1. Put(p, n, next) \/ Put(p, n, Idle)
    BY <1>4 DEF Terminate
  <2>2. l.snap = blob[l.job] /\ l.snap \in JobState
    BY <1>1, <1>4, SnapshotCurrent
  <2>3. n \in JobState
    BY <2>2 DEF JobState, TerminalReasons
  <2>4. /\ n.started = l.snap.started /\ n.attempt = l.snap.attempt /\ n.accResult = None
        /\ n.sent = l.snap.sent /\ n.terminal = reason
    BY <1>2, <2>2 DEF JobState
  <2>5. /\ next.pc = "discard" /\ next.msg = l.msg /\ next.job = l.job
        /\ next.call # "complete" /\ next \in Local
    <3>1. /\ next.pc = "discard" /\ next.msg = l.msg /\ next.job = l.job
          /\ next.call # "complete"
      BY NoneAssumption DEF Idle, Calls
    <3>2. next \in Local
      <4>1. l.msg \in Msgs \cup {None} /\ l.job \in Jobs \cup {None}
        BY <1>1 DEF Local
      <4> HIDE DEF l
      <4>2. QED
        BY <4>1, IdleType, LocalSet, StepNames
    <3>3. QED
      BY <3>1, <3>2
  <2>6. n.sent => \E i \in notified : i.job = l.job
    BY <1>1, <2>2, <2>4, NotifiedOf
  <2>7. clock >= LeaseEnd(blob[l.job])
    BY <1>1, <2>2 DEF DecidedInTime
  <2>8. /\ n.terminal = "attempt_budget_exhausted" => n.attempt = MaxAttempts
        /\ n.terminal = "wall_budget_expired" => clock >= Deadline(n)
    <3>1. l.snap.attempt \in Nat /\ l.snap.attempt <= MaxAttempts
      BY <1>1, <2>2, JobsOfIInv DEF LeaseOK, JobState
    <3>2. Deadline(n) = Deadline(l.snap)
      BY <2>4 DEF Deadline
    <3>3. QED
      BY <1>1, <2>4, <3>1, <3>2, BudgetAssumption DEF DecidedInTime
  <2>9. CallOK(p)'
    <3>1. CASE Put(p, n, next)
      <4>1. loc'[p] = next
        BY <3>1 DEF Put
      <4>2. blob'[l.job].terminal # None
        <5>1. blob'[l.job] = n
          BY <1>1, <3>1, StateTypes DEF Put
        <5>2. QED
          BY <2>4, <5>1, NoneAssumption DEF TerminalReasons
      <4> HIDE DEF next
      <4>3. /\ DecidedInTime(next, clock') /\ TriggerInHand(next, blob', queue')
            /\ RenewalExtends(next, p, claims'[p]) /\ OutcomeInHand(next, blob', notified')
        BY <1>1, <1>2, <2>5, <4>2 DEF DecidedInTime, TriggerInHand, RenewalExtends,
           OutcomeInHand, Triggered, Owning, Completing
      <4>4. QED
        BY <4>1, <4>3 DEF CallOK, HandsOK
    <3>2. CASE Put(p, n, Idle)
      BY <3>2, IdleCall DEF Put
    <3>3. QED
      BY <2>1, <3>1, <3>2
  <2> HIDE DEF n, next
  <2>10. QED
    BY <1>1, <1>2, <2>1, <2>2, <2>3, <2>4, <2>5, <2>6, <2>7, <2>8, <2>9, IdleType, PlainKeeps
<1>5. QED
  BY <1>3, <1>4

\* The job counts as notified, which its process has seen happen.
LEMMA MarkSentKeeps ==
  ASSUME OutInv, Safe, NEW p \in Procs, MarkSent(p)
  PROVE  OutInv'
<1> DEFINE l == loc[p]
           n == [l.snap EXCEPT !.pending = FALSE, !.sent = TRUE]
<1>1. /\ l.pc = "mark" /\ l.job \in Jobs /\ IInv /\ l \in Local
      /\ UNCHANGED <<clock, queue, claims, released, notified, acked, enqueued>>
      /\ \E i \in notified : i.job = l.job
  BY CallOf DEF MarkSent, LocalsInUse, HandsOK, OutcomeInHand, observed
<1>2. HandsOK(Scanned(l), p) /\ HandsOK(Idle, p)
  BY <1>1, AckInHand, ScannedHands, IdleHands
<1>3. CASE ~EtagMatches(p)
  <2>1. Goto(p, Scanned(l)) /\ UNCHANGED blob
    BY <1>3 DEF MarkSent
  <2>2. QED
    BY <1>1, <1>2, <2>1, LocalKeeps
<1>4. CASE EtagMatches(p)
  <2>1. Put(p, n, Scanned(l)) \/ Put(p, n, Idle)
    BY <1>4 DEF MarkSent
  <2>2. l.snap = blob[l.job] /\ l.snap \in JobState
    BY <1>1, <1>4, SnapshotCurrent
  <2>3. n \in JobState
    BY <2>2 DEF JobState
  <2>4. /\ n.started = l.snap.started /\ n.lease = l.snap.lease /\ n.expires = l.snap.expires
        /\ n.terminal = l.snap.terminal /\ n.sent = TRUE /\ n.pending = FALSE
    BY <2>2 DEF JobState
  <2>5. Scanned(l) \in Local
    BY <1>1, ScannedLocal
  <2>6. Onward => CallOK(p)'
    <3>1. loc'[p] \in {Scanned(l), Idle}
      BY <2>1 DEF Put
    <3>2. QED
      BY <1>1, <1>2, <3>1, PutCall
  <2>7. l.snap.terminal = None =>
          n.terminal # "attempt_budget_exhausted" /\ n.terminal # "wall_budget_expired"
    BY <2>4, NoneAssumption DEF TerminalReasons
  <2> HIDE DEF n
  <2>8. QED
    BY <1>1, <2>1, <2>2, <2>3, <2>4, <2>5, <2>6, <2>7, IdleType, PlainKeeps
<1>5. QED
  BY <1>3, <1>4

\* The call settles the outcome it has just written.
LEMMA AcceptKeeps ==
  ASSUME OutInv, Safe, NEW p \in Procs, Accept(p)
  PROVE  OutInv'
<1> DEFINE l == loc[p]
           n == [l.snap EXCEPT !.accGen = l.ctx.tok.gen, !.accAttempt = l.ctx.attempt,
                               !.accTok = l.tok, !.accResult = l.result,
                               !.pending = TRUE, !.sent = FALSE]
           next == [l EXCEPT !.pc = "settle", !.snap = NoJob, !.fresh = FALSE]
<1>1. /\ l.pc = "accept" /\ l.job \in Jobs /\ IInv /\ l \in Local
      /\ UNCHANGED <<clock, queue, claims, released, notified, acked, enqueued>>
      /\ l.tok = l.ctx.tok /\ l.result \in Results /\ l.ctx \in ClaimContext
      /\ l.job = l.ctx.tok.job /\ IssuedTo(l.ctx.tok, p)
      /\ Refers(queue, l.ctx.msg, l.ctx.tok.job)
  <2>1. /\ l.pc = "accept"
        /\ UNCHANGED <<clock, queue, claims, released, notified, acked, enqueued>>
    BY DEF Accept, observed
  <2>2. l.pc \in Owning /\ l.pc \in Completing
    BY <2>1 DEF Owning, Completing
  <2>3. /\ l.job \in Jobs /\ l.ctx \in ClaimContext /\ l.job = l.ctx.tok.job
        /\ IssuedTo(l.ctx.tok, p) /\ Refers(queue, l.ctx.msg, l.ctx.tok.job)
    BY <2>2, OwningOf
  <2>4. IInv /\ l \in Local /\ l.tok = l.ctx.tok /\ l.result \in Results
    <3>1. IInv /\ l \in Local /\ LocalsInUse(l)
      BY CallOf
    <3> HIDE DEF l
    <3>2. QED
      BY <2>2, <3>1 DEF LocalsInUse
  <2>5. QED
    BY <2>1, <2>3, <2>4
<1>2. CASE ~EtagMatches(p)
  <2>1. Goto(p, Idle) /\ UNCHANGED blob
    BY <1>2, Zenon DEF Accept, Return
  <2>2. QED
    BY <1>1, <2>1, IdleHands, LocalKeeps
<1>3. CASE EtagMatches(p)
  <2>1. Put(p, n, next) \/ Put(p, n, Idle)
    BY <1>3 DEF Accept
  <2>2. l.snap = blob[l.job] /\ l.snap \in JobState
    BY <1>1, <1>3, SnapshotCurrent
  <2>3. blob'[l.job] = n
    BY <1>1, <2>1, StateTypes DEF Put
  <2>4. n \in JobState
    <3>1. blob'[l.job] \in JobState
      BY <1>1 DEF Safe, IInv, WellFormed, TypeOK
    <3>2. QED
      BY <2>3, <3>1
  <2>5. /\ n.started = l.snap.started /\ n.lease = l.snap.lease /\ n.expires = l.snap.expires
        /\ n.terminal = l.snap.terminal /\ n.sent = FALSE /\ n.pending = TRUE
        /\ n.accTok = l.tok /\ n.accResult = l.result
    BY <2>2 DEF JobState
  <2>6. next \in Local /\ next.pc = "settle" /\ next.ctx = l.ctx /\ next.tok = l.tok
        /\ next.result = l.result
    <3> HIDE DEF l
    <3>1. next \in Local
      BY <1>1, NoJobType, LocalSet, StepNames
    <3>2. /\ next.pc = "settle" /\ next.ctx = l.ctx /\ next.tok = l.tok
          /\ next.result = l.result
      BY <1>1 DEF Local
    <3>3. QED
      BY <3>1, <3>2
  <2>7. CallOK(p)'
    <3>1. CASE loc'[p] = next
      <4>1. Holds(blob', next.tok, next.result)
        <5> HIDE DEF n, next, l
        <5>1. QED
          BY <1>1, <2>3, <2>5, <2>6 DEF Holds
      <4> HIDE DEF next
      <4>2. /\ DecidedInTime(next, clock') /\ TriggerInHand(next, blob', queue')
            /\ RenewalExtends(next, p, claims'[p]) /\ OutcomeInHand(next, blob', notified')
        BY <1>1, <2>6, <4>1 DEF DecidedInTime, TriggerInHand, RenewalExtends,
           OutcomeInHand, Triggered, Owning, Completing
      <4>3. QED
        BY <3>1, <4>2 DEF CallOK, HandsOK
    <3>2. loc'[p] = next \/ loc'[p] = Idle
      BY <2>1 DEF Put
    <3>3. QED
      BY <3>1, <3>2, IdleCall
  <2>8. l.snap.terminal = None =>
          n.terminal # "attempt_budget_exhausted" /\ n.terminal # "wall_budget_expired"
    BY <2>5, NoneAssumption DEF TerminalReasons
  <2> HIDE DEF n, next
  <2>9. /\ n.started = blob[l.job].started /\ n.lease = blob[l.job].lease
        /\ n.expires = blob[l.job].expires /\ n.terminal = blob[l.job].terminal
        /\ n.pending = ~n.sent /\ ~n.sent
        /\ blob[l.job].terminal = None =>
             n.terminal # "attempt_budget_exhausted" /\ n.terminal # "wall_budget_expired"
    BY <2>2, <2>5, <2>8
  <2>10. CASE Put(p, n, next)
    <3>1. next \in Local
      BY <2>6
    <3> HIDE DEF l
    <3>2. l.job \in Jobs /\ UNCHANGED <<clock, queue, claims, released, notified, acked, enqueued>>
      BY <1>1, Zenon
    <3>3. QED
      BY ONLY OutInv, Safe, p \in Procs, <2>4, <2>7, <2>9, <2>10, <3>1, <3>2, PlainKeeps DEF l
  <2>11. CASE Put(p, n, Idle)
    <3>1. l.job \in Jobs /\ UNCHANGED <<clock, queue, claims, released, notified, acked, enqueued>>
      BY <1>1, Zenon
    <3> HIDE DEF l
    <3>2. QED
      BY ONLY OutInv, Safe, p \in Procs, <2>4, <2>7, <2>9, <2>11, <3>1, IdleType, PlainKeeps
      DEF l
  <2>12. QED
    BY <2>1, <2>10, <2>11
<1>4. QED
  BY <1>2, <1>3

\* A live claim of the job excludes a new one; the new one lasts as long as
\* its context believes.
LEMMA ClaimWriteKeeps ==
  ASSUME OutInv, Safe, NEW p \in Procs, ClaimWrite(p)
  PROVE  OutInv'
<1> DEFINE l == loc[p]
           b == blob[l.job]
           tok == [proc |-> p, job |-> l.job, gen |-> l.snap.gen + 1]
           expires == Lesser(l.at + LeaseSeconds, Deadline(l.snap))
           n == [l.snap EXCEPT !.gen = @ + 1, !.attempt = @ + 1,
                               !.lease = tok, !.expires = expires]
           ctx == [tok |-> tok, attempt |-> l.snap.attempt + 1, msg |-> l.msg,
                   expires |-> expires]
<1>1. /\ l.pc = "claim_write" /\ DecisionOK(l, blob, index) /\ l.job \in Jobs /\ l.msg \in Msgs
      /\ Refers(queue, l.msg, l.job) /\ DecidedInTime(l, clock) /\ IInv /\ l.at \in Nat
      /\ clock \in Nat
  BY CallOf, TriggeredOf, StateTypes DEF ClaimWrite, Triggered, HandsOK, Local
<1>2. /\ UNCHANGED <<clock, released, notified, acked, enqueued>>
      /\ b.exists /\ l.snap.accResult = None /\ l.snap.terminal = None
  BY <1>1 DEF ClaimWrite, observed, DecisionOK, Triggered
<1>3. CASE ~EtagMatches(p)
  <2>1. Goto(p, Idle) /\ UNCHANGED <<blob, queue, claims>>
    BY <1>3 DEF ClaimWrite, Return
  <2>2. QED
    BY <1>2, <2>1, IdleHands, LocalKeeps
<1>4. CASE EtagMatches(p)
  <2>1. Put(p, n, Idle)
    BY <1>4 DEF ClaimWrite
  <2>2. l.snap = b /\ l.snap \in JobState
    BY <1>1, <1>4, SnapshotCurrent
  <2>3. blob'[l.job] = n
    BY <1>1, <2>1, StateTypes DEF Put
  <2>4. n \in JobState
    <3>1. blob'[l.job] \in JobState
      BY <1>1 DEF Safe, IInv, WellFormed, TypeOK
    <3>2. QED
      BY <2>3, <3>1
  <2>5. /\ expires \in Nat /\ Deadline(l.snap) \in Nat
        /\ expires <= Deadline(l.snap) /\ expires <= clock + LeaseSeconds
    <3>1. Deadline(l.snap) \in Nat
      BY <2>2, BudgetAssumption DEF Deadline, JobState
    <3>2. l.at <= clock
      BY <1>1 DEF DecidedInTime
    <3>3. QED
      BY <1>1, <3>1, <3>2, OptionsAssumption DEF Lesser
  <2>6. /\ IssuedTo(tok, p) /\ tok.job = l.job
        /\ ctx.tok = tok /\ ctx.msg = l.msg /\ ctx.expires = expires
    <3>1. l.snap.gen \in Nat
      BY <2>2 DEF JobState
    <3>2. QED
      BY <3>1 DEF IssuedTo
  <2> HIDE DEF tok, expires
  <2>7. /\ n.started = l.snap.started /\ n.lease = tok /\ n.expires = expires
        /\ n.terminal = None /\ n.sent = l.snap.sent /\ n.accResult = None /\ n.exists
    BY <1>2, <2>2 DEF JobState
  <2>8. /\ \A q \in Procs \ {p} : claims'[q] = claims[q]
        /\ \A c \in claims'[p] : c \in claims[p] \/ c = ctx
    <3>1. UNCHANGED claims \/ claims' = [claims EXCEPT ![p] = @ \cup {ctx}]
      BY <1>4 DEF ClaimWrite, tok, expires
    <3> HIDE DEF ctx
    <3>2. QED
      BY <1>1, <3>1, StateTypes
  <2>9. \A m \in Msgs : queue'[m].st = queue[m].st /\ queue'[m].job = queue[m].job
    <3>1. \/ UNCHANGED queue
          \/ queue' = [queue EXCEPT ![l.msg].holder = IF @ = p THEN tok ELSE @]
      BY <1>4 DEF ClaimWrite, tok
    <3>2. queue \in [Msgs -> Message]
      BY <1>1, StateTypes
    <3>3. QED
      BY <1>1, <3>1, <3>2 DEF Message
  <2> HIDE DEF n, ctx
  <2>10. Deadline(n) = Deadline(l.snap)
    BY <2>7 DEF Deadline
  <2>11. \A c : c = ctx => c.tok.job = l.job /\ ContextOK(p, c)'
    <3> SUFFICES ASSUME NEW c, c = ctx PROVE c.tok.job = l.job /\ ContextOK(p, c)'
      OBVIOUS
    <3>1. /\ IssuedTo(c.tok, p) /\ c.tok.job = l.job /\ c.msg = l.msg /\ c.expires = expires
      BY <2>6
    <3>2. blob'[l.job].exists /\ Deadline(blob'[l.job]) = Deadline(l.snap)
      BY <2>3, <2>7, <2>10
    <3>3. Refers(queue', l.msg, l.job)
      BY <1>1, <2>9 DEF Refers
    <3> HIDE DEF l
    <3>4. QED
      BY <1>2, <2>5, <3>1, <3>2, <3>3 DEF ContextOK
  <2>12. ASSUME NEW q \in Procs, NEW c \in claims'[q], c.tok.job = l.job, clock < c.expires,
                c.tok \notin released
         PROVE  n.lease = c.tok /\ c.expires <= LeaseEnd(n) /\ n.terminal = None
    <3>1. CASE c = ctx
      <4>1. LeaseEnd(n) = expires
        BY <2>5, <2>7, <2>10 DEF LeaseEnd, Lesser
      <4>2. c.tok = tok /\ c.expires = expires
        BY <2>6, <3>1
      <4>3. QED
        BY <2>5, <2>7, <4>1, <4>2
    <3>2. CASE c \in claims[q]
      <4>1. c.expires <= LeaseEnd(b)
        BY <2>12, <3>2, LiveOf
      <4>2. clock >= LeaseEnd(b)
        BY <1>1, <2>2 DEF DecidedInTime
      <4>3. c.expires \in Nat /\ LeaseEnd(b) \in Nat
        BY <2>2, <3>2, ClaimOf, BudgetAssumption
           DEF ClaimContext, LeaseEnd, Lesser, Deadline, JobState
      <4>4. QED
        BY <1>1, <2>12, <4>1, <4>2, <4>3
    <3>3. QED
      BY <2>8, <3>1, <3>2
  <2>13. n.sent => \E i \in notified : i.job = l.job
    BY <1>1, <2>2, <2>7, NotifiedOf
  <2>14. CallOK(p)'
    BY <2>1, IdleCall DEF Put
  <2>15. n.terminal # "attempt_budget_exhausted" /\ n.terminal # "wall_budget_expired"
    BY <2>7, NoneAssumption DEF TerminalReasons
  <2>16. \A c \in claims'[p] \ claims[p] : c.tok.job = l.job /\ ContextOK(p, c)'
    BY <2>8, <2>11
  <2>17. released \subseteq released' /\ \A t : t \notin released' => t \notin released
    BY <1>2
  <2>18. n.started = b.started
    BY <2>2, <2>7
  <2> HIDE DEF b
  <2>19. QED
    BY <1>1, <1>2, <2>1, <2>4, <2>7, <2>8, <2>9, <2>12, <2>13, <2>14, <2>15, <2>16, <2>17,
       <2>18, IdleType, WriteKeeps DEF b
<1>5. QED
  BY <1>3, <1>4

\* The renewed lease is the job's, and ends no context of the claim earlier.
LEMMA RenewWriteKeeps ==
  ASSUME OutInv, Safe, NEW p \in Procs, RenewWrite(p)
  PROVE  OutInv'
<1> DEFINE l == loc[p]
           b == blob[l.job]
           n == [l.snap EXCEPT !.expires = l.at]
           ctx == [l.ctx EXCEPT !.expires = l.at]
<1>1. /\ l.pc = "renew_write" /\ l.job \in Jobs /\ l.job = l.ctx.tok.job /\ IInv
      /\ l.ctx \in ClaimContext /\ IssuedTo(l.ctx.tok, p) /\ l.at \in Nat /\ clock \in Nat
      /\ Refers(queue, l.ctx.msg, l.ctx.tok.job)
      /\ l.snap.lease = l.ctx.tok /\ l.snap.terminal = None /\ l.snap.accResult = None
      /\ l.at <= Deadline(l.snap) /\ l.at <= clock + LeaseSeconds
      /\ \A c \in claims[p] : c.tok = l.ctx.tok => c.expires <= l.at
  BY CallOf, OwningOf, StateTypes DEF RenewWrite, Owning, HandsOK, RenewalExtends,
     DecidedInTime, DecisionOK, Local
<1>2. UNCHANGED <<clock, queue, released, notified, acked, enqueued>>
  BY DEF RenewWrite, observed
<1>3. CASE ~EtagMatches(p)
  <2>1. Goto(p, Idle) /\ UNCHANGED <<blob, claims>>
    BY <1>3 DEF RenewWrite, Return
  <2>2. QED
    BY <1>2, <2>1, IdleHands, LocalKeeps
<1>4. CASE EtagMatches(p)
  <2>1. Put(p, n, Idle)
    BY <1>4 DEF RenewWrite
  <2>2. l.snap = b /\ l.snap \in JobState
    BY <1>1, <1>4, SnapshotCurrent
  <2>3. blob'[l.job] = n
    BY <1>1, <2>1, StateTypes DEF Put
  <2>4. n \in JobState
    BY <1>1, <2>2, JobSet
  <2>5. /\ n.started = l.snap.started /\ n.lease = l.ctx.tok /\ n.expires = l.at
        /\ n.terminal = None /\ n.sent = l.snap.sent /\ n.pending = l.snap.pending
        /\ n.accResult = None /\ n.exists = l.snap.exists
    BY <1>1, <2>2 DEF JobState
  <2>6. ctx.tok = l.ctx.tok /\ ctx.msg = l.ctx.msg /\ ctx.expires = l.at
    <3> HIDE DEF l
    <3>1. QED
      BY <1>1 DEF ClaimContext
  <2>7. /\ \A q \in Procs \ {p} : claims'[q] = claims[q]
        /\ \A c \in claims'[p] : c \in claims[p] \/ c = ctx
    <3>1. \/ UNCHANGED claims
          \/ claims' = [claims EXCEPT ![p] = (@ \ {l.ctx}) \cup {ctx}]
      BY <1>4 DEF RenewWrite
    <3> HIDE DEF ctx, l
    <3>2. QED
      BY <1>1, <3>1, StateTypes
  <2>8. b.exists
    <3>1. b.lease # None
      BY <1>1, <2>2, NoneAssumption DEF ClaimContext
    <3>2. QED
      BY <1>1, <3>1, JobsOfIInv DEF NoJob
  <2> HIDE DEF n, ctx
  <2>9. Deadline(n) = Deadline(l.snap) /\ Deadline(l.snap) \in Nat
    BY <2>2, <2>5, BudgetAssumption DEF Deadline, JobState
  <2>10. LeaseEnd(n) = l.at
    BY <1>1, <2>5, <2>9 DEF LeaseEnd, Lesser
  <2>11. \A c : c = ctx => c.tok.job = l.job /\ ContextOK(p, c)'
    <3> SUFFICES ASSUME NEW c, c = ctx PROVE c.tok.job = l.job /\ ContextOK(p, c)'
      OBVIOUS
    <3>1. IssuedTo(c.tok, p) /\ c.tok.job = l.job /\ c.msg = l.ctx.msg /\ c.expires = l.at
      BY <1>1, <2>6
    <3>2. blob'[l.job].exists /\ Deadline(blob'[l.job]) = Deadline(l.snap)
      BY <2>2, <2>3, <2>5, <2>8, <2>9
    <3>3. Refers(queue', l.ctx.msg, l.job)
      BY <1>1, <1>2
    <3> HIDE DEF l
    <3>4. QED
      BY <1>1, <1>2, <3>1, <3>2, <3>3 DEF ContextOK
  <2>12. ASSUME NEW q \in Procs, NEW c \in claims'[q], c.tok.job = l.job, clock < c.expires,
                c.tok \notin released
         PROVE  n.lease = c.tok /\ c.expires <= LeaseEnd(n) /\ n.terminal = None
    <3>1. CASE c = ctx
      BY <1>1, <2>5, <2>6, <2>10, <3>1
    <3>2. CASE c \in claims[q]
      <4>1. c.tok = l.ctx.tok
        BY <1>1, <2>2, <2>12, <3>2, LiveOf
      <4>2. q = p
        BY <1>1, <3>2, <4>1, ClaimOf DEF ContextOK, IssuedTo
      <4>3. QED
        BY <1>1, <2>5, <2>10, <3>2, <4>1, <4>2
    <3>3. QED
      BY <2>7, <3>1, <3>2
  <2>13. n.sent => \E i \in notified : i.job = l.job
    BY <1>1, <2>2, <2>5, NotifiedOf
  <2>14. CallOK(p)'
    BY <2>1, IdleCall DEF Put
  <2>15. n.terminal # "attempt_budget_exhausted" /\ n.terminal # "wall_budget_expired"
    BY <2>5, NoneAssumption DEF TerminalReasons
  <2>16. \A c \in claims'[p] \ claims[p] : c.tok.job = l.job /\ ContextOK(p, c)'
    BY <2>7, <2>11
  <2>17. released \subseteq released' /\ \A t : t \notin released' => t \notin released
    BY <1>2
  <2>18. \A m \in Msgs : queue'[m].st = queue[m].st /\ queue'[m].job = queue[m].job
    BY <1>2
  <2>19. n.started = b.started
    BY <2>2, <2>5
  <2>20. /\ l.job \in Jobs /\ UNCHANGED <<clock, notified, acked, enqueued>>
         /\ n.accResult # None => n.pending = ~n.sent
    BY <1>1, <1>2, <2>5
  <2>21. \A q \in Procs : \A c \in claims'[q] :
           c.tok.job = l.job /\ clock < c.expires /\ c.tok \notin released' =>
             n.lease = c.tok /\ c.expires <= LeaseEnd(n) /\ n.terminal = None
    BY <2>12, <2>17
  <2> HIDE DEF b, l
  <2>22. QED
    BY ONLY OutInv, Safe, p \in Procs, <2>1, <2>4, <2>7, <2>13, <2>14, <2>15, <2>16, <2>17,
       <2>18, <2>19, <2>20, <2>21, IdleType, WriteKeeps DEF b, l
<1>5. QED
  BY <1>3, <1>4

\* The lease given up is the only one there was.
LEMMA AbandonWriteKeeps ==
  ASSUME OutInv, Safe, NEW p \in Procs, AbandonWrite(p)
  PROVE  OutInv'
<1> DEFINE l == loc[p]
           b == blob[l.job]
           n == [l.snap EXCEPT !.lease = None, !.expires = 0]
           next == [Idle EXCEPT !.pc = "abandon_queue", !.ctx = l.ctx]
<1>1. /\ l.pc = "abandon_write" /\ l.job \in Jobs /\ IInv
      /\ l.ctx \in ClaimContext /\ IssuedTo(l.ctx.tok, p)
      /\ Refers(queue, l.ctx.msg, l.ctx.tok.job)
      /\ l.snap.lease = l.ctx.tok /\ l.snap.accResult = None
  BY CallOf, OwningOf DEF AbandonWrite, Owning, DecisionOK
<1>2. UNCHANGED <<clock, queue, claims, notified, acked, enqueued>>
  BY DEF AbandonWrite
<1>3. CASE ~EtagMatches(p)
  <2>1. Goto(p, Idle) /\ UNCHANGED <<blob, released>>
    BY <1>3 DEF AbandonWrite, Return
  <2>2. QED
    BY <1>2, <2>1, IdleHands, LocalKeeps
<1>4. CASE EtagMatches(p)
  <2>1. Put(p, n, next) \/ Put(p, n, Idle)
    BY <1>4 DEF AbandonWrite
  <2>2. l.snap = b /\ l.snap \in JobState
    BY <1>1, <1>4, SnapshotCurrent
  <2>3. blob'[l.job] = n
    BY <1>1, <2>1, StateTypes DEF Put
  <2>4. n \in JobState
    <3>1. blob'[l.job] \in JobState
      BY <1>1 DEF Safe, IInv, WellFormed, TypeOK
    <3>2. QED
      BY <2>3, <3>1
  <2>5. /\ n.started = l.snap.started /\ n.terminal = l.snap.terminal /\ n.sent = l.snap.sent
        /\ n.accResult = None
    BY <1>1, <2>2 DEF JobState
  <2>6. released' = released \cup {l.ctx.tok}
    BY <1>4 DEF AbandonWrite
  <2>7. ASSUME NEW q \in Procs, NEW c \in claims'[q], c.tok.job = l.job, clock < c.expires,
               c.tok \notin released'
        PROVE  FALSE
    <3>1. c \in claims[q] /\ c.tok \notin released /\ c.tok # l.ctx.tok
      BY <1>2, <2>6, <2>7
    <3>2. b.lease = c.tok
      BY <2>7, <3>1, LiveOf
    <3>3. QED
      BY <1>1, <2>2, <3>1, <3>2
  <2>8. n.sent => \E i \in notified : i.job = l.job
    BY <1>1, <2>2, <2>5, NotifiedOf
  <2>9. /\ next.pc = "abandon_queue" /\ next.ctx = l.ctx /\ next.call # "complete"
        /\ next \in Local
    <3>1. next.pc = "abandon_queue" /\ next.ctx = l.ctx /\ next.call # "complete"
      BY NoneAssumption DEF Idle, Calls
    <3>2. next \in Local
      <4>1. Idle \in Local /\ l.ctx \in ClaimContext
        BY <1>1, IdleType
      <4> HIDE DEF l
      <4>2. QED
        BY <4>1, LocalSet, StepNames
    <3>3. QED
      BY <3>1, <3>2
  <2>10. CallOK(p)'
    <3>1. CASE loc'[p] = next
      <4> HIDE DEF next
      <4>1. /\ DecidedInTime(next, clock') /\ TriggerInHand(next, blob', queue')
            /\ RenewalExtends(next, p, claims'[p]) /\ OutcomeInHand(next, blob', notified')
        BY <1>1, <1>2, <2>9 DEF DecidedInTime, TriggerInHand, RenewalExtends,
           OutcomeInHand, Triggered, Owning, Completing
      <4>2. QED
        BY <3>1, <4>1 DEF CallOK, HandsOK
    <3>2. loc'[p] = next \/ loc'[p] = Idle
      BY <2>1 DEF Put
    <3>3. QED
      BY <3>1, <3>2, IdleCall
  <2>11. l.snap.terminal = None =>
           n.terminal # "attempt_budget_exhausted" /\ n.terminal # "wall_budget_expired"
    BY <2>5, NoneAssumption DEF TerminalReasons
  <2>12. \A m \in Msgs : queue'[m].st = queue[m].st /\ queue'[m].job = queue[m].job
    BY <1>2
  <2>13. /\ l.job \in Jobs /\ UNCHANGED <<clock, notified, acked, enqueued>>
         /\ released \subseteq released' /\ claims' = claims /\ n.started = b.started
         /\ n.accResult # None => n.pending = ~n.sent
    BY <1>1, <1>2, <2>2, <2>5, <2>6
  <2>14. b.terminal = None =>
           n.terminal # "attempt_budget_exhausted" /\ n.terminal # "wall_budget_expired"
    BY <2>2, <2>11
  <2> HIDE DEF n, next, b
  <2>15. CASE Put(p, n, next)
    <3>1. next \in Local
      BY <2>9
    <3> HIDE DEF l
    <3>2. QED
      BY ONLY OutInv, Safe, p \in Procs, <2>4, <2>7, <2>8, <2>10, <2>12, <2>13, <2>14, <2>15,
         <3>1, WriteKeeps DEF b, l
  <2>16. CASE Put(p, n, Idle)
    <3> HIDE DEF l
    <3>1. QED
      BY ONLY OutInv, Safe, p \in Procs, <2>4, <2>7, <2>8, <2>10, <2>12, <2>13, <2>14, <2>16,
         IdleType, WriteKeeps DEF b, l
  <2>17. QED
    BY <2>1, <2>15, <2>16
<1>5. QED
  BY <1>3, <1>4

-----------------------------------------------------------------------------
(* The invariant.                                                          *)

\* Every step keeps the invariant.
LEMMA NextKeeps == OutInv /\ [Next]_vars => OutInv'
<1> SUFFICES ASSUME OutInv, [Next]_vars PROVE OutInv'
  OBVIOUS
<1>1. Safe
  BY NextSafe DEF OutInv
<1>2. CASE Tick
  BY <1>1, <1>2, TickKeeps
<1>3. ASSUME NEW p \in Procs, Begin(p)
      PROVE  OutInv'
  BY <1>1, <1>3, EnqueueBeginKeeps, ClaimBeginKeeps, RenewBeginKeeps, AbandonBeginKeeps,
     CompleteBeginKeeps, CompleteRetryKeeps, RecoverBeginKeeps DEF Begin
<1>4. ASSUME NEW p \in Procs, Continue(p)
      PROVE  OutInv'
  <2>1. CASE \/ EnqueueCreate(p) \/ EnqueueRead(p) \/ EnqueueSend(p)
             \/ Receive(p) \/ ClaimRead(p) \/ Drain(p) \/ Terminate(p) \/ Discard(p)
             \/ ClaimWrite(p)
    BY <1>1, <2>1, EnqueueCreateKeeps, EnqueueReadKeeps, EnqueueSendKeeps, ReceiveKeeps,
       ClaimReadKeeps, DrainKeeps, TerminateKeeps, DiscardKeeps, ClaimWriteKeeps
  <2>2. CASE \/ RenewQueue(p) \/ RenewRead(p) \/ RenewWrite(p)
             \/ AbandonWrite(p) \/ AbandonQueue(p)
    BY <1>1, <2>2, RenewQueueKeeps, RenewReadKeeps, RenewWriteKeeps, AbandonWriteKeeps,
       AbandonQueueKeeps
  <2>3. CASE \/ Verify(p) \/ WriteClaimIndex(p) \/ FinalRead(p) \/ Accept(p) \/ Settle(p)
             \/ FindAccepted(p)
    BY <1>1, <2>3, CompletingKeeps, AcceptKeeps, SettleKeeps, FindAcceptedKeeps
  <2>4. CASE \/ ReadCursor(p) \/ ListPage(p) \/ Scan(p) \/ NotifyRaised(p)
             \/ (\E j \in Jobs : Notify(p, j)) \/ MarkSent(p) \/ AdvanceCursor(p)
    BY <1>1, <2>4, ReadCursorKeeps, ListPageKeeps, ScanKeeps, NotifyRaisedKeeps, NotifyKeeps,
       MarkSentKeeps, AdvanceCursorKeeps
  <2>5. QED
    BY <1>4, <2>1, <2>2, <2>3, <2>4 DEF Continue
<1>5. ASSUME NEW p \in Procs, Fail(p) \/ Crash(p)
      PROVE  OutInv'
  BY <1>1, <1>5, FailKeeps, CrashKeeps
<1>6. CASE UNCHANGED vars
  <2>1. UNCHANGED <<clock, blob, queue, claims, loc, released, notified, acked, enqueued>>
    BY <1>6 DEF vars, services, observed
  <2>2. clock \in Nat
    BY StateTypes DEF OutInv
  <2>3. Onward
    BY <1>1, <2>1, <2>2 DEF Onward
  <2>4. \A q \in Procs : CallOK(q)'
    BY <2>1, <2>3, CallKept DEF Same
  <2>5. \A q \in Procs : \A c \in claims'[q] : ContextOK(q, c)'
    BY <2>1, <2>3, ContextKept
  <2>6. AcksAreDurable' /\ NotificationsTellOutcome' /\ TriggerNotLost'
    BY <2>1, <2>3, AcksKept, NotifiedOf, NotificationsKept, TriggersKept
  <2>7. BudgetsAreKept'
    BY <2>1 DEF OutInv, BudgetsAreKept, Deadline
  <2>8. LiveClaimIsCurrent'
    BY <2>1 DEF OutInv, LiveClaimIsCurrent, Live, LeaseEnd, Deadline
  <2>9. QED
    BY <1>1, <2>4, <2>5, <2>6, <2>7, <2>8 DEF OutInv, Safe
<1>7. QED
  BY <1>2, <1>3, <1>4, <1>5, <1>6 DEF Next

\* It holds at first.
LEMMA InitKeeps == Init => OutInv
<1> SUFFICES ASSUME Init PROVE OutInv
  OBVIOUS
<1>1. IInv
  BY InitSafe
<1>2. \A p \in Procs : CallOK(p)
  BY IdleHands DEF Init, CallOK
<1>3. \A p \in Procs : claims[p] = {}
  BY DEF Init
<1>4. AcksAreDurable /\ TriggerNotLost
  BY DEF Init, AcksAreDurable, TriggerNotLost
<1>5. NotificationsTellOutcome
  <2>1. \A j \in Jobs : blob[j].accResult = None /\ blob[j].sent = FALSE
    BY DEF Init, NoJob
  <2>2. notified = {}
    BY DEF Init
  <2>3. QED
    BY <2>1, <2>2 DEF NotificationsTellOutcome, Accepted
<1>6. BudgetsAreKept
  <2>1. \A j \in Jobs : blob[j].terminal = None /\ blob[j].attempt = 0 /\ blob[j].gen = 0
    BY DEF Init, NoJob
  <2>2. QED
    BY <2>1, BudgetAssumption, NoneAssumption DEF BudgetsAreKept, TerminalReasons
<1>7. LiveClaimIsCurrent
  BY <1>3 DEF LiveClaimIsCurrent, Live
<1>8. QED
  BY <1>1, <1>2, <1>3, <1>4, <1>5, <1>6, <1>7 DEF OutInv

\* OutInv holds in every state.
THEOREM OutcomesInvariant == Spec => []OutInv
<1>1. QED
  BY InitKeeps, NextKeeps, PTL DEF Spec

\* What complete() returned to a worker is durably the job's result, accepted
\* under that worker's own token (complete, _settle, _find_accepted_claim).
THEOREM AcksSafe == Spec => []AcksAreDurable
<1>1. OutInv => AcksAreDurable
  BY DEF OutInv
<1>2. QED
  BY <1>1, OutcomesInvariant, PTL

\* Notifications tell the accepted result, and only a delivered one counts as
\* sent, although the notifier is called between a read and a conditional
\* write (recover_notifications).
THEOREM NotificationsSafe == Spec => []NotificationsTellOutcome
<1>1. OutInv => NotificationsTellOutcome
  BY DEF OutInv
<1>2. QED
  BY <1>1, OutcomesInvariant, PTL

\* A process that believes in an unreleased lease is right: two workers never
\* hold the same job at once, for any number of processes, jobs, faults and
\* restarts (claim, renew, abandon).
THEOREM LiveClaimSafe == Spec => []LiveClaimIsCurrent
<1>1. OutInv => LiveClaimIsCurrent
  BY DEF OutInv
<1>2. QED
  BY <1>1, OutcomesInvariant, PTL

\* No more attempts than the contract allows, and a terminal reason names the
\* budget that is really used up (_claim_message).
THEOREM BudgetsSafe == Spec => []BudgetsAreKept
<1>1. OutInv => BudgetsAreKept
  BY DEF OutInv
<1>2. QED
  BY <1>1, OutcomesInvariant, PTL

\* An enqueued job that is not over has a trigger in the queue, whoever
\* deletes what meanwhile (enqueue, _claim_message, _settle).
THEOREM TriggersSafe == Spec => []TriggerNotLost
<1>1. OutInv => TriggerNotLost
  BY DEF OutInv
<1>2. QED
  BY <1>1, OutcomesInvariant, PTL

-----------------------------------------------------------------------------
(* FlashStorage implements FlashJob.                                       *)

\* What job state b looks like from outside.
StatusOf(b) == IF ~b.exists THEN "absent" ELSE IF b.accResult # None THEN "accepted"
               ELSE IF b.terminal # None THEN "exhausted" ELSE "open"

\* The other variables of FlashJob.
jobAttempts == [j \in Jobs |-> blob[j].attempt]
jobResults == [j \in Jobs |-> blob[j].accResult]
jobsTold == {n.job : n \in notified}
jobsAnswered == {<<a.tok.job, a.result>> : a \in acked}

\* A step of process p is one of a job, or none.
OneStep == Abstract!JobNext \/ UNCHANGED Abstract!jobVars

\* The status of each job is that of its blob.
LEMMA StatusOfJob == jobStatus = [j \in Jobs |-> StatusOf(blob[j])]
BY DEF jobStatus, StatusOf, Accepted, Terminal

\* Locals, claims, messages and the index are not seen from outside.
LEMMA Stutters ==
  ASSUME UNCHANGED <<blob, notified, acked>>
  PROVE  OneStep
BY DEF OneStep, Abstract!jobVars, jobStatus, Accepted, Terminal

\* A conditional write of one job, seen from outside.
LEMMA OutsideWrite ==
  ASSUME IInv, NEW p \in Procs, NEW n, NEW l, Put(p, n, l), NEW j \in Jobs, j = loc[p].job
  PROVE  /\ jobStatus' = [jobStatus EXCEPT ![j] = StatusOf(n)]
         /\ jobAttempts' = [jobAttempts EXCEPT ![j] = n.attempt]
         /\ jobResults' = [jobResults EXCEPT ![j] = n.accResult]
<1>1. \A i \in Jobs : blob'[i] = IF i = j THEN n ELSE blob[i]
  BY StateTypes DEF Put
<1>2. jobStatus' = [i \in Jobs |-> StatusOf(blob'[i])]
  BY DEF jobStatus, StatusOf, Accepted, Terminal
<1>3. jobStatus' = [jobStatus EXCEPT ![j] = StatusOf(n)]
  BY <1>1, <1>2, StatusOfJob
<1>4. QED
  BY <1>1, <1>3 DEF jobAttempts, jobResults

\* A write that leaves what the outside sees of the job as it was.
LEMMA QuietWrite ==
  ASSUME IInv, NEW p \in Procs, NEW n, NEW l, Put(p, n, l), NEW j \in Jobs, j = loc[p].job,
         UNCHANGED <<notified, acked>>,
         StatusOf(n) = StatusOf(blob[j]), n.attempt = blob[j].attempt,
         n.accResult = blob[j].accResult
  PROVE  OneStep
<1>1. /\ jobStatus' = [jobStatus EXCEPT ![j] = StatusOf(n)]
      /\ jobAttempts' = [jobAttempts EXCEPT ![j] = n.attempt]
      /\ jobResults' = [jobResults EXCEPT ![j] = n.accResult]
  BY OutsideWrite
<1>2. UNCHANGED <<jobStatus, jobAttempts, jobResults>>
  BY <1>1, StatusOfJob DEF jobAttempts, jobResults
<1>3. UNCHANGED <<jobsTold, jobsAnswered>>
  BY DEF jobsTold, jobsAnswered
<1>4. QED
  BY <1>2, <1>3 DEF OneStep, Abstract!jobVars, jobAttempts, jobResults, jobsTold, jobsAnswered

\* A write that opens, attempts, accepts or exhausts its job.
LEMMA JobWrite ==
  ASSUME IInv, NEW p \in Procs, NEW n, NEW l, Put(p, n, l), NEW j \in Jobs, j = loc[p].job,
         UNCHANGED <<notified, acked>>,
         \/ /\ StatusOf(blob[j]) = "absent" /\ StatusOf(n) = "open"
            /\ n.attempt = blob[j].attempt /\ n.accResult = blob[j].accResult
         \/ /\ StatusOf(blob[j]) = "open" /\ StatusOf(n) = "open"
            /\ blob[j].attempt < MaxAttempts /\ n.attempt = blob[j].attempt + 1
            /\ n.accResult = blob[j].accResult
         \/ /\ StatusOf(blob[j]) = "open" /\ StatusOf(n) = "accepted"
            /\ blob[j].attempt > 0 /\ n.attempt = blob[j].attempt /\ n.accResult \in Good
         \/ /\ StatusOf(blob[j]) = "open" /\ StatusOf(n) = "exhausted"
            /\ n.attempt = blob[j].attempt /\ n.accResult = blob[j].accResult
  PROVE  OneStep
<1>1. /\ jobStatus' = [jobStatus EXCEPT ![j] = StatusOf(n)]
      /\ jobAttempts' = [jobAttempts EXCEPT ![j] = n.attempt]
      /\ jobResults' = [jobResults EXCEPT ![j] = n.accResult]
  BY OutsideWrite
<1>2. UNCHANGED <<jobsTold, jobsAnswered>>
  BY DEF jobsTold, jobsAnswered
<1>3. /\ jobStatus[j] = StatusOf(blob[j]) /\ jobAttempts[j] = blob[j].attempt
      /\ jobResults[j] = blob[j].accResult
  BY StatusOfJob DEF jobAttempts, jobResults
<1>4. /\ n.attempt = blob[j].attempt => UNCHANGED jobAttempts
      /\ n.accResult = blob[j].accResult => UNCHANGED jobResults
      /\ StatusOf(n) = StatusOf(blob[j]) => UNCHANGED jobStatus
  <2>1. n.attempt = blob[j].attempt => UNCHANGED jobAttempts
    BY <1>1 DEF jobAttempts
  <2>2. n.accResult = blob[j].accResult => UNCHANGED jobResults
    BY <1>1 DEF jobResults
  <2>3. StatusOf(n) = StatusOf(blob[j]) => UNCHANGED jobStatus
    BY <1>1, StatusOfJob
  <2>4. QED
    BY <2>1, <2>2, <2>3
<1>5. Abstract!JobStep(j)
  <2>1. CASE StatusOf(blob[j]) = "absent"
    <3>1. StatusOf(n) = "open" /\ UNCHANGED <<jobAttempts, jobResults>>
      BY <1>4, <2>1
    <3>2. QED
      BY <1>1, <1>2, <1>3, <2>1, <3>1
         DEF Abstract!JobStep, Abstract!Publish, jobAttempts, jobResults, jobsTold, jobsAnswered
  <2>2. CASE StatusOf(blob[j]) = "open" /\ StatusOf(n) = "open"
    <3>1. /\ jobAttempts' = [jobAttempts EXCEPT ![j] = @ + 1] /\ jobAttempts[j] < MaxAttempts
          /\ UNCHANGED <<jobStatus, jobResults>>
      BY <1>1, <1>3, <1>4, <2>2
    <3>2. QED
      BY <1>2, <1>3, <2>2, <3>1
         DEF Abstract!JobStep, Abstract!StartAttempt, jobAttempts, jobResults, jobsTold,
             jobsAnswered
  <2>3. CASE StatusOf(blob[j]) = "open" /\ StatusOf(n) = "accepted"
    <3>1. n.accResult \in Good /\ UNCHANGED jobAttempts /\ jobAttempts[j] > 0
      BY <1>3, <1>4, <2>3
    <3>2. QED
      BY <1>1, <1>2, <1>3, <2>3, <3>1
         DEF Abstract!JobStep, Abstract!AcceptResult, jobAttempts, jobResults, jobsTold,
             jobsAnswered
  <2>4. CASE StatusOf(blob[j]) = "open" /\ StatusOf(n) = "exhausted"
    <3>1. UNCHANGED <<jobAttempts, jobResults>>
      BY <1>4, <2>4
    <3>2. QED
      BY <1>1, <1>2, <1>3, <2>4, <3>1
         DEF Abstract!JobStep, Abstract!Exhaust, jobAttempts, jobResults, jobsTold, jobsAnswered
  <2>5. QED
    BY <2>1, <2>2, <2>3, <2>4
<1>6. QED
  BY <1>5 DEF OneStep, Abstract!JobNext

\* enqueue()'s create-only write publishes the job.
LEMMA CreateIsStep ==
  ASSUME OutInv, NEW p \in Procs, EnqueueCreate(p)
  PROVE  OneStep
<1> DEFINE j == loc[p].job
           n == [NoJob EXCEPT !.exists = TRUE, !.started = loc[p].at]
<1>1. j \in Jobs /\ IInv /\ UNCHANGED <<notified, acked>>
  BY CallOf DEF EnqueueCreate, LocalsInUse, Enqueuing, observed
<1>2. CASE blob[j].exists
  BY <1>1, <1>2, Stutters DEF EnqueueCreate
<1>3. CASE ~blob[j].exists
  <2>1. PICK l : Put(p, n, l)
    BY <1>3 DEF EnqueueCreate
  <2>2. blob[j] = NoJob
    BY <1>1, <1>3, JobsOfIInv
  <2>3. /\ n.exists /\ n.accResult = NoJob.accResult /\ n.attempt = NoJob.attempt
        /\ NoJob.accResult = None /\ n.terminal = None
    BY DEF NoJob
  <2> HIDE DEF n
  <2>4. StatusOf(blob[j]) = "absent" /\ StatusOf(n) = "open"
    BY <1>3, <2>3 DEF StatusOf
  <2>5. QED
    BY <1>1, <2>1, <2>2, <2>3, <2>4, JobWrite
<1>4. QED
  BY <1>2, <1>3

\* claim()'s conditional write starts an attempt.
LEMMA ClaimIsStep ==
  ASSUME OutInv, NEW p \in Procs, ClaimWrite(p)
  PROVE  OneStep
<1> DEFINE l == loc[p]
           tok == [proc |-> p, job |-> l.job, gen |-> l.snap.gen + 1]
           expires == Lesser(l.at + LeaseSeconds, Deadline(l.snap))
           n == [l.snap EXCEPT !.gen = @ + 1, !.attempt = @ + 1,
                               !.lease = tok, !.expires = expires]
<1>1. /\ l.pc = "claim_write" /\ l.job \in Jobs /\ IInv /\ UNCHANGED <<notified, acked>>
      /\ l.snap.accResult = None /\ l.snap.terminal = None /\ l.snap.attempt < MaxAttempts
      /\ blob[l.job].exists
  BY CallOf, TriggeredOf DEF ClaimWrite, Triggered, DecisionOK, observed
<1>2. CASE ~EtagMatches(p)
  BY <1>1, <1>2, Stutters DEF ClaimWrite
<1>3. CASE EtagMatches(p)
  <2>1. Put(p, n, Idle)
    BY <1>3 DEF ClaimWrite
  <2>2. l.snap = blob[l.job] /\ l.snap \in JobState
    BY <1>1, <1>3, SnapshotCurrent
  <2> HIDE DEF tok, expires
  <2>3. /\ n.exists = l.snap.exists /\ n.accResult = l.snap.accResult
        /\ n.terminal = l.snap.terminal /\ n.attempt = l.snap.attempt + 1
    BY <2>2 DEF JobState
  <2> HIDE DEF n
  <2>4. StatusOf(blob[l.job]) = "open" /\ StatusOf(n) = "open"
    BY <1>1, <2>2, <2>3 DEF StatusOf
  <2>5. QED
    BY <1>1, <2>1, <2>2, <2>3, <2>4, JobWrite
<1>4. QED
  BY <1>2, <1>3

\* The terminal record exhausts the job.
LEMMA TerminateIsStep ==
  ASSUME OutInv, NEW p \in Procs, Terminate(p)
  PROVE  OneStep
<1> DEFINE l == loc[p]
           reason == IF l.snap.attempt >= MaxAttempts THEN "attempt_budget_exhausted"
                     ELSE "wall_budget_expired"
           n == [l.snap EXCEPT !.terminal = reason]
<1>1. /\ l.pc = "terminate" /\ l.job \in Jobs /\ IInv /\ UNCHANGED <<notified, acked>>
      /\ l.snap.accResult = None /\ l.snap.terminal = None /\ blob[l.job].exists
  BY CallOf, TriggeredOf DEF Terminate, Triggered, DecisionOK, observed
<1>2. CASE ~EtagMatches(p)
  BY <1>1, <1>2, Stutters DEF Terminate
<1>3. CASE EtagMatches(p)
  <2>1. PICK k : Put(p, n, k)
    BY <1>3 DEF Terminate
  <2>2. l.snap = blob[l.job] /\ l.snap \in JobState
    BY <1>1, <1>3, SnapshotCurrent
  <2>3. reason # None
    BY NoneAssumption DEF TerminalReasons
  <2> HIDE DEF reason
  <2>4. /\ n.exists = l.snap.exists /\ n.accResult = l.snap.accResult
        /\ n.terminal = reason /\ n.attempt = l.snap.attempt
    BY <2>2 DEF JobState
  <2> HIDE DEF n
  <2>5. StatusOf(blob[l.job]) = "open" /\ StatusOf(n) = "exhausted"
    BY <1>1, <2>2, <2>3, <2>4 DEF StatusOf
  <2>6. QED
    BY <1>1, <2>1, <2>2, <2>4, <2>5, JobWrite
<1>4. QED
  BY <1>2, <1>3

\* complete()'s conditional write accepts a good result of an attempt.
LEMMA AcceptIsStep ==
  ASSUME OutInv, NEW p \in Procs, Accept(p)
  PROVE  OneStep
<1> DEFINE l == loc[p]
           n == [l.snap EXCEPT !.accGen = l.ctx.tok.gen, !.accAttempt = l.ctx.attempt,
                               !.accTok = l.tok, !.accResult = l.result,
                               !.pending = TRUE, !.sent = FALSE]
<1>1. /\ l.pc = "accept" /\ l.job \in Jobs /\ IInv /\ UNCHANGED <<notified, acked>>
      /\ IssuedTo(l.ctx.tok, p)
  BY CallOf, OwningOf DEF Accept, Owning, Completing, observed
<1>2. /\ l.snap.accResult = None /\ l.snap.terminal = None /\ l.snap.lease = l.ctx.tok
      /\ l.result \in Good /\ l.snap.gen = l.ctx.tok.gen /\ l.ctx \in ClaimContext
  BY <1>1, CallOf DEF DecisionOK, LocalsInUse, Owning, Completing
<1>3. CASE ~EtagMatches(p)
  BY <1>1, <1>3, Stutters DEF Accept
<1>4. CASE EtagMatches(p)
  <2>1. PICK k : Put(p, n, k)
    BY <1>4 DEF Accept
  <2>2. l.snap = blob[l.job] /\ l.snap \in JobState
    BY <1>1, <1>4, SnapshotCurrent
  <2>3. l.snap.exists
    <3>1. l.ctx.tok # None
      BY <1>2, NoneAssumption DEF ClaimContext
    <3>2. NoJob.lease = None
      BY DEF NoJob
    <3>3. QED
      BY <1>1, <1>2, <2>2, <3>1, <3>2, JobsOfIInv
  <2>4. l.snap.attempt > 0
    BY <1>1, <1>2, <2>2, JobsOfIInv DEF LeaseOK, IssuedTo
  <2>5. /\ n.exists = l.snap.exists /\ n.accResult = l.result
        /\ n.terminal = l.snap.terminal /\ n.attempt = l.snap.attempt
    BY <2>2 DEF JobState
  <2>6. l.result # None
    BY <1>2, ResultsAssumption, NoneAssumption
  <2> HIDE DEF n
  <2>7. StatusOf(blob[l.job]) = "open" /\ StatusOf(n) = "accepted"
    BY <1>2, <2>2, <2>3, <2>5, <2>6 DEF StatusOf
  <2>8. QED
    BY <1>1, <1>2, <2>1, <2>2, <2>4, <2>5, <2>7, JobWrite
<1>5. QED
  BY <1>3, <1>4

\* Renewing, abandoning and marking write what the outside does not see.
LEMMA LeaseWritesAreQuiet ==
  ASSUME OutInv, NEW p \in Procs, RenewWrite(p) \/ AbandonWrite(p) \/ MarkSent(p)
  PROVE  OneStep
<1> DEFINE l == loc[p]
<1>1. l.job \in Jobs /\ IInv /\ UNCHANGED <<notified, acked>>
  BY CallOf DEF RenewWrite, AbandonWrite, MarkSent, LocalsInUse, Owning, observed
<1>2. CASE ~EtagMatches(p)
  BY <1>1, <1>2, Stutters DEF RenewWrite, AbandonWrite, MarkSent
<1>3. CASE EtagMatches(p)
  <2>1. l.snap = blob[l.job] /\ l.snap \in JobState
    BY <1>1, <1>3, SnapshotCurrent
  <2>2. PICK n, k : /\ Put(p, n, k)
                    /\ \/ n = [l.snap EXCEPT !.expires = l.at]
                       \/ n = [l.snap EXCEPT !.lease = None, !.expires = 0]
                       \/ n = [l.snap EXCEPT !.pending = FALSE, !.sent = TRUE]
    BY <1>3 DEF RenewWrite, AbandonWrite, MarkSent
  <2>3. /\ n.exists = l.snap.exists /\ n.accResult = l.snap.accResult
        /\ n.terminal = l.snap.terminal /\ n.attempt = l.snap.attempt
    BY <2>1, <2>2 DEF JobState
  <2>4. StatusOf(n) = StatusOf(blob[l.job])
    BY <2>1, <2>3 DEF StatusOf
  <2>5. QED
    BY <1>1, <2>1, <2>2, <2>3, <2>4, QuietWrite
<1>4. QED
  BY <1>2, <1>3

\* A delivered notification tells the outcome of an accepted job.
LEMMA NotifyIsStep ==
  ASSUME OutInv, NEW p \in Procs, NEW j \in Jobs, Notify(p, j)
  PROVE  OneStep
<1> DEFINE l == loc[p]
           n == [job |-> j, attempt |-> l.snap.accAttempt, result |-> l.snap.accResult]
<1>1. UNCHANGED <<blob, acked>> /\ notified' = notified \cup {n} /\ n.job = j
  BY DEF Notify, services
<1>2. blob[j].accResult # None /\ IInv
  BY CallOf DEF Notify, LocalsInUse, HandsOK, OutcomeInHand
<1>3. blob[j].exists
  <2>1. NoJob.accResult = None
    BY DEF NoJob
  <2>2. QED
    BY <1>2, <2>1, JobsOfIInv
<1> HIDE DEF n
<1>4. jobsTold' = jobsTold \cup {j}
  BY <1>1 DEF jobsTold
<1>5. jobStatus[j] = "accepted"
  BY <1>2, <1>3, StatusOfJob DEF StatusOf
<1>6. UNCHANGED <<jobStatus, jobAttempts, jobResults, jobsAnswered>>
  BY <1>1 DEF jobStatus, jobAttempts, jobResults, jobsAnswered, Accepted, Terminal
<1>7. Abstract!Tell(j)
  BY <1>4, <1>5, <1>6 DEF Abstract!Tell, jobAttempts, jobResults, jobsAnswered, jobsTold
<1>8. QED
  BY <1>7 DEF OneStep, Abstract!JobNext, Abstract!JobStep

\* A completion that returns answers the outcome of an accepted job.
LEMMA AckIsStep ==
  ASSUME OutInv, NEW p \in Procs, AdvanceCursor(p)
  PROVE  OneStep
<1> DEFINE l == loc[p]
           a == [tok |-> l.tok, result |-> l.result]
<1>1. UNCHANGED <<blob, notified>>
  BY DEF AdvanceCursor
<1>2. CASE UNCHANGED acked
  BY <1>1, <1>2, Stutters
<1>3. CASE acked' # acked
  <2>12. l.call = "complete"
    BY <1>3 DEF AdvanceCursor
  <2>1. PICK j \in Jobs : j = l.tok.job
    BY <2>12, CallOf DEF LocalsInUse, Token
  <2>2. /\ acked' = acked \cup {a} /\ a.tok = l.tok /\ a.result = l.result
    BY <1>3, <2>12 DEF AdvanceCursor
  <2>3. l.result \in Results /\ blob[j].accResult = l.result /\ IInv
    BY <2>12, <2>1, CallOf, AckInHand DEF LocalsInUse, Token, Holds
  <2>4. blob[j].accResult # None
    BY <2>3, NoneAssumption
  <2>5. blob[j].exists
    <3>1. NoJob.accResult = None
      BY DEF NoJob
    <3>2. QED
      BY <2>3, <2>4, <3>1, JobsOfIInv
  <2> HIDE DEF a
  <2>6. jobsAnswered' = jobsAnswered \cup {<<j, l.result>>}
    BY <2>1, <2>2 DEF jobsAnswered
  <2>7. jobStatus[j] = "accepted" /\ jobResults[j] = l.result
    BY <2>3, <2>4, <2>5, StatusOfJob DEF StatusOf, jobResults
  <2>8. UNCHANGED <<jobStatus, jobAttempts, jobResults, jobsTold>>
    BY <1>1 DEF jobStatus, jobAttempts, jobResults, jobsTold, Accepted, Terminal
  <2>9. /\ jobsAnswered' = jobsAnswered \cup {<<j, jobResults[j]>>} /\ jobStatus[j] = "accepted"
        /\ UNCHANGED <<jobStatus, jobAttempts, jobResults, jobsTold>>
    BY <2>6, <2>7, <2>8
  <2>10. Abstract!Answer(j)
    BY <2>9, Zenon DEF Abstract!Answer, jobAttempts, jobResults, jobsAnswered, jobsTold
  <2>11. QED
    BY <2>10 DEF OneStep, Abstract!JobNext, Abstract!JobStep
<1>4. QED
  BY <1>2, <1>3

\* The calls that begin, and processes that fail or restart, are not seen from
\* outside.
LEMMA BeginsUnseen ==
  ASSUME NEW p \in Procs, Begin(p) \/ Fail(p) \/ Crash(p)
  PROVE  UNCHANGED <<blob, notified, acked>>
<1>1. CASE \E j \in Jobs : EnqueueBegin(p, j)
  BY <1>1 DEF EnqueueBegin, services, observed
<1>2. CASE ClaimBegin(p)
  BY <1>2 DEF ClaimBegin, services, observed
<1>3. CASE \E c \in claims[p] : RenewBegin(p, c)
  BY <1>3 DEF RenewBegin, services, observed
<1>4. CASE \E c \in claims[p] : AbandonBegin(p, c)
  BY <1>4 DEF AbandonBegin, services, observed
<1>5. CASE \E c \in claims[p], r \in Results : CompleteBegin(p, c, r)
  BY <1>5 DEF CompleteBegin, services, observed
<1>6. CASE \E e \in index, r \in Results : CompleteRetry(p, e, r)
  BY <1>6 DEF CompleteRetry, services, observed
<1>7. CASE RecoverBegin(p)
  BY <1>7 DEF RecoverBegin, services, observed
<1>8. CASE Fail(p)
  BY <1>8 DEF Fail, services, observed
<1>9. CASE Crash(p)
  BY <1>9 DEF Crash, services, observed
<1>10. QED
  BY <1>1, <1>2, <1>3, <1>4, <1>5, <1>6, <1>7, <1>8, <1>9 DEF Begin

\* Nor are a call's reads, its messages, and its writes of claims and cursor.
Unseen(p) ==
  \/ EnqueueRead(p) \/ EnqueueSend(p) \/ Receive(p) \/ ClaimRead(p) \/ Drain(p) \/ Discard(p)
  \/ RenewQueue(p) \/ RenewRead(p) \/ AbandonQueue(p)
  \/ Verify(p) \/ WriteClaimIndex(p) \/ FinalRead(p) \/ Settle(p) \/ FindAccepted(p)
  \/ ReadCursor(p) \/ ListPage(p) \/ Scan(p) \/ NotifyRaised(p)

LEMMA CallsUnseen ==
  ASSUME NEW p \in Procs, Unseen(p)
  PROVE  UNCHANGED <<blob, notified, acked>>
<1>1. CASE EnqueueRead(p)
  BY <1>1 DEF EnqueueRead, services, observed
<1>2. CASE EnqueueSend(p)
  BY <1>2 DEF EnqueueSend, services, observed
<1>3. CASE Receive(p)
  BY <1>3 DEF Receive, services, observed
<1>4. CASE ClaimRead(p)
  BY <1>4 DEF ClaimRead, services, observed
<1>5. CASE Drain(p)
  BY <1>5 DEF Drain, services, observed
<1>6. CASE Discard(p)
  BY <1>6 DEF Discard, services, observed
<1>7. CASE RenewQueue(p)
  BY <1>7 DEF RenewQueue, services, observed
<1>8. CASE RenewRead(p)
  BY <1>8 DEF RenewRead, services, observed
<1>9. CASE AbandonQueue(p)
  BY <1>9 DEF AbandonQueue, services, observed
<1>10. CASE Verify(p)
  BY <1>10 DEF Verify, services, observed
<1>11. CASE WriteClaimIndex(p)
  BY <1>11 DEF WriteClaimIndex, services, observed
<1>12. CASE FinalRead(p)
  BY <1>12 DEF FinalRead, services, observed
<1>13. CASE Settle(p)
  BY <1>13 DEF Settle, services, observed
<1>14. CASE FindAccepted(p)
  BY <1>14 DEF FindAccepted, services, observed
<1>15. CASE ReadCursor(p)
  BY <1>15 DEF ReadCursor, services, observed
<1>16. CASE ListPage(p)
  BY <1>16 DEF ListPage, services, observed
<1>17. CASE Scan(p)
  BY <1>17 DEF Scan, services, observed
<1>18. CASE NotifyRaised(p)
  BY <1>18 DEF NotifyRaised, services, observed
<1>19. QED
  BY <1>1, <1>2, <1>3, <1>4, <1>5, <1>6, <1>7, <1>8, <1>9,
     <1>10, <1>11, <1>12, <1>13, <1>14, <1>15, <1>16, <1>17, <1>18 DEF Unseen

\* Every step is one of the abstract job, or none.
LEMMA StepRefines ==
  ASSUME OutInv, [Next]_vars
  PROVE  [Abstract!JobNext]_(Abstract!jobVars)
<1>1. CASE Tick \/ UNCHANGED vars
  <2>1. UNCHANGED <<blob, notified, acked>>
    BY <1>1 DEF Tick, vars, services, observed
  <2>2. QED
    BY <2>1, Stutters DEF OneStep
<1>2. ASSUME NEW p \in Procs, Begin(p) \/ Fail(p) \/ Crash(p)
      PROVE  OneStep
  BY <1>2, BeginsUnseen, Stutters
<1>3. ASSUME NEW p \in Procs, Continue(p)
      PROVE  OneStep
  <2>1. CASE Unseen(p)
    BY <2>1, CallsUnseen, Stutters
  <2>2. QED
    BY <1>3, <2>1, CreateIsStep, ClaimIsStep, TerminateIsStep, AcceptIsStep,
       LeaseWritesAreQuiet, NotifyIsStep, AckIsStep DEF Continue, Unseen
<1>4. QED
  BY <1>1, <1>2, <1>3 DEF Next, OneStep

\* At first no job is published.
LEMMA InitRefines == Init => Abstract!JobInit
<1> SUFFICES ASSUME Init PROVE Abstract!JobInit
  OBVIOUS
<1>1. /\ \A j \in Jobs : ~blob[j].exists /\ blob[j].attempt = 0 /\ blob[j].accResult = None
      /\ notified = {} /\ acked = {}
  BY DEF Init, NoJob
<1>2. jobStatus = [j \in Jobs |-> "absent"]
  BY <1>1, StatusOfJob DEF StatusOf
<1>3. QED
  BY <1>1, <1>2 DEF Abstract!JobInit

\* The durable adapter keeps FlashJob's promise: every request of every
\* process is one step of the abstract job or none, for any number of
\* processes, jobs, messages, faults and restarts (DurableFlashDelivery).
THEOREM OutcomesRefine == Spec => ImplementsFlashJob
<1>1. OutInv /\ [Next]_vars => [Abstract!JobNext]_(Abstract!jobVars)
  BY StepRefines
<1>2. QED
  BY <1>1, InitRefines, OutcomesInvariant, PTL DEF Spec, ImplementsFlashJob, Abstract!JobSpec

-----------------------------------------------------------------------------
(* What the promise gives a client of the durable adapter.                 *)

\* FlashJob keeps what its clients rely on, whatever each of its jobs does next
\* (here read on the state of FlashStorage).
LEMMA JobStepKeeps ==
  ASSUME Abstract!JobKept, NEW j \in Jobs, Abstract!JobStep(j)
  PROVE  Abstract!JobKept' /\ Abstract!EndedStays
<1> DEFINE Statuses == {"absent", "open", "accepted", "exhausted"}
<1>1. /\ jobStatus \in [Jobs -> Statuses] /\ jobAttempts \in [Jobs -> 0..MaxAttempts]
      /\ jobResults \in [Jobs -> Good \cup {None}] /\ None \notin Good
      /\ \A i \in Jobs :
           /\ jobStatus[i] = "accepted" <=> jobResults[i] # None
           /\ jobStatus[i] = "accepted" => jobAttempts[i] > 0
           /\ jobStatus[i] = "absent" => jobAttempts[i] = 0
      /\ \A i \in jobsTold : i \in Jobs /\ jobStatus[i] = "accepted"
      /\ \A a \in jobsAnswered : \E i \in Jobs :
           jobStatus[i] = "accepted" /\ a = <<i, jobResults[i]>>
  BY NoneAssumption, ResultsAssumption
     DEF Abstract!JobKept, jobAttempts, jobResults, jobsTold, jobsAnswered
<1>2. \/ /\ jobStatus[j] = "absent" /\ jobStatus' = [jobStatus EXCEPT ![j] = "open"]
         /\ UNCHANGED <<jobAttempts, jobResults, jobsTold, jobsAnswered>>
      \/ /\ jobStatus[j] = "open" /\ jobAttempts[j] < MaxAttempts
         /\ jobAttempts' = [jobAttempts EXCEPT ![j] = @ + 1]
         /\ UNCHANGED <<jobStatus, jobResults, jobsTold, jobsAnswered>>
      \/ /\ jobStatus[j] = "open" /\ jobAttempts[j] > 0
         /\ jobStatus' = [jobStatus EXCEPT ![j] = "accepted"]
         /\ \E r \in Good : jobResults' = [jobResults EXCEPT ![j] = r]
         /\ UNCHANGED <<jobAttempts, jobsTold, jobsAnswered>>
      \/ /\ jobStatus[j] = "open" /\ jobStatus' = [jobStatus EXCEPT ![j] = "exhausted"]
         /\ UNCHANGED <<jobAttempts, jobResults, jobsTold, jobsAnswered>>
      \/ /\ jobStatus[j] = "accepted" /\ jobsTold' = jobsTold \cup {j}
         /\ UNCHANGED <<jobStatus, jobAttempts, jobResults, jobsAnswered>>
      \/ /\ jobStatus[j] = "accepted"
         /\ jobsAnswered' = jobsAnswered \cup {<<j, jobResults[j]>>}
         /\ UNCHANGED <<jobStatus, jobAttempts, jobResults, jobsTold>>
  BY DEF Abstract!JobStep, Abstract!Publish, Abstract!StartAttempt, Abstract!AcceptResult,
     Abstract!Exhaust, Abstract!Tell, Abstract!Answer, jobAttempts, jobResults, jobsTold,
     jobsAnswered
<1>3. /\ jobStatus' \in [Jobs -> Statuses] /\ jobAttempts' \in [Jobs -> 0..MaxAttempts]
      /\ jobResults' \in [Jobs -> Good \cup {None}]
  BY <1>1, <1>2, BudgetAssumption
<1>4. \A i \in Jobs :
        /\ jobStatus'[i] = "accepted" <=> jobResults'[i] # None
        /\ jobStatus'[i] = "accepted" => jobAttempts'[i] > 0
        /\ jobStatus'[i] = "absent" => jobAttempts'[i] = 0
  BY <1>1, <1>2, BudgetAssumption
<1>5. \A i \in Jobs :
        jobStatus[i] \in {"accepted", "exhausted"} =>
          UNCHANGED <<jobStatus[i], jobAttempts[i], jobResults[i]>>
  BY <1>1, <1>2
<1>6. \A i \in jobsTold' : i \in Jobs /\ jobStatus'[i] = "accepted"
  BY <1>1, <1>2, <1>5
<1>7. \A a \in jobsAnswered' : \E i \in Jobs :
        jobStatus'[i] = "accepted" /\ a = <<i, jobResults'[i]>>
  BY <1>1, <1>2, <1>5
<1>8. QED
  BY <1>3, <1>4, <1>5, <1>6, <1>7
     DEF Abstract!JobKept, Abstract!EndedStays, jobAttempts, jobResults, jobsTold, jobsAnswered

\* The clients of the durable adapter are never told or answered anything but
\* the one accepted result of their job, which has a verified result of one of
\* at most MaxAttempts attempts or none, and never changes once the job has
\* ended: a consequence of OutcomesRefine, whatever else FlashStorage does.
THEOREM ClientsRelyOnOutcomes == Spec => []Abstract!JobKept /\ Abstract!JobEndsOnce
<1>1. Abstract!JobInit => Abstract!JobKept
  BY BudgetAssumption DEF Abstract!JobInit, Abstract!JobKept
<1>2. Abstract!JobKept /\ Abstract!JobNext => Abstract!JobKept' /\ Abstract!EndedStays
  BY JobStepKeeps DEF Abstract!JobNext
<1>3. Abstract!JobKept /\ UNCHANGED Abstract!jobVars => Abstract!JobKept'
  <2> SUFFICES ASSUME Abstract!JobKept,
                      UNCHANGED <<jobStatus, jobAttempts, jobResults, jobsTold, jobsAnswered>>
               PROVE  Abstract!JobKept'
    BY DEF Abstract!jobVars, jobAttempts, jobResults, jobsTold, jobsAnswered
  <2> QED
    BY DEF Abstract!JobKept, jobAttempts, jobResults, jobsTold, jobsAnswered
<1>4. QED
  BY <1>1, <1>2, <1>3, OutcomesRefine, PTL
     DEF ImplementsFlashJob, Abstract!JobSpec, Abstract!JobEndsOnce

=============================================================================
