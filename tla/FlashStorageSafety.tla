-------------------------- MODULE FlashStorageSafety --------------------------
(***************************************************************************)
(* Proofs about FlashStorage for any number of processes, jobs, messages   *)
(* and faults, any budgets and options: its values are well-formed, IInv   *)
(* is an inductive invariant, and by it completions are accepted under the *)
(* current claim, are replayable, and outcomes are final.                  *)
(*                                                                         *)
(* The argument: a snapshot whose ETag still matches is the blob           *)
(* (DecisionOK), so a decision taken on the snapshot holds of the state    *)
(* that the conditional write replaces.  Every action is either quiet (it  *)
(* writes no job) or one conditional write; QuietStep and WriteStep treat  *)
(* these two kinds once and for all.                                       *)
(***************************************************************************)
EXTENDS FlashStorage, TLAPS

(***************************************************************************)
(* Well-formedness.                                                        *)
(***************************************************************************)

\* The state of a job never enqueued is well-typed.
LEMMA NoJobType == NoJob \in JobState
BY DEF NoJob, JobState

\* A field of a job's state that is set to a value of its type.
LEMMA JobSet ==
  ASSUME NEW b \in JobState
  PROVE  /\ \A v \in BOOLEAN : [b EXCEPT !.exists = v] \in JobState
         /\ \A v \in Nat : [b EXCEPT !.started = v] \in JobState
         /\ \A v \in Nat : [b EXCEPT !.attempt = v] \in JobState
         /\ \A v \in Nat : [b EXCEPT !.gen = v] \in JobState
         /\ \A v \in Token \cup {None} : [b EXCEPT !.lease = v] \in JobState
         /\ \A v \in Nat : [b EXCEPT !.expires = v] \in JobState
         /\ \A v \in Nat \cup {None} : [b EXCEPT !.accGen = v] \in JobState
         /\ \A v \in Nat \cup {None} : [b EXCEPT !.accAttempt = v] \in JobState
         /\ \A v \in Token \cup {None} : [b EXCEPT !.accTok = v] \in JobState
         /\ \A v \in Results \cup {None} : [b EXCEPT !.accResult = v] \in JobState
         /\ \A v \in TerminalReasons \cup {None} : [b EXCEPT !.terminal = v] \in JobState
         /\ \A v \in BOOLEAN : [b EXCEPT !.pending = v] \in JobState
         /\ \A v \in BOOLEAN : [b EXCEPT !.sent = v] \in JobState
BY DEF JobState

\* Likewise a call's locals.
LEMMA LocalSet ==
  ASSUME NEW l \in Local
  PROVE  /\ \A v \in Steps : [l EXCEPT !.pc = v] \in Local
         /\ \A v \in Calls \cup {None} : [l EXCEPT !.call = v] \in Local
         /\ \A v \in Jobs \cup {None} : [l EXCEPT !.job = v] \in Local
         /\ \A v \in JobState : [l EXCEPT !.snap = v] \in Local
         /\ \A v \in BOOLEAN : [l EXCEPT !.fresh = v] \in Local
         /\ \A v \in Nat : [l EXCEPT !.at = v] \in Local
         /\ \A v \in Msgs \cup {None} : [l EXCEPT !.msg = v] \in Local
         /\ \A v \in ClaimContext \cup {None} : [l EXCEPT !.ctx = v] \in Local
         /\ \A v \in Token \cup {None} : [l EXCEPT !.tok = v] \in Local
         /\ \A v \in Results \cup {None} : [l EXCEPT !.result = v] \in Local
         /\ \A v \in Nat : [l EXCEPT !.drained = v] \in Local
         /\ \A v \in SUBSET Jobs : [l EXCEPT !.page = v] \in Local
         /\ \A v \in Jobs \cup {0} : [l EXCEPT !.next = v] \in Local
         /\ \A v \in BOOLEAN : [l EXCEPT !.cfresh = v] \in Local
BY DEF Local

\* The steps that calls go on to.
LEMMA StepNames ==
  /\ "enqueue_create" \in Steps /\ "enqueue_read" \in Steps /\ "enqueue_send" \in Steps
  /\ "receive" \in Steps /\ "claim_read" \in Steps /\ "drain" \in Steps /\ "discard" \in Steps
  /\ "terminate" \in Steps /\ "claim_write" \in Steps
  /\ "renew_queue" \in Steps /\ "renew_read" \in Steps /\ "renew_write" \in Steps
  /\ "abandon_write" \in Steps /\ "abandon_queue" \in Steps
  /\ "verify" \in Steps /\ "index" \in Steps /\ "final_read" \in Steps /\ "accept" \in Steps
  /\ "settle" \in Steps /\ "find" \in Steps
  /\ "cursor" \in Steps /\ "list" \in Steps /\ "scan" \in Steps /\ "notify" \in Steps
  /\ "mark" \in Steps
BY DEF Steps


\* An idle process has well-formed locals.
LEMMA IdleType == Idle \in Local /\ LocalsInUse(Idle)
<1>1. Idle \in Local
  BY NoJobType DEF Idle, Local, Steps, Calls
<1>2. LocalsInUse(Idle)
  BY NoneAssumption
     DEF LocalsInUse, Idle, Calls, Enqueuing, Triggered, Owning, Completing
<1>3. QED
  BY <1>1, <1>2

\* Recovery starts with well-formed locals, whichever call it is part of.
LEMMA RecoveringType ==
  ASSUME NEW c \in Calls, NEW t \in Token \cup {None}, NEW r \in Results \cup {None},
         c = "complete" => t \in Token /\ r \in Results
  PROVE  Recovering(c, t, r) \in Local /\ LocalsInUse(Recovering(c, t, r))
<1>1. Recovering(c, t, r) \in Local
  BY IdleType, LocalSet, StepNames DEF Recovering
<1>2. LocalsInUse(Recovering(c, t, r))
  BY DEF Recovering, Idle, LocalsInUse, Enqueuing, Triggered, Owning, Completing
<1>3. QED
  BY <1>1, <1>2

\* What well-formedness says of one process.
LEMMA LocalsOf ==
  ASSUME WellFormed, NEW p \in Procs
  PROVE  loc[p] \in Local /\ LocalsInUse(loc[p])
BY DEF WellFormed, TypeOK

\* Losing its ETag leaves a process's locals well-formed.
LEMMA OutdatedType ==
  ASSUME NEW l \in Local, LocalsInUse(l)
  PROVE  [l EXCEPT !.fresh = FALSE] \in Local /\ LocalsInUse([l EXCEPT !.fresh = FALSE])
<1>1. [l EXCEPT !.fresh = FALSE] \in Local
  BY DEF Local
<1>2. LocalsInUse([l EXCEPT !.fresh = FALSE])
  BY DEF LocalsInUse, Local
<1>3. QED
  BY <1>1, <1>2

\* Two calls refer to the same job, message, claim and result.
SameRefs(l, k) ==
  /\ k.call = l.call /\ k.job = l.job /\ k.msg = l.msg
  /\ k.ctx = l.ctx /\ k.tok = l.tok /\ k.result = l.result

\* A call goes on to its next request.
LEMMA GoOnType ==
  ASSUME NEW l \in Local, NEW s \in Steps
  PROVE  LET k == [l EXCEPT !.pc = s]
         IN k \in Local /\ SameRefs(l, k) /\ k.pc = s /\ k.snap = l.snap /\ k.fresh = l.fresh
BY DEF Local, SameRefs

LocalsOK == loc \in [Procs -> Local] /\ \A q \in Procs : LocalsInUse(loc[q])

\* A step that moves one process to well-formed locals.
LEMMA GotoLocals ==
  ASSUME WellFormed, NEW p \in Procs, NEW l \in Local, LocalsInUse(l), Goto(p, l)
  PROVE  LocalsOK'
<1>1. LocalsOK
  BY DEF LocalsOK, WellFormed, TypeOK
<1>2. QED
  BY <1>1 DEF Goto, LocalsOK

\* A conditional write: the other processes only lose their ETags.
LEMMA PutLocals ==
  ASSUME WellFormed, NEW p \in Procs, NEW b \in JobState, NEW l \in Local,
         LocalsInUse(l), Put(p, b, l)
  PROVE  blob' \in [Jobs -> JobState] /\ LocalsOK'
<1>1. blob' \in [Jobs -> JobState]
  <2>1. blob \in [Jobs -> JobState]
    BY DEF WellFormed, TypeOK
  <2>2. QED
    BY <2>1 DEF Put
<1>2. LocalsOK
  BY DEF LocalsOK, WellFormed, TypeOK
<1>3. LocalsOK'
  BY <1>2, OutdatedType DEF Put, LocalsOK
<1>4. QED
  BY <1>1, <1>3

\* A step that changes locals only.
LEMMA LocalStep ==
  ASSUME WellFormed, NEW p \in Procs, NEW l \in Local, LocalsInUse(l), Goto(p, l),
         UNCHANGED <<clock, services, claims, faults, observed>>
  PROVE  WellFormed'
<1>1. LocalsOK'
  BY GotoLocals
<1>2. QED
  BY <1>1 DEF LocalsOK, WellFormed, TypeOK, services, observed

\* Faults are counted within their bound.
LEMMA FaultType ==
  ASSUME WellFormed, Fault \/ UNCHANGED faults
  PROVE  faults' \in 0..MaxFaults
BY BoundsAssumption DEF WellFormed, TypeOK, Fault

\* A step that writes a job: what is left to show is that messages stay.
LEMMA BlobStep ==
  ASSUME WellFormed, NEW p \in Procs, NEW b \in JobState, NEW l \in Local,
         LocalsInUse(l), Put(p, b, l), Fault \/ UNCHANGED faults,
         UNCHANGED <<clock, queue, index, cursor, claims, observed>>
  PROVE  WellFormed'
<1>1. blob' \in [Jobs -> JobState] /\ LocalsOK'
  BY PutLocals
<1>2. faults' \in 0..MaxFaults
  BY FaultType
<1>3. QED
  BY <1>1, <1>2 DEF LocalsOK, WellFormed, TypeOK, observed

\* The steps of enqueue() have well-formed locals: they know their job.
LEMMA EnqueuingType ==
  ASSUME NEW s \in Enqueuing, NEW j \in Jobs
  PROVE  LET l == [Idle EXCEPT !.pc = s, !.job = j] IN l \in Local /\ LocalsInUse(l)
<1> DEFINE l == [Idle EXCEPT !.pc = s, !.job = j]
<1>1. l \in Local
  <2>1. s \in Steps
    BY DEF Steps, Enqueuing
  <2> QED
    BY <2>1, IdleType, LocalSet
<1>2. LocalsInUse(l)
  BY NoneAssumption
     DEF LocalsInUse, Idle, Calls, Enqueuing, Triggered, Owning, Completing
<1>3. QED
  BY <1>1, <1>2

\* The start of enqueue() keeps the state well-formed.
LEMMA EnqueueBeginWF ==
  ASSUME WellFormed, NEW p \in Procs, NEW j \in Jobs, EnqueueBegin(p, j)
  PROVE  WellFormed'
<1> DEFINE l == [Idle EXCEPT !.pc = "enqueue_create", !.job = j, !.at = clock]
<1>1. clock \in Nat
  BY BoundsAssumption DEF WellFormed, TypeOK
<1>2. l \in Local
  BY <1>1, IdleType, LocalSet, StepNames
<1>3. LocalsInUse(l)
  BY NoneAssumption DEF LocalsInUse, Idle, Calls, Triggered, Owning, Completing
<1>4. QED
  BY <1>2, <1>3, LocalStep DEF EnqueueBegin

\* enqueue()'s create-only write of the job keeps the state well-formed.
LEMMA EnqueueCreateWF ==
  ASSUME WellFormed, NEW p \in Procs, EnqueueCreate(p)
  PROVE  WellFormed'
<1> DEFINE b == [NoJob EXCEPT !.exists = TRUE, !.started = loc[p].at]
           send == [Idle EXCEPT !.pc = "enqueue_send", !.job = loc[p].job]
           read == [Idle EXCEPT !.pc = "enqueue_read", !.job = loc[p].job]
<1>1. loc[p].job \in Jobs /\ loc[p].at \in Nat
  BY LocalsOf DEF EnqueueCreate, LocalsInUse, Enqueuing, Local
<1>2. b \in JobState
  BY <1>1, NoJobType DEF JobState
<1>3. send \in Local /\ LocalsInUse(send)
  BY <1>1, EnqueuingType DEF Enqueuing
<1>4. read \in Local /\ LocalsInUse(read)
  BY <1>1, EnqueuingType DEF Enqueuing
<1>5. CASE ~blob[loc[p].job].exists
  <2>1. /\ Put(p, b, send) \/ Put(p, b, Idle)
        /\ Fault \/ UNCHANGED faults
        /\ UNCHANGED <<clock, queue, index, cursor, claims, observed>>
    BY <1>5 DEF EnqueueCreate
  <2>2. QED
    BY <2>1, <1>2, <1>3, <1>4, IdleType, BlobStep
<1>6. CASE blob[loc[p].job].exists
  <2>1. Goto(p, read) /\ UNCHANGED <<clock, services, claims, faults, observed>>
    BY <1>6 DEF EnqueueCreate, services
  <2>2. QED
    BY <2>1, <1>3, <1>4, LocalStep
<1>7. QED
  BY <1>5, <1>6

\* A retried enqueue() reading the job it found keeps the state well-formed.
LEMMA EnqueueReadWF ==
  ASSUME WellFormed, NEW p \in Procs, EnqueueRead(p)
  PROVE  WellFormed'
<1> DEFINE send == [Idle EXCEPT !.pc = "enqueue_send", !.job = loc[p].job]
<1>1. loc[p].job \in Jobs
  BY LocalsOf DEF EnqueueRead, LocalsInUse, Enqueuing
<1>2. send \in Local /\ LocalsInUse(send)
  BY <1>1, EnqueuingType DEF Enqueuing
<1>3. Goto(p, send) \/ Goto(p, Idle)
  BY DEF EnqueueRead, Return
<1>4. LocalsOK'
  BY <1>2, <1>3, IdleType, GotoLocals
<1>5. QED
  BY <1>1, <1>4 DEF EnqueueRead, WellFormed, TypeOK, LocalsOK, services

\* enqueue() sending the trigger keeps the state well-formed.
LEMMA EnqueueSendWF ==
  ASSUME WellFormed, NEW p \in Procs, EnqueueSend(p)
  PROVE  WellFormed'
<1>1. loc[p].job \in Jobs
  BY LocalsOf DEF EnqueueSend, LocalsInUse, Enqueuing
<1>2. LocalsOK'
  BY IdleType, GotoLocals DEF EnqueueSend, Return
<1>3. /\ queue' \in [Msgs -> Message]
      /\ \A m \in Msgs : queue'[m].st = "queued" => queue'[m].job \in Jobs
  <2>1. clock \in Nat
    BY BoundsAssumption DEF WellFormed, TypeOK
  <2>2. PICK m \in Msgs :
          queue' = [queue EXCEPT ![m] = [st |-> "queued", job |-> loc[p].job,
                                         holder |-> None, visible |-> clock]]
    BY DEF EnqueueSend
  <2>3. [st |-> "queued", job |-> loc[p].job, holder |-> None, visible |-> clock] \in Message
    BY <1>1, <2>1 DEF Message
  <2>4. QED
    BY <1>1, <2>2, <2>3 DEF WellFormed, TypeOK
<1>4. faults' \in 0..MaxFaults
  BY FaultType DEF EnqueueSend
<1>5. enqueued' \subseteq Jobs
  BY <1>1 DEF EnqueueSend, WellFormed, TypeOK
<1>6. QED
  BY <1>2, <1>3, <1>4, <1>5 DEF EnqueueSend, WellFormed, TypeOK, LocalsOK

QueueOK ==
  /\ queue \in [Msgs -> Message]
  /\ \A m \in Msgs : queue[m].st = "queued" => queue[m].job \in Jobs

\* Deleting a message leaves the queue well-typed.
LEMMA DeleteType ==
  ASSUME WellFormed, NEW m \in Msgs, Delete(m)
  PROVE  QueueOK'
<1>1. QueueOK
  BY DEF WellFormed, TypeOK, QueueOK
<1>2. [st |-> "deleted", job |-> queue[m].job, holder |-> None, visible |-> 0] \in Message
  BY <1>1 DEF QueueOK, Message
<1>3. queue' \in [Msgs -> Message]
  BY <1>1, <1>2 DEF QueueOK, Delete
<1>4. \A n \in Msgs : queue'[n].st = "queued" => queue'[n].job \in Jobs
  BY <1>1 DEF QueueOK, Delete
<1>5. QED
  BY <1>3, <1>4 DEF QueueOK

\* So does rotating its receipt and changing its visibility.
LEMMA UpdateType ==
  ASSUME WellFormed, NEW m \in Msgs, NEW who \in Procs \cup Token \cup {None},
         NEW v \in Nat, Update(m, who, v)
  PROVE  QueueOK'
<1>1. QueueOK
  BY DEF WellFormed, TypeOK, QueueOK
<1>2. queue' = [queue EXCEPT ![m] = [[queue[m] EXCEPT !.holder = who] EXCEPT !.visible = v]]
  BY <1>1 DEF Update, QueueOK
<1>3. [[queue[m] EXCEPT !.holder = who] EXCEPT !.visible = v] \in Message
  BY <1>1 DEF QueueOK, Message
<1>4. queue' \in [Msgs -> Message]
  BY <1>1, <1>2, <1>3 DEF QueueOK
<1>5. \A n \in Msgs : queue'[n].st = queue[n].st /\ queue'[n].job = queue[n].job
  BY <1>1, <1>2 DEF QueueOK, Message
<1>6. QED
  BY <1>1, <1>4, <1>5 DEF QueueOK

\* A step that changes the queue and one process's locals.
LEMMA QueueStep ==
  ASSUME WellFormed, QueueOK', LocalsOK', Fault \/ UNCHANGED faults,
         UNCHANGED <<clock, blob, index, cursor, claims, observed>>
  PROVE  WellFormed'
<1>1. faults' \in 0..MaxFaults
  BY FaultType
<1>2. QED
  BY <1>1 DEF QueueOK, LocalsOK, WellFormed, TypeOK, observed

\* The start of claim(), its pruning and its limit keeps the state
\* well-formed.
LEMMA ClaimBeginWF ==
  ASSUME WellFormed, NEW p \in Procs, ClaimBegin(p)
  PROVE  WellFormed'
<1>1. LocalsOK'
  <2>1. Recovering("claim", None, None) \in Local /\ LocalsInUse(Recovering("claim", None, None))
    BY RecoveringType DEF Calls
  <2>2. Goto(p, Recovering("claim", None, None)) \/ UNCHANGED loc
    BY DEF ClaimBegin
  <2>3. QED
    BY <2>1, <2>2, GotoLocals DEF LocalsOK, WellFormed, TypeOK
<1>2. \A q \in Procs : claims'[q] \subseteq claims[q]
  BY DEF ClaimBegin, Live, WellFormed, TypeOK
<1>3. claims' \in [Procs -> SUBSET ClaimContext]
  BY <1>2 DEF ClaimBegin, WellFormed, TypeOK
<1>4. QED
  BY <1>1, <1>2, <1>3 DEF ClaimBegin, LocalsOK, WellFormed, TypeOK, services, observed

\* claim() receiving a trigger keeps the state well-formed.
LEMMA ReceiveWF ==
  ASSUME WellFormed, NEW p \in Procs, Receive(p)
  PROVE  WellFormed'
<1>1. CASE Return(p) /\ UNCHANGED <<queue, faults>>
  <2>1. UNCHANGED <<clock, services, claims, faults, observed>>
    BY <1>1 DEF Receive, services
  <2>2. QED
    BY <1>1, <2>1, IdleType, LocalStep DEF Return
<1>2. CASE ~(Return(p) /\ UNCHANGED <<queue, faults>>)
  <2> DEFINE l(m) == [Idle EXCEPT !.pc = "claim_read", !.msg = m,
                                  !.job = queue[m].job, !.drained = loc[p].drained]
  <2>1. PICK m \in Msgs :
          /\ queue[m].st = "queued"
          /\ Update(m, p, clock + LeaseSeconds)
          /\ Goto(p, l(m)) \/ Return(p)
    BY <1>2 DEF Receive
  <2>2. queue[m].job \in Jobs /\ clock + LeaseSeconds \in Nat /\ loc[p].drained \in Nat
    BY <2>1, LocalsOf, BoundsAssumption, OptionsAssumption DEF WellFormed, TypeOK, Local
  <2>3. l(m) \in Local
    BY <2>2, IdleType, LocalSet, StepNames
  <2>4. LocalsInUse(l(m))
    BY <2>2, NoneAssumption DEF LocalsInUse, Idle, Calls, Triggered, Owning, Completing
  <2>5. LocalsOK'
    BY <2>1, <2>3, <2>4, IdleType, GotoLocals DEF Return
  <2>6. QueueOK'
    BY <2>1, <2>2, UpdateType
  <2>7. Fault \/ UNCHANGED faults
    BY DEF Receive
  <2>8. QED
    BY <2>5, <2>6, <2>7, QueueStep DEF Receive
<1>3. QED
  BY <1>1, <1>2

\* The locals of a claim that has read its job.
LEMMA ClaimReadType ==
  ASSUME NEW l \in Local, NEW b \in JobState, NEW t \in Nat
  PROVE  LET read == [l EXCEPT !.snap = b, !.fresh = TRUE, !.at = t, !.drained = 0]
         IN read \in Local /\ SameRefs(l, read) /\ read.snap = b /\ read.fresh
<1> DEFINE read == [l EXCEPT !.snap = b, !.fresh = TRUE, !.at = t, !.drained = 0]
<1>1. read \in Local
  BY LocalSet
<1>2. SameRefs(l, read) /\ read.snap = b /\ read.fresh
  BY DEF Local, SameRefs
<1> QED
  BY <1>1, <1>2

\* The locals of a claim that discards its trigger.
LEMMA DiscardingType ==
  ASSUME NEW l \in Local
  PROVE  LET k == [l EXCEPT !.pc = "discard", !.drained = 0]
         IN /\ k \in Local /\ SameRefs(l, k) /\ k.pc = "discard"
            /\ k.snap = l.snap /\ k.fresh = l.fresh
<1> DEFINE k == [l EXCEPT !.pc = "discard", !.drained = 0]
<1>1. k \in Local
  BY LocalSet, StepNames
<1>2. SameRefs(l, k) /\ k.pc = "discard" /\ k.snap = l.snap /\ k.fresh = l.fresh
  BY DEF Local, SameRefs
<1> QED
  BY <1>1, <1>2

\* A claim that goes on with its trigger keeps what it refers to.
LEMMA TriggeredLocals ==
  ASSUME NEW l \in Local, NEW k \in Local, LocalsInUse(l), SameRefs(l, k),
         l.pc \in Triggered, k.pc \in Triggered
  PROVE  LocalsInUse(k)
BY DEF LocalsInUse, SameRefs, Enqueuing, Triggered, Owning, Completing

\* _claim_message reading the job and deciding keeps the state well-formed.
LEMMA ClaimReadWF ==
  ASSUME WellFormed, NEW p \in Procs, ClaimRead(p)
  PROVE  WellFormed'
<1> DEFINE l == loc[p]
           b == blob[l.job]
           read == [l EXCEPT !.snap = b, !.fresh = TRUE, !.at = clock, !.drained = 0]
           drain == [l EXCEPT !.pc = "drain"]
           discard == [l EXCEPT !.pc = "discard", !.drained = 0]
           kill == [read EXCEPT !.pc = "terminate"]
           take == [read EXCEPT !.pc = "claim_write"]
<1>1. l \in Local /\ LocalsInUse(l) /\ l.pc = "claim_read"
  BY LocalsOf DEF ClaimRead
<1>2. l.job \in Jobs
  BY <1>1 DEF LocalsInUse, Triggered
<1>3. b \in JobState /\ clock \in Nat
  BY <1>2, BoundsAssumption DEF WellFormed, TypeOK
<1>4. read \in Local /\ SameRefs(l, read)
  BY <1>1, <1>3, ClaimReadType
<1> DEFINE Onward == {drain, discard, kill, take}
<1>5. \A k \in Onward : k \in Local /\ SameRefs(l, k) /\ k.pc \in Triggered
  <2>1. drain \in Local /\ SameRefs(l, drain) /\ drain.pc \in Triggered
    BY <1>1, GoOnType, StepNames DEF Triggered
  <2>2. discard \in Local /\ SameRefs(l, discard) /\ discard.pc \in Triggered
    BY <1>1, DiscardingType DEF Triggered
  <2> HIDE DEF read
  <2>3. kill \in Local /\ SameRefs(read, kill) /\ kill.pc \in Triggered
    BY <1>4, GoOnType, StepNames DEF Triggered
  <2>4. take \in Local /\ SameRefs(read, take) /\ take.pc \in Triggered
    BY <1>4, GoOnType, StepNames DEF Triggered
  <2>5. SameRefs(l, kill) /\ SameRefs(l, take)
    BY <1>4, <2>3, <2>4 DEF SameRefs
  <2> HIDE DEF drain, discard, kill, take
  <2>6. QED
    BY <2>1, <2>2, <2>3, <2>4, <2>5
<1>6. \A k \in Onward : LocalsInUse(k)
  <2> HIDE DEF Onward
  <2>1. QED
    BY <1>1, <1>5, TriggeredLocals DEF Triggered
<1>7. (\E k \in Onward : Goto(p, k)) \/ Goto(p, Idle)
  BY DEF ClaimRead, Return
<1>8. UNCHANGED <<clock, services, claims, faults, observed>>
  BY DEF ClaimRead
<1>9. QED
  <2> HIDE DEF Onward
  <2>1. QED
    BY <1>5, <1>6, <1>7, <1>8, IdleType, LocalStep

\* A poll that has drained a trigger receives the next one.
LEMMA ReceivingType ==
  ASSUME NEW n \in Nat
  PROVE  LET k == [Idle EXCEPT !.pc = "receive", !.drained = n]
         IN k \in Local /\ LocalsInUse(k)
<1> DEFINE k == [Idle EXCEPT !.pc = "receive", !.drained = n]
<1>1. k \in Local
  BY IdleType, LocalSet, StepNames
<1>2. LocalsInUse(k)
  BY NoneAssumption
     DEF LocalsInUse, Idle, Calls, Enqueuing, Triggered, Owning, Completing, NoJob
<1>3. QED
  BY <1>1, <1>2

\* claim() deleting the trigger of an accepted job keeps the state
\* well-formed.
LEMMA DrainWF ==
  ASSUME WellFormed, NEW p \in Procs, Drain(p)
  PROVE  WellFormed'
<1> DEFINE next == [Idle EXCEPT !.pc = "receive", !.drained = loc[p].drained + 1]
<1>1. loc[p].msg \in Msgs /\ loc[p].drained + 1 \in Nat
  BY LocalsOf DEF Drain, LocalsInUse, Triggered, Local
<1>2. next \in Local /\ LocalsInUse(next)
  BY <1>1, ReceivingType
<1>3. LocalsOK'
  BY <1>2, IdleType, GotoLocals DEF Drain, Return
<1>4. QueueOK'
  BY <1>1, DeleteType DEF Drain, QueueOK, WellFormed, TypeOK
<1>5. QED
  BY <1>3, <1>4, QueueStep DEF Drain

\* _claim_message writing a terminal reason keeps the state well-formed.
LEMMA TerminateWF ==
  ASSUME WellFormed, NEW p \in Procs, Terminate(p)
  PROVE  WellFormed'
<1> DEFINE l == loc[p]
           reason == IF l.snap.attempt >= MaxAttempts THEN "attempt_budget_exhausted"
                     ELSE "wall_budget_expired"
           new == [l.snap EXCEPT !.terminal = reason]
           next == [Idle EXCEPT !.pc = "discard", !.msg = l.msg, !.job = l.job]
<1>1. l.msg \in Msgs /\ l.job \in Jobs /\ l.snap \in JobState
  BY LocalsOf DEF Terminate, LocalsInUse, Triggered, Local
<1>2. new \in JobState
  BY <1>1 DEF JobState, TerminalReasons
<1>3. next \in Local
  BY <1>1, IdleType, LocalSet, StepNames
<1>4. LocalsInUse(next)
  BY <1>1, NoneAssumption
     DEF LocalsInUse, Idle, Calls, Enqueuing, Triggered, Owning, Completing
<1>5. CASE EtagMatches(p)
  <2>1. /\ Put(p, new, next) \/ Put(p, new, Idle)
        /\ Fault \/ UNCHANGED faults
        /\ UNCHANGED <<clock, queue, index, cursor, claims, observed>>
    BY <1>5 DEF Terminate
  <2>2. QED
    BY <2>1, <1>2, <1>3, <1>4, IdleType, BlobStep
<1>6. CASE ~EtagMatches(p)
  <2>1. Goto(p, Idle) /\ UNCHANGED <<clock, services, claims, faults, observed>>
    BY <1>6 DEF Terminate, Return, services
  <2>2. QED
    BY <2>1, IdleType, LocalStep
<1>7. QED
  BY <1>5, <1>6

\* _claim_message deleting the trigger of an exhausted job keeps the state
\* well-formed.
LEMMA DiscardWF ==
  ASSUME WellFormed, NEW p \in Procs, Discard(p)
  PROVE  WellFormed'
<1>1. loc[p].msg \in Msgs
  BY LocalsOf DEF Discard, LocalsInUse, Triggered
<1>2. LocalsOK'
  BY IdleType, GotoLocals DEF Discard, Return
<1>3. QueueOK'
  BY <1>1, DeleteType DEF Discard, QueueOK, WellFormed, TypeOK
<1>4. QED
  BY <1>2, <1>3, QueueStep DEF Discard

\* _claim_message writing a new generation and lease keeps the state
\* well-formed.
LEMMA ClaimWriteWF ==
  ASSUME WellFormed, NEW p \in Procs, ClaimWrite(p)
  PROVE  WellFormed'
<1> DEFINE l == loc[p]
           tok == [proc |-> p, job |-> l.job, gen |-> l.snap.gen + 1]
           expires == Lesser(l.at + LeaseSeconds, Deadline(l.snap))
           new == [l.snap EXCEPT !.gen = @ + 1, !.attempt = @ + 1,
                                 !.lease = tok, !.expires = expires]
           ctx == [tok |-> tok, attempt |-> l.snap.attempt + 1, msg |-> l.msg,
                   expires |-> expires]
<1>1. l.msg \in Msgs /\ l.job \in Jobs /\ l.snap \in JobState /\ l.at \in Nat
  BY LocalsOf DEF ClaimWrite, LocalsInUse, Triggered, Local
<1>2. /\ l.snap.gen + 1 \in Nat /\ l.snap.attempt + 1 \in Nat
      /\ expires \in Nat /\ tok \in Token
  BY <1>1, BudgetAssumption, OptionsAssumption
     DEF JobState, Token, Lesser, Deadline
<1>3. new \in JobState
  <2> HIDE DEF tok, expires
  <2>1. QED
    BY <1>1, <1>2 DEF JobState
<1>4. ctx \in ClaimContext
  <2> HIDE DEF tok, expires
  <2>1. QED
    BY <1>1, <1>2 DEF ClaimContext
<1>5. CASE ~EtagMatches(p)
  <2>1. Goto(p, Idle) /\ UNCHANGED <<clock, services, claims, faults, observed>>
    BY <1>5 DEF ClaimWrite, Return, services
  <2>2. QED
    BY <2>1, IdleType, LocalStep
<1>6. CASE EtagMatches(p)
  <2>1. Put(p, new, Idle) /\ (Fault \/ UNCHANGED faults)
    BY <1>6 DEF ClaimWrite
  <2>2. CASE UNCHANGED <<queue, claims>>
    BY <2>1, <2>2, <1>3, IdleType, BlobStep DEF ClaimWrite
  <2>3. CASE /\ claims' = [claims EXCEPT ![p] = @ \cup {ctx}]
             /\ queue' = [queue EXCEPT ![l.msg].holder = IF @ = p THEN tok ELSE @]
    <3>1. blob' \in [Jobs -> JobState] /\ LocalsOK'
      BY <2>1, <1>3, IdleType, PutLocals
    <3>2. faults' \in 0..MaxFaults
      BY <2>1, FaultType
    <3>3. QueueOK'
      <4>1. QueueOK
        BY DEF WellFormed, TypeOK, QueueOK
      <4> DEFINE h == IF queue[l.msg].holder = p THEN tok ELSE queue[l.msg].holder
      <4>2. h \in Procs \cup Token \cup {None}
        BY <4>1, <1>1, <1>2 DEF QueueOK, Message
      <4>3. queue' = [queue EXCEPT ![l.msg] = [queue[l.msg] EXCEPT !.holder = h]]
        BY <2>3, <4>1, <1>1 DEF QueueOK
      <4> HIDE DEF h
      <4>4. [queue[l.msg] EXCEPT !.holder = h] \in Message
        BY <4>1, <4>2, <1>1 DEF QueueOK, Message
      <4>5. queue' \in [Msgs -> Message]
        BY <4>1, <4>3, <4>4 DEF QueueOK
      <4>6. \A n \in Msgs : queue'[n].st = queue[n].st /\ queue'[n].job = queue[n].job
        BY <4>1, <4>3, <1>1 DEF QueueOK, Message
      <4>7. QED
        BY <4>1, <4>5, <4>6 DEF QueueOK
    <3>4. claims' \in [Procs -> SUBSET ClaimContext]
      BY <2>3, <1>4 DEF WellFormed, TypeOK
    <3>5. QED
      BY <3>1, <3>2, <3>3, <3>4 DEF ClaimWrite, LocalsOK, QueueOK, WellFormed, TypeOK, observed
  <2>4. QED
    BY <2>2, <2>3, <1>6 DEF ClaimWrite
<1>7. QED
  BY <1>5, <1>6

\* A call that owns a claim context and goes on keeps what it refers to.
LEMMA OwningLocals ==
  ASSUME NEW l \in Local, NEW k \in Local, LocalsInUse(l), SameRefs(l, k),
         \/ l.pc \in Completing /\ k.pc \in Completing
         \/ l.pc \in Owning /\ k.pc \in Owning \ Completing
  PROVE  LocalsInUse(k)
BY DEF LocalsInUse, SameRefs, Enqueuing, Triggered, Owning, Completing

\* What a claim context refers to.
LEMMA ContextType ==
  ASSUME WellFormed, NEW p \in Procs, NEW c \in claims[p]
  PROVE  /\ c \in ClaimContext /\ c.tok \in Token /\ c.tok.job \in Jobs /\ c.msg \in Msgs
         /\ blob[c.tok.job] \in JobState
<1>1. c \in ClaimContext
  BY DEF WellFormed, TypeOK
<1>2. c.tok \in Token /\ c.tok.job \in Jobs /\ c.msg \in Msgs
  BY <1>1 DEF ClaimContext, Token
<1>3. QED
  BY <1>1, <1>2 DEF WellFormed, TypeOK

\* What a call that owns a claim context works with.
LEMMA OwningType ==
  ASSUME WellFormed, NEW p \in Procs, loc[p].pc \in Owning \cup {"abandon_queue"}
  PROVE  /\ loc[p].ctx \in ClaimContext /\ loc[p].ctx.tok \in Token /\ loc[p].ctx.msg \in Msgs
         /\ loc[p].at \in Nat /\ loc[p].snap \in JobState /\ clock \in Nat
         /\ loc[p].pc \in Owning => loc[p].job \in Jobs /\ blob[loc[p].job] \in JobState
<1>1. loc[p] \in Local /\ LocalsInUse(loc[p])
  BY LocalsOf
<1>2. loc[p].ctx \in ClaimContext /\ loc[p].at \in Nat /\ loc[p].snap \in JobState
  BY <1>1 DEF LocalsInUse, Local
<1>3. loc[p].ctx.tok \in Token /\ loc[p].ctx.msg \in Msgs
  BY <1>2 DEF ClaimContext
<1>4. loc[p].pc \in Owning => loc[p].job \in Jobs
  BY <1>1 DEF LocalsInUse
<1>5. QED
  BY <1>2, <1>3, <1>4, BoundsAssumption DEF WellFormed, TypeOK

\* renew()'s first read keeps the state well-formed.
LEMMA RenewBeginWF ==
  ASSUME WellFormed, NEW p \in Procs, NEW c \in claims[p], RenewBegin(p, c)
  PROVE  WellFormed'
<1> DEFINE b == blob[c.tok.job]
           at == Lesser(clock + LeaseSeconds, Deadline(b)) - clock
           k == [Idle EXCEPT !.pc = "renew_queue", !.ctx = c, !.job = c.tok.job, !.at = at]
<1>1. c \in ClaimContext /\ c.tok.job \in Jobs /\ b \in JobState
  BY ContextType
<1>2. at \in Nat
  <2>1. clock \in Nat /\ b.started \in Nat /\ b.expires \in Nat
    BY <1>1, BoundsAssumption DEF WellFormed, TypeOK, JobState
  <2>2. clock < LeaseEnd(b)
    BY DEF RenewBegin, RequireClaim
  <2> HIDE DEF b
  <2>3. QED
    BY <2>1, <2>2, BudgetAssumption, OptionsAssumption DEF LeaseEnd, Lesser, Deadline
<1>3. k \in Local /\ LocalsInUse(k)
  <2> HIDE DEF at
  <2>1. k \in Local
    BY <1>1, <1>2, IdleType, LocalSet, StepNames
  <2>2. /\ k.pc = "renew_queue" /\ k.ctx = c /\ k.job = c.tok.job
        /\ k.call = None /\ k.fresh = FALSE
    BY DEF Idle
  <2>3. None # "complete"
    BY NoneAssumption DEF Calls
  <2> HIDE DEF k
  <2>4. LocalsInUse(k)
    BY <1>1, <2>2, <2>3 DEF LocalsInUse, Enqueuing, Triggered, Owning, Completing
  <2>5. QED
    BY <2>1, <2>4
<1>4. QED
  BY <1>3, LocalStep DEF RenewBegin

\* renew() extending the invisibility of its trigger keeps the state
\* well-formed.
LEMMA RenewQueueWF ==
  ASSUME WellFormed, NEW p \in Procs, RenewQueue(p)
  PROVE  WellFormed'
<1> DEFINE l == loc[p]
           v == clock + Greater(1, l.at)
           k == [l EXCEPT !.pc = "renew_read", !.at = clock]
<1>1. l \in Local /\ LocalsInUse(l) /\ l.pc = "renew_queue"
  BY LocalsOf DEF RenewQueue
<1>2. l.ctx.tok \in Token /\ l.ctx.msg \in Msgs /\ l.at \in Nat /\ clock \in Nat
  BY <1>1, OwningType DEF Owning
<1>3. v \in Nat
  BY <1>2 DEF Greater
<1>4. k \in Local /\ LocalsInUse(k)
  <2>1. k \in Local /\ SameRefs(l, k) /\ k.pc = "renew_read"
    <3>1. k \in Local
      BY <1>1, <1>2, LocalSet, StepNames
    <3>2. SameRefs(l, k) /\ k.pc = "renew_read"
      <4> HIDE DEF l
      <4> QED
        BY <1>1 DEF Local, SameRefs
    <3> QED
      BY <3>1, <3>2
  <2>2. QED
    BY <1>1, <2>1, OwningLocals DEF Owning, Completing
<1>5. Goto(p, k) \/ Goto(p, Idle)
  BY DEF RenewQueue, Return
<1>6. LocalsOK'
  BY <1>4, <1>5, IdleType, GotoLocals
<1>7. QueueOK'
  <2>1. \/ Update(l.ctx.msg, l.ctx.tok, v) \/ Update(l.ctx.msg, None, v)
        \/ UNCHANGED queue
    BY DEF RenewQueue
  <2>2. CASE UNCHANGED queue
    BY <2>2 DEF QueueOK, WellFormed, TypeOK
  <2> HIDE DEF v
  <2>3. QED
    BY <1>2, <1>3, <2>1, <2>2, UpdateType
<1>8. Fault \/ UNCHANGED faults
  BY DEF RenewQueue
<1>9. QED
  BY <1>6, <1>7, <1>8, QueueStep DEF RenewQueue

\* renew() reading the job again keeps the state well-formed.
LEMMA RenewReadWF ==
  ASSUME WellFormed, NEW p \in Procs, RenewRead(p)
  PROVE  WellFormed'
<1> DEFINE l == loc[p]
           b == blob[l.job]
           k(t) == [l EXCEPT !.pc = "renew_write", !.snap = b, !.fresh = TRUE, !.at = t]
<1>1. l \in Local /\ LocalsInUse(l) /\ l.pc = "renew_read"
  BY LocalsOf DEF RenewRead
<1>2. b \in JobState /\ l.at \in Nat /\ clock \in Nat
  BY <1>1, OwningType DEF Owning
<1>3. \A t \in Nat : k(t) \in Local /\ LocalsInUse(k(t))
  <2> TAKE t \in Nat
  <2>1. k(t) \in Local /\ SameRefs(l, k(t)) /\ k(t).pc = "renew_write"
    <3> HIDE DEF l, b
    <3>1. QED
      <4>1. k(t) \in Local
        BY <1>1, <1>2, LocalSet, StepNames
      <4>2. SameRefs(l, k(t)) /\ k(t).pc = "renew_write"
        BY <1>1 DEF Local, SameRefs
      <4> QED
        BY <4>1, <4>2
  <2> HIDE DEF k
  <2>2. QED
    BY <1>1, <2>1, OwningLocals DEF Owning, Completing
<1>4. \A r \in l.at..clock : Lesser(r + LeaseSeconds, Deadline(b)) \in Nat
  BY <1>2, BudgetAssumption, OptionsAssumption DEF JobState, Lesser, Deadline
<1>5. (\E t \in Nat : Goto(p, k(t))) \/ Goto(p, Idle)
  BY <1>4 DEF RenewRead, Return
<1>6. UNCHANGED <<clock, services, claims, faults, observed>>
  BY DEF RenewRead
<1> HIDE DEF k
<1>7. QED
  BY <1>3, <1>5, <1>6, IdleType, LocalStep

\* renew() writing the longer lease keeps the state well-formed.
LEMMA RenewWriteWF ==
  ASSUME WellFormed, NEW p \in Procs, RenewWrite(p)
  PROVE  WellFormed'
<1> DEFINE l == loc[p]
           new == [l.snap EXCEPT !.expires = l.at]
           ctx == [l.ctx EXCEPT !.expires = l.at]
<1>1. l.pc = "renew_write" /\ l.ctx \in ClaimContext /\ l.snap \in JobState /\ l.at \in Nat
  BY OwningType DEF RenewWrite, Owning
<1>2. new \in JobState
  BY <1>1 DEF JobState
<1>3. ctx \in ClaimContext
  BY <1>1 DEF ClaimContext
<1>4. CASE ~EtagMatches(p)
  <2>1. Goto(p, Idle) /\ UNCHANGED <<clock, services, claims, faults, observed>>
    BY <1>4 DEF RenewWrite, Return, services
  <2>2. QED
    BY <2>1, IdleType, LocalStep
<1>5. CASE EtagMatches(p)
  <2>1. Put(p, new, Idle) /\ (Fault \/ UNCHANGED faults)
    BY <1>5 DEF RenewWrite
  <2>2. blob' \in [Jobs -> JobState] /\ LocalsOK'
    BY <2>1, <1>2, IdleType, PutLocals
  <2>3. faults' \in 0..MaxFaults
    BY <2>1, FaultType
  <2>4. claims' \in [Procs -> SUBSET ClaimContext]
    <3>1. \/ UNCHANGED claims
          \/ claims' = [claims EXCEPT ![p] = (@ \ {l.ctx}) \cup {ctx}]
      BY <1>5 DEF RenewWrite
    <3> HIDE DEF ctx
    <3>2. QED
      BY <3>1, <1>3 DEF WellFormed, TypeOK
  <2>5. QED
    BY <2>2, <2>3, <2>4 DEF RenewWrite, LocalsOK, WellFormed, TypeOK, observed
<1>6. QED
  BY <1>4, <1>5

\* abandon()'s read keeps the state well-formed.
LEMMA AbandonBeginWF ==
  ASSUME WellFormed, NEW p \in Procs, NEW c \in claims[p], AbandonBegin(p, c)
  PROVE  WellFormed'
<1> DEFINE b == blob[c.tok.job]
           k == [Idle EXCEPT !.pc = "abandon_write", !.ctx = c, !.job = c.tok.job,
                             !.snap = b, !.fresh = TRUE]
<1>1. c \in ClaimContext /\ c.tok.job \in Jobs /\ b \in JobState
  BY ContextType
<1>2. k \in Local
  <2> HIDE DEF b
  <2>1. QED
    BY <1>1, IdleType, LocalSet, StepNames
<1>3. k.pc = "abandon_write" /\ k.ctx = c /\ k.job = c.tok.job /\ k.call = None
  BY DEF Idle
<1>4. LocalsInUse(k)
  <2> HIDE DEF k
  <2>1. QED
    BY <1>1, <1>3, NoneAssumption
       DEF LocalsInUse, Calls, Enqueuing, Triggered, Owning, Completing
<1>5. QED
  BY <1>2, <1>4, LocalStep DEF AbandonBegin

\* abandon() writing the released lease keeps the state well-formed.
LEMMA AbandonWriteWF ==
  ASSUME WellFormed, NEW p \in Procs, AbandonWrite(p)
  PROVE  WellFormed'
<1> DEFINE l == loc[p]
           new == [l.snap EXCEPT !.lease = None, !.expires = 0]
           k == [Idle EXCEPT !.pc = "abandon_queue", !.ctx = l.ctx]
<1>1. l.ctx \in ClaimContext /\ l.ctx.tok \in Token /\ l.snap \in JobState
  BY OwningType DEF AbandonWrite, Owning
<1>2. new \in JobState
  BY <1>1, JobSet
<1>3. k \in Local
  BY <1>1, IdleType, LocalSet, StepNames
<1>4. LocalsInUse(k)
  BY <1>1, NoneAssumption
     DEF LocalsInUse, Idle, Calls, Enqueuing, Triggered, Owning, Completing
<1>5. CASE ~EtagMatches(p)
  <2>1. Goto(p, Idle) /\ UNCHANGED <<clock, services, claims, faults, observed>>
    BY <1>5 DEF AbandonWrite, Return, services, observed
  <2>2. QED
    BY <2>1, IdleType, LocalStep
<1>6. CASE EtagMatches(p)
  <2>1. (Put(p, new, k) \/ Put(p, new, Idle)) /\ (Fault \/ UNCHANGED faults)
    BY <1>6 DEF AbandonWrite
  <2>2. blob' \in [Jobs -> JobState] /\ LocalsOK'
    BY <2>1, <1>2, <1>3, <1>4, IdleType, PutLocals
  <2>3. faults' \in 0..MaxFaults
    BY <2>1, FaultType
  <2>4. released' \subseteq Token
    BY <1>1, <1>6 DEF AbandonWrite, WellFormed, TypeOK
  <2>5. QED
    BY <2>2, <2>3, <2>4 DEF AbandonWrite, LocalsOK, WellFormed, TypeOK
<1>7. QED
  BY <1>5, <1>6

\* abandon() making its trigger visible keeps the state well-formed.
LEMMA AbandonQueueWF ==
  ASSUME WellFormed, NEW p \in Procs, AbandonQueue(p)
  PROVE  WellFormed'
<1> DEFINE l == loc[p]
<1>1. l.ctx.msg \in Msgs /\ clock \in Nat
  BY OwningType DEF AbandonQueue
<1>2. LocalsOK'
  BY IdleType, GotoLocals DEF AbandonQueue, Return
<1>3. QueueOK'
  <2>1. Update(l.ctx.msg, None, clock) \/ UNCHANGED queue
    BY DEF AbandonQueue
  <2>2. QED
    BY <1>1, <2>1, UpdateType DEF QueueOK, WellFormed, TypeOK
<1>4. claims' \in [Procs -> SUBSET ClaimContext]
  BY DEF AbandonQueue, WellFormed, TypeOK
<1>5. faults' \in 0..MaxFaults
  BY FaultType DEF AbandonQueue
<1>6. QED
  BY <1>2, <1>3, <1>4, <1>5 DEF AbandonQueue, LocalsOK, QueueOK, WellFormed, TypeOK, observed

\* complete()'s first read keeps the state well-formed.
LEMMA CompleteBeginWF ==
  ASSUME WellFormed, NEW p \in Procs, NEW c \in claims[p], NEW r \in Results,
         CompleteBegin(p, c, r)
  PROVE  WellFormed'
<1> DEFINE l == [Idle EXCEPT !.ctx = c, !.job = c.tok.job, !.tok = c.tok, !.result = r]
           k(s) == [l EXCEPT !.pc = s]
<1>1. c \in ClaimContext /\ c.tok \in Token /\ c.tok.job \in Jobs
  BY ContextType
<1>2. l \in Local
  BY <1>1, IdleType DEF Local
<1>3. /\ l.ctx = c /\ l.job = c.tok.job /\ l.tok = c.tok /\ l.result = r
      /\ l.call = None /\ l.msg = None
  BY DEF Idle
<1>4. ASSUME NEW s \in {"settle", "verify"}
      PROVE  k(s) \in Local /\ LocalsInUse(k(s))
  <2> HIDE DEF l
  <2>1. s \in Steps
    BY DEF Steps
  <2>2. k(s) \in Local /\ SameRefs(l, k(s)) /\ k(s).pc = s
    BY <1>2, <2>1, GoOnType
  <2> HIDE DEF k
  <2>3. LocalsInUse(k(s))
    BY <1>1, <1>3, <2>2
       DEF LocalsInUse, SameRefs, Enqueuing, Triggered, Owning, Completing
  <2>4. QED
    BY <2>2, <2>3
<1>5. \E s \in {"settle", "verify"} : Goto(p, k(s))
  BY DEF CompleteBegin
<1>6. UNCHANGED <<clock, services, claims, faults, observed>>
  BY DEF CompleteBegin
<1> HIDE DEF k
<1>7. QED
  BY <1>4, <1>5, <1>6, LocalStep

\* A completion goes on, with what it read if it read the job again.
LEMMA CompletingType ==
  ASSUME WellFormed, NEW p \in Procs, loc[p].pc \in Completing,
         NEW s \in Completing, NEW b \in JobState
  PROVE  /\ [loc[p] EXCEPT !.pc = s] \in Local /\ LocalsInUse([loc[p] EXCEPT !.pc = s])
         /\ LET k == [loc[p] EXCEPT !.pc = s, !.snap = b, !.fresh = TRUE]
            IN k \in Local /\ LocalsInUse(k)
<1> DEFINE l == loc[p]
           j == [l EXCEPT !.pc = s]
           k == [l EXCEPT !.pc = s, !.snap = b, !.fresh = TRUE]
<1>1. l \in Local /\ LocalsInUse(l) /\ s \in Steps
  BY LocalsOf DEF Steps, Completing
<1>2. j \in Local /\ SameRefs(l, j) /\ j.pc = s
  <2> HIDE DEF l
  <2>1. QED
    BY <1>1 DEF Local, SameRefs
<1>3. k \in Local /\ SameRefs(l, k) /\ k.pc = s
  <2> HIDE DEF l
  <2>1. QED
    <3>1. k \in Local
      BY <1>1, LocalSet
    <3>2. SameRefs(l, k) /\ k.pc = s
      BY <1>1 DEF Local, SameRefs
    <3> QED
      BY <3>1, <3>2
<1> HIDE DEF j, k
<1>4. LocalsInUse(j) /\ LocalsInUse(k)
  BY <1>1, <1>2, <1>3, OwningLocals
<1>5. QED
  BY <1>2, <1>3, <1>4 DEF j, k

\* complete() after the verifier keeps the state well-formed.
LEMMA VerifyWF ==
  ASSUME WellFormed, NEW p \in Procs, Verify(p)
  PROVE  WellFormed'
<1> DEFINE k == [loc[p] EXCEPT !.pc = "index"]
<1>1. k \in Local /\ LocalsInUse(k)
  BY CompletingType, NoJobType DEF Verify, Completing
<1>2. Goto(p, k) \/ Goto(p, Idle)
  BY DEF Verify, Return
<1>3. UNCHANGED <<clock, services, claims, faults, observed>>
  BY DEF Verify
<1> HIDE DEF k
<1>4. QED
  BY <1>1, <1>2, <1>3, IdleType, LocalStep

\* complete() writing the claim index keeps the state well-formed.
LEMMA WriteClaimIndexWF ==
  ASSUME WellFormed, NEW p \in Procs, WriteClaimIndex(p)
  PROVE  WellFormed'
<1> DEFINE l == loc[p]
           k == [l EXCEPT !.pc = "final_read"]
           entry == [tok |-> l.tok, gen |-> l.tok.gen, attempt |-> l.ctx.attempt]
<1>1. k \in Local /\ LocalsInUse(k)
  BY CompletingType, NoJobType DEF WriteClaimIndex, Completing
<1>2. Goto(p, k) \/ Goto(p, Idle)
  BY DEF WriteClaimIndex, Return
<1>3. LocalsOK'
  <2> HIDE DEF k
  <2>1. QED
    BY <1>1, <1>2, IdleType, GotoLocals
<1>4. entry \in ClaimIndex
  <2>1. l.ctx \in ClaimContext /\ l.tok = l.ctx.tok
    BY LocalsOf DEF WriteClaimIndex, LocalsInUse, Owning, Completing
  <2>2. QED
    BY <2>1 DEF ClaimContext, ClaimIndex, Token
<1>5. index' \subseteq ClaimIndex
  BY <1>4 DEF WriteClaimIndex, WellFormed, TypeOK
<1>6. faults' \in 0..MaxFaults
  BY FaultType DEF WriteClaimIndex
<1>7. QED
  BY <1>3, <1>5, <1>6 DEF WriteClaimIndex, LocalsOK, WellFormed, TypeOK, observed

\* complete()'s last read keeps the state well-formed.
LEMMA FinalReadWF ==
  ASSUME WellFormed, NEW p \in Procs, FinalRead(p)
  PROVE  WellFormed'
<1> DEFINE k == [loc[p] EXCEPT !.pc = "accept", !.snap = blob[loc[p].job], !.fresh = TRUE]
<1>1. loc[p].pc = "final_read" /\ blob[loc[p].job] \in JobState
  BY OwningType DEF FinalRead, Owning, Completing
<1>2. k \in Local /\ LocalsInUse(k)
  BY <1>1, CompletingType DEF Completing
<1>3. Goto(p, k) \/ Goto(p, Idle)
  BY DEF FinalRead, Return
<1>4. UNCHANGED <<clock, services, claims, faults, observed>>
  BY DEF FinalRead
<1> HIDE DEF k
<1>5. QED
  BY <1>2, <1>3, <1>4, IdleType, LocalStep

\* complete() writing the accepted result keeps the state well-formed.
LEMMA AcceptWF ==
  ASSUME WellFormed, NEW p \in Procs, Accept(p)
  PROVE  WellFormed'
<1> DEFINE l == loc[p]
           new == [l.snap EXCEPT !.accGen = l.ctx.tok.gen, !.accAttempt = l.ctx.attempt,
                                 !.accTok = l.tok, !.accResult = l.result,
                                 !.pending = TRUE, !.sent = FALSE]
           k == [l EXCEPT !.pc = "settle", !.snap = NoJob, !.fresh = FALSE]
<1>1. l \in Local /\ LocalsInUse(l) /\ l.pc = "accept"
  BY LocalsOf DEF Accept
<1>2. /\ l.ctx \in ClaimContext /\ l.snap \in JobState /\ l.tok \in Token
      /\ l.result \in Results /\ l.ctx.attempt \in Nat /\ l.ctx.tok.gen \in Nat
  BY <1>1, OwningType DEF LocalsInUse, Owning, Completing, ClaimContext, Token
<1>3. new \in JobState
  <2> HIDE DEF l
  <2>1. QED
    BY <1>2, JobSet
<1>4. k \in Local /\ SameRefs(l, k) /\ k.pc = "settle"
  <2> HIDE DEF l
  <2>1. k \in Local
    BY <1>1, NoJobType, LocalSet, StepNames
  <2>2. SameRefs(l, k) /\ k.pc = "settle"
    BY <1>1 DEF Local, SameRefs
  <2>3. QED
    BY <2>1, <2>2
<1>5. LocalsInUse(k)
  <2> HIDE DEF k
  <2>1. QED
    BY <1>1, <1>4, OwningLocals DEF Completing
<1>6. CASE ~EtagMatches(p)
  <2>1. Goto(p, Idle) /\ UNCHANGED <<clock, services, claims, faults, observed>>
    BY <1>6 DEF Accept, Return, services
  <2>2. QED
    BY <2>1, IdleType, LocalStep
<1>7. CASE EtagMatches(p)
  <2>1. /\ Put(p, new, k) \/ Put(p, new, Idle)
        /\ Fault \/ UNCHANGED faults
        /\ UNCHANGED <<clock, queue, index, cursor, claims, observed>>
    BY <1>7 DEF Accept
  <2> HIDE DEF k, new
  <2>2. QED
    BY <2>1, <1>3, <1>4, <1>5, IdleType, BlobStep
<1>8. QED
  BY <1>6, <1>7

\* _settle deleting the trigger and dropping the context keeps the state
\* well-formed.
LEMMA SettleWF ==
  ASSUME WellFormed, NEW p \in Procs, Settle(p)
  PROVE  WellFormed'
<1> DEFINE l == loc[p]
           k == Recovering("complete", l.tok, l.result)
<1>1. l.ctx.msg \in Msgs /\ l.tok \in Token /\ l.result \in Results
  BY OwningType, LocalsOf DEF Settle, LocalsInUse, Owning, Completing, ClaimContext
<1>2. k \in Local /\ LocalsInUse(k)
  BY <1>1, RecoveringType DEF Calls
<1>3. Goto(p, k) \/ Goto(p, Idle)
  BY DEF Settle, Return
<1>4. LocalsOK'
  <2> HIDE DEF k
  <2>1. QED
    BY <1>2, <1>3, IdleType, GotoLocals
<1>5. QueueOK'
  BY <1>1, DeleteType DEF Settle, QueueOK, WellFormed, TypeOK
<1>6. claims' \in [Procs -> SUBSET ClaimContext]
  BY DEF Settle, WellFormed, TypeOK
<1>7. faults' \in 0..MaxFaults
  BY FaultType DEF Settle
<1>8. QED
  BY <1>4, <1>5, <1>6, <1>7
     DEF Settle, LocalsOK, QueueOK, WellFormed, TypeOK, observed

\* A retried complete() without its context keeps the state well-formed.
LEMMA CompleteRetryWF ==
  ASSUME WellFormed, NEW p \in Procs, NEW e \in index, NEW r \in Results,
         CompleteRetry(p, e, r)
  PROVE  WellFormed'
<1> DEFINE k == [Idle EXCEPT !.pc = "find", !.job = e.tok.job, !.tok = e.tok,
                             !.result = r, !.at = e.attempt]
<1>1. e.tok \in Token /\ e.tok.job \in Jobs /\ e.attempt \in Nat
  BY DEF WellFormed, TypeOK, ClaimIndex, Token
<1>2. k \in Local
  BY <1>1, IdleType, LocalSet, StepNames
<1>3. /\ k.pc = "find" /\ k.job = e.tok.job /\ k.tok = e.tok /\ k.result = r
      /\ k.fresh = FALSE
  BY DEF Idle
<1>4. LocalsInUse(k)
  <2> HIDE DEF k
  <2>1. QED
    BY <1>1, <1>3 DEF LocalsInUse, Enqueuing, Triggered, Owning, Completing
<1>5. QED
  BY <1>2, <1>4, LocalStep DEF CompleteRetry

\* _find_accepted_claim reading the job keeps the state well-formed.
LEMMA FindAcceptedWF ==
  ASSUME WellFormed, NEW p \in Procs, FindAccepted(p)
  PROVE  WellFormed'
<1> DEFINE k == Recovering("complete", loc[p].tok, loc[p].result)
<1>1. loc[p].tok \in Token /\ loc[p].result \in Results
  BY LocalsOf DEF FindAccepted, LocalsInUse
<1>2. k \in Local /\ LocalsInUse(k)
  BY <1>1, RecoveringType DEF Calls
<1>3. Goto(p, k) \/ Goto(p, Idle)
  BY DEF FindAccepted, Return
<1>4. UNCHANGED <<clock, services, claims, faults, observed>>
  BY DEF FindAccepted
<1> HIDE DEF k
<1>5. QED
  BY <1>2, <1>3, <1>4, IdleType, LocalStep

\* The start of recover_notifications() keeps the state well-formed.
LEMMA RecoverBeginWF ==
  ASSUME WellFormed, NEW p \in Procs, RecoverBegin(p)
  PROVE  WellFormed'
<1>1. LET k == Recovering("recover", None, None) IN k \in Local /\ LocalsInUse(k)
  BY RecoveringType DEF Calls
<1>2. QED
  BY <1>1, LocalStep DEF RecoverBegin

\* Between two requests a recovery refers to no job.
LEMMA RecoveryLocals ==
  ASSUME NEW l \in Local, NEW k \in Local, LocalsInUse(l),
         k.call = l.call, k.tok = l.tok, k.result = l.result,
         k.pc \in {"list", "scan"}, k.fresh => k.job \in Jobs
  PROVE  LocalsInUse(k)
BY DEF LocalsInUse, Enqueuing, Triggered, Owning, Completing

\* recover_notifications() reading its cursor keeps the state well-formed.
LEMMA ReadCursorWF ==
  ASSUME WellFormed, NEW p \in Procs, ReadCursor(p)
  PROVE  WellFormed'
<1> DEFINE l == loc[p]
           k == [l EXCEPT !.pc = "list", !.next = cursor, !.cfresh = TRUE]
<1>1. l \in Local /\ LocalsInUse(l) /\ cursor \in Jobs \cup {0}
  BY LocalsOf DEF WellFormed, TypeOK
<1>2. /\ k \in Local /\ k.call = l.call /\ k.tok = l.tok /\ k.result = l.result
      /\ k.pc = "list" /\ k.fresh = l.fresh /\ k.job = l.job
  <2> HIDE DEF l
  <2>1. k \in Local
    BY <1>1, LocalSet, StepNames
  <2>2. /\ k.call = l.call /\ k.tok = l.tok /\ k.result = l.result
        /\ k.pc = "list" /\ k.fresh = l.fresh /\ k.job = l.job
    BY <1>1 DEF Local
  <2>3. QED
    BY <2>1, <2>2
<1>3. LocalsInUse(k)
  <2>1. l.fresh => l.job \in Jobs
    BY <1>1 DEF LocalsInUse
  <2> HIDE DEF k, l
  <2>2. QED
    BY <1>1, <1>2, <2>1, RecoveryLocals
<1>4. QED
  BY <1>2, <1>3, LocalStep DEF ReadCursor

\* recover_notifications() listing a page of jobs keeps the state well-formed.
LEMMA ListPageWF ==
  ASSUME WellFormed, NEW p \in Procs, ListPage(p)
  PROVE  WellFormed'
<1> DEFINE l == loc[p]
           k(page, next) == [l EXCEPT !.pc = "scan", !.page = page, !.next = next]
<1>1. l \in Local /\ LocalsInUse(l)
  BY LocalsOf
<1>2. ASSUME NEW page \in SUBSET Jobs, NEW next \in Jobs \cup {0}
      PROVE  k(page, next) \in Local /\ LocalsInUse(k(page, next))
  <2> DEFINE h == k(page, next)
  <2>1. /\ h \in Local /\ h.call = l.call /\ h.tok = l.tok /\ h.result = l.result
        /\ h.pc = "scan" /\ h.fresh = l.fresh /\ h.job = l.job
    <3> HIDE DEF l
    <3>1. h \in Local
      BY <1>1, LocalSet, StepNames
    <3>2. /\ h.call = l.call /\ h.tok = l.tok /\ h.result = l.result
          /\ h.pc = "scan" /\ h.fresh = l.fresh /\ h.job = l.job
      BY <1>1 DEF Local
    <3>3. QED
      BY <3>1, <3>2
  <2>2. l.fresh => l.job \in Jobs
    BY <1>1 DEF LocalsInUse
  <2> HIDE DEF h, l
  <2>3. LocalsInUse(h)
    BY <1>1, <2>1, <2>2, RecoveryLocals
  <2>4. QED
    BY <2>1, <2>3 DEF h
<1>3. \E page \in SUBSET Jobs, next \in Jobs \cup {0} : Goto(p, k(page, next))
  <2> DEFINE from == {j \in Jobs : blob[j].exists /\ j >= l.next}
             page == {j \in from : Cardinality({i \in from : i < j}) < ScanLimit}
  <2>1. \E next \in Jobs \cup {0} : Goto(p, k(page, next))
    BY DEF ListPage
  <2>2. page \in SUBSET Jobs
    OBVIOUS
  <2> HIDE DEF page, k
  <2>3. QED
    BY <2>1, <2>2
<1>4. UNCHANGED <<clock, services, claims, faults, observed>>
  BY DEF ListPage
<1> HIDE DEF k
<1>5. QED
  BY <1>2, <1>3, <1>4, LocalStep

\* The locals of a recovery that is done with a job.
LEMMA ScannedLocal ==
  ASSUME NEW l \in Local
  PROVE  Scanned(l) \in Local
BY NoJobType, StepNames DEF Scanned, Local
\* A recovery is done with the job it scanned.
LEMMA ScannedType ==
  ASSUME NEW l \in Local, LocalsInUse(l)
  PROVE  Scanned(l) \in Local /\ LocalsInUse(Scanned(l))
<1>1. Scanned(l) \in Local
  BY ScannedLocal
<1>2. /\ Scanned(l).call = l.call /\ Scanned(l).tok = l.tok /\ Scanned(l).result = l.result
      /\ Scanned(l).pc = "scan" /\ ~Scanned(l).fresh
  BY DEF Scanned, Local
<1>3. QED
  BY <1>1, <1>2, RecoveryLocals

\* recover_notifications() reading the next job of its page keeps the state
\* well-formed.
LEMMA ScanWF ==
  ASSUME WellFormed, NEW p \in Procs, Scan(p)
  PROVE  WellFormed'
<1> DEFINE l == loc[p]
           read(j) == [l EXCEPT !.pc = "notify", !.job = j, !.snap = blob[j], !.fresh = TRUE]
<1>1. l \in Local /\ LocalsInUse(l)
  BY LocalsOf
<1>2. ASSUME NEW j \in l.page
      PROVE  /\ read(j) \in Local /\ Scanned(read(j)) \in Local
             /\ LocalsInUse(Scanned(read(j)))
             /\ blob[j].accAttempt # None /\ blob[j].accResult # None => LocalsInUse(read(j))
  <2> DEFINE b == blob[j]
             k == read(j)
  <2>1. j \in Jobs
    BY <1>1 DEF Local
  <2>2. b \in JobState
    BY <2>1 DEF WellFormed, TypeOK
  <2>3. /\ k \in Local /\ k.call = l.call /\ k.tok = l.tok /\ k.result = l.result
        /\ k.pc = "notify" /\ k.job = j /\ k.snap = b
    <3> HIDE DEF l
    <3>1. k \in Local
      BY <1>1, <2>1, <2>2, LocalSet, StepNames
    <3>2. /\ k.call = l.call /\ k.tok = l.tok /\ k.result = l.result
          /\ k.pc = "notify" /\ k.job = j /\ k.snap = b
      BY <1>1 DEF Local
    <3>3. QED
      BY <3>1, <3>2
  <2> HIDE DEF k, b, l
  <2>4. b.accAttempt # None /\ b.accResult # None => LocalsInUse(k)
    BY <1>1, <2>1, <2>3 DEF LocalsInUse, Enqueuing, Triggered, Owning, Completing
  <2>5. Scanned(k) \in Local
    BY <2>3, ScannedLocal
  <2>6. /\ Scanned(k).call = k.call /\ Scanned(k).tok = k.tok
        /\ Scanned(k).result = k.result /\ Scanned(k).pc = "scan" /\ ~Scanned(k).fresh
    BY <2>3 DEF Scanned, Local
  <2>7. LocalsInUse(Scanned(k))
    BY <1>1, <2>3, <2>5, <2>6, RecoveryLocals
  <2>8. QED
    BY <2>3, <2>4, <2>5, <2>7 DEF k, b
<1>3. PICK j \in l.page :
        \/ /\ blob[j].accAttempt # None /\ blob[j].accResult # None
           /\ Goto(p, read(j))
        \/ Goto(p, Scanned(read(j)))
  BY DEF Scan
<1>4. UNCHANGED <<clock, services, claims, faults, observed>>
  BY DEF Scan
<1> HIDE DEF read
<1>5. QED
  BY <1>2, <1>3, <1>4, LocalStep

\* A notifier that raises keeps the state well-formed.
LEMMA NotifyRaisedWF ==
  ASSUME WellFormed, NEW p \in Procs, NotifyRaised(p)
  PROVE  WellFormed'
BY LocalsOf, ScannedType, LocalStep DEF NotifyRaised

\* A notifier that delivers keeps the state well-formed.
LEMMA NotifyWF ==
  ASSUME WellFormed, NEW p \in Procs, NEW j \in Jobs, Notify(p, j)
  PROVE  WellFormed'
<1> DEFINE l == loc[p]
           k == [l EXCEPT !.pc = "mark"]
           n == [job |-> j, attempt |-> l.snap.accAttempt, result |-> l.snap.accResult]
<1>1. l \in Local /\ LocalsInUse(l) /\ l.pc = "notify"
  BY LocalsOf DEF Notify
<1>2. k \in Local /\ SameRefs(l, k) /\ k.pc = "mark" /\ k.snap = l.snap /\ k.fresh = l.fresh
  BY <1>1, GoOnType DEF Steps
<1>3. LocalsInUse(k)
  <2> HIDE DEF k, l
  <2>1. QED
    BY <1>1, <1>2 DEF LocalsInUse, SameRefs, Enqueuing, Triggered, Owning, Completing
<1>4. Goto(p, k) \/ Goto(p, Scanned(l))
  BY DEF Notify
<1>5. LocalsOK'
  <2> HIDE DEF k
  <2>1. QED
    BY <1>1, <1>2, <1>3, <1>4, ScannedType, GotoLocals
<1>6. n \in Notification
  BY <1>1 DEF LocalsInUse, Local, JobState, Notification
<1>7. notified' \subseteq Notification
  BY <1>6 DEF Notify, WellFormed, TypeOK
<1>8. faults' \in 0..MaxFaults
  BY FaultType DEF Notify
<1>9. QED
  BY <1>5, <1>7, <1>8 DEF Notify, LocalsOK, WellFormed, TypeOK, services

\* recover_notifications() marking a job as notified keeps the state
\* well-formed.
LEMMA MarkSentWF ==
  ASSUME WellFormed, NEW p \in Procs, MarkSent(p)
  PROVE  WellFormed'
<1> DEFINE l == loc[p]
           new == [l.snap EXCEPT !.pending = FALSE, !.sent = TRUE]
<1>1. l \in Local /\ LocalsInUse(l)
  BY LocalsOf
<1>2. new \in JobState
  <2>1. l.snap \in JobState
    BY <1>1 DEF Local
  <2> HIDE DEF l
  <2> QED
    BY <2>1, JobSet
<1>3. CASE ~EtagMatches(p)
  <2>1. Goto(p, Scanned(l)) /\ UNCHANGED <<clock, services, claims, faults, observed>>
    BY <1>3 DEF MarkSent, services
  <2>2. QED
    BY <1>1, <2>1, ScannedType, LocalStep
<1>4. CASE EtagMatches(p)
  <2>1. /\ Put(p, new, Scanned(l)) \/ Put(p, new, Idle)
        /\ Fault \/ UNCHANGED faults
        /\ UNCHANGED <<clock, queue, index, cursor, claims, observed>>
    BY <1>4 DEF MarkSent
  <2> HIDE DEF new
  <2>2. QED
    BY <1>1, <1>2, <2>1, ScannedType, IdleType, BlobStep
<1>5. QED
  BY <1>3, <1>4

\* A worker that moved the cursor makes the others' reads of it stale.
LEMMA AdvanceCursorWF ==
  ASSUME WellFormed, NEW p \in Procs, AdvanceCursor(p)
  PROVE  WellFormed'
<1> DEFINE l == loc[p]
           receive == [Idle EXCEPT !.pc = "receive"]
           done == IF l.call = "claim" THEN receive ELSE Idle
<1>1. l \in Local /\ LocalsInUse(l)
  BY LocalsOf
<1>2. receive \in Local
  BY IdleType, LocalSet, StepNames
<1>3. LocalsInUse(receive)
  BY NoneAssumption
     DEF LocalsInUse, Idle, Calls, Enqueuing, Triggered, Owning, Completing
<1>4. done \in Local /\ LocalsInUse(done)
  BY <1>2, <1>3, IdleType
<1>5. LocalsOK'
  <2>1. PICK k \in {done, Idle} :
          \/ Goto(p, k)
          \/ loc' = [q \in Procs |-> IF q = p THEN k ELSE [loc[q] EXCEPT !.cfresh = FALSE]]
    BY DEF AdvanceCursor, MoveCursor
  <2> HIDE DEF done
  <2>2. k \in Local /\ LocalsInUse(k)
    BY <1>4, IdleType
  <2>3. CASE Goto(p, k)
    BY <2>2, <2>3, GotoLocals
  <2>4. CASE loc' = [q \in Procs |-> IF q = p THEN k ELSE [loc[q] EXCEPT !.cfresh = FALSE]]
    <3>1. ASSUME NEW q \in Procs
          PROVE  LET stale == [loc[q] EXCEPT !.cfresh = FALSE]
                 IN stale \in Local /\ LocalsInUse(stale)
      <4>1. loc[q] \in Local /\ LocalsInUse(loc[q])
        BY LocalsOf
      <4> DEFINE l2 == loc[q]
                 stale == [l2 EXCEPT !.cfresh = FALSE]
      <4> HIDE DEF l2
      <4>2. stale \in Local
        BY <4>1 DEF Local, l2
      <4>3. LocalsInUse(stale)
        BY <4>1 DEF Local, LocalsInUse, l2
      <4>4. QED
        BY <4>2, <4>3 DEF l2
    <3>2. QED
      BY <2>2, <2>4, <3>1 DEF LocalsOK
  <2>5. QED
    BY <2>1, <2>3, <2>4
<1>6. cursor' \in Jobs \cup {0}
  BY <1>1 DEF AdvanceCursor, MoveCursor, Local, WellFormed, TypeOK
<1>7. acked' \subseteq Completion
  <2>1. l.call = "complete" => [tok |-> l.tok, result |-> l.result] \in Completion
    BY <1>1 DEF LocalsInUse, Completion
  <2>2. QED
    BY <2>1 DEF AdvanceCursor, WellFormed, TypeOK
<1>9. faults' \in 0..MaxFaults
  BY FaultType DEF AdvanceCursor
<1>8. QED
  BY <1>5, <1>6, <1>7, <1>9 DEF AdvanceCursor, LocalsOK, WellFormed, TypeOK

\* The clock keeps the state well-formed.
LEMMA TickWF == WellFormed /\ Tick => WellFormed'
<1> SUFFICES ASSUME WellFormed, Tick
             PROVE  WellFormed'
  OBVIOUS
<1>1. CASE clock' = clock + 1 /\ clock < MaxClock /\ UNCHANGED queue
  <2>1. clock' \in 0..MaxClock
    BY <1>1, BoundsAssumption DEF WellFormed, TypeOK
  <2>2. QED
    BY <1>1, <2>1 DEF Tick, WellFormed, TypeOK, observed
<1>2. CASE /\ UNCHANGED clock
           /\ queue' = [m \in Msgs |-> [queue[m] EXCEPT !.visible =
                                          IF @ > clock THEN @ - 1 ELSE @]]
  <2> DEFINE v(m) == IF queue[m].visible > clock THEN queue[m].visible - 1
                     ELSE queue[m].visible
  <2>1. QueueOK
    BY DEF QueueOK, WellFormed, TypeOK
  <2>2. clock \in Nat
    BY BoundsAssumption DEF WellFormed, TypeOK
  <2>3. \A m \in Msgs : v(m) \in Nat
    BY <2>1, <2>2 DEF QueueOK, Message
  <2>4. queue' = [m \in Msgs |-> [queue[m] EXCEPT !.visible = v(m)]]
    BY <1>2
  <2> HIDE DEF v
  <2>5. \A m \in Msgs : /\ queue'[m] \in Message
                        /\ queue'[m].st = queue[m].st /\ queue'[m].job = queue[m].job
    BY <2>1, <2>3, <2>4 DEF QueueOK, Message
  <2>6. QueueOK'
    <3>1. queue' = [m \in Msgs |-> queue'[m]]
      BY <2>4
    <3>2. QED
      BY <2>1, <2>5, <3>1 DEF QueueOK
  <2>7. QED
    BY <1>2, <2>6 DEF Tick, QueueOK, WellFormed, TypeOK, observed
<1>3. QED
  BY <1>1, <1>2 DEF Tick

\* A request that fails without effect keeps the state well-formed.
LEMMA FailWF ==
  ASSUME WellFormed, NEW p \in Procs, Fail(p)
  PROVE  WellFormed'
<1>1. LocalsOK'
  BY IdleType, GotoLocals DEF Fail, Return
<1>2. faults' \in 0..MaxFaults
  BY FaultType DEF Fail
<1>3. QED
  BY <1>1, <1>2 DEF Fail, LocalsOK, WellFormed, TypeOK, services, observed

\* A crash and restart of a process keeps the state well-formed.
LEMMA CrashWF ==
  ASSUME WellFormed, NEW p \in Procs, Crash(p)
  PROVE  WellFormed'
<1>1. LocalsOK'
  BY IdleType, GotoLocals DEF Crash, Return
<1>2. faults' \in 0..MaxFaults
  BY FaultType DEF Crash
<1>3. claims' \in [Procs -> SUBSET ClaimContext]
  BY DEF Crash, WellFormed, TypeOK
<1>4. QED
  BY <1>1, <1>2, <1>3 DEF Crash, LocalsOK, WellFormed, TypeOK, services, observed

\* Init is well-formed.
LEMMA InitWF == Init => WellFormed
<1> SUFFICES ASSUME Init PROVE WellFormed
  OBVIOUS
<1>1. blob \in [Jobs -> JobState] /\ loc \in [Procs -> Local]
  BY NoJobType, IdleType DEF Init
<1>2. queue \in [Msgs -> Message]
  BY DEF Init, Message
<1>3. clock \in 0..MaxClock /\ faults \in 0..MaxFaults
  BY BoundsAssumption DEF Init
<1>4. TypeOK
  BY <1>1, <1>2, <1>3 DEF Init, TypeOK
<1>5. \A p \in Procs : LocalsInUse(loc[p])
  BY IdleType DEF Init
<1>6. \A m \in Msgs : queue[m].st = "queued" => queue[m].job \in Jobs
  BY DEF Init
<1>7. QED
  BY <1>4, <1>5, <1>6 DEF WellFormed

\* A stuttering step keeps the state well-formed.
LEMMA StutterWF == WellFormed /\ UNCHANGED vars => WellFormed'
BY DEF vars, services, observed, WellFormed, TypeOK

\* Every step of every call, of the clock and of the environment keeps the
\* state well-formed.
LEMMA NextWF == WellFormed /\ [Next]_vars => WellFormed'
<1> SUFFICES ASSUME WellFormed, Next PROVE WellFormed'
  BY StutterWF
<1>1. CASE Tick
  BY <1>1, TickWF
<1>2. ASSUME NEW p \in Procs, Begin(p) PROVE WellFormed'
  BY <1>2, EnqueueBeginWF, ClaimBeginWF, RenewBeginWF, AbandonBeginWF, CompleteBeginWF,
     CompleteRetryWF, RecoverBeginWF DEF Begin
<1>3. ASSUME NEW p \in Procs, Continue(p) PROVE WellFormed'
  <2>1. CASE \/ EnqueueCreate(p) \/ EnqueueRead(p) \/ EnqueueSend(p)
             \/ Receive(p) \/ ClaimRead(p) \/ Drain(p) \/ Terminate(p) \/ Discard(p)
             \/ ClaimWrite(p)
    BY <2>1, EnqueueCreateWF, EnqueueReadWF, EnqueueSendWF, ReceiveWF, ClaimReadWF,
       DrainWF, TerminateWF, DiscardWF, ClaimWriteWF
  <2>2. CASE \/ RenewQueue(p) \/ RenewRead(p) \/ RenewWrite(p)
             \/ AbandonWrite(p) \/ AbandonQueue(p)
    BY <2>2, RenewQueueWF, RenewReadWF, RenewWriteWF, AbandonWriteWF, AbandonQueueWF
  <2>3. CASE \/ Verify(p) \/ WriteClaimIndex(p) \/ FinalRead(p) \/ Accept(p) \/ Settle(p)
             \/ FindAccepted(p)
    BY <2>3, VerifyWF, WriteClaimIndexWF, FinalReadWF, AcceptWF, SettleWF, FindAcceptedWF
  <2>4. CASE \/ ReadCursor(p) \/ ListPage(p) \/ Scan(p) \/ NotifyRaised(p)
             \/ (\E j \in Jobs : Notify(p, j)) \/ MarkSent(p) \/ AdvanceCursor(p)
    BY <2>4, ReadCursorWF, ListPageWF, ScanWF, NotifyRaisedWF, NotifyWF, MarkSentWF,
       AdvanceCursorWF
  <2>5. QED
    BY <1>3, <2>1, <2>2, <2>3, <2>4 DEF Continue
<1>4. ASSUME NEW p \in Procs, Fail(p) \/ Crash(p) PROVE WellFormed'
  BY <1>4, FailWF, CrashWF
<1>5. QED
  BY <1>1, <1>2, <1>3, <1>4 DEF Next

\* Every state the processes, the queue and the blob store can reach is
\* well-formed: no call uses a local, a receipt or a context it has not got.
THEOREM WellFormedAlways == Spec => []WellFormed
BY InitWF, NextWF, PTL DEF Spec

\* The type invariant.
THEOREM TypeCorrect == Spec => []TypeOK
<1>1. WellFormed => TypeOK
  BY DEF WellFormed
<1>2. QED
  BY <1>1, WellFormedAlways, PTL

-----------------------------------------------------------------------------
(* The invariant.                                                          *)

\* What any write of a job respects.
JobKept(b, n) ==
  /\ b.exists => n.exists
  /\ b.gen <= n.gen
  /\ b.accResult # None =>
       n.accResult = b.accResult /\ n.accTok = b.accTok /\ n.accAttempt = b.accAttempt
  /\ b.terminal # None => n.terminal = b.terminal
  /\ b.accResult # None \/ b.terminal # None => n.gen = b.gen /\ n.attempt = b.attempt

\* A step keeps the invariant, and what is final in every job.
Safe == IInv' /\ \A j \in Jobs : JobKept(blob[j], blob'[j])

\* The lease, once there is one, is the job's own.
LeaseOK(j, b) ==
  /\ b.gen = b.attempt /\ b.attempt <= MaxAttempts
  /\ b.lease # None => b.lease.job = j /\ b.lease.gen = b.gen

\* AcceptedUnderCurrentClaim and CompletionReplayable of one job state.
AcceptedOK(b, rel, idx) ==
  b.accResult # None =>
    /\ b.accResult \in Good /\ b.terminal = None
    /\ b.accTok = b.lease /\ b.accGen = b.gen /\ b.accAttempt = b.attempt
    /\ b.accTok \notin rel
    /\ [tok |-> b.accTok, gen |-> b.accGen, attempt |-> b.accAttempt] \in idx

\* The invariant, for one job.
LEMMA JobsOfIInv ==
  ASSUME IInv, NEW j \in Jobs
  PROVE  /\ blob[j] \in JobState
         /\ ~blob[j].exists => blob[j] = NoJob
         /\ LeaseOK(j, blob[j]) /\ blob[j].lease \notin released
         /\ AcceptedOK(blob[j], released, index)
<1>1. blob[j] \in JobState
  BY DEF IInv, WellFormed, TypeOK
<1>2. JobOK(j)
  BY DEF IInv
<1>3. AcceptedOK(blob[j], released, index)
  BY DEF IInv, AcceptedUnderCurrentClaim, CompletionReplayable, Accepted, Terminal, AcceptedOK
<1>4. QED
  BY <1>1, <1>2, <1>3 DEF JobOK, LeaseOK

\* Nothing changes for a job that is not written.
LEMMA KeptReflexive ==
  ASSUME NEW b \in JobState
  PROVE  JobKept(b, b)
BY DEF JobKept, JobState

\* The decision of a call that is between two requests without a snapshot.
LEMMA IdleDecision == DecisionOK(Idle, blob', index')
BY DEF DecisionOK, Idle, Triggered, Owning, Completing

\* So is that of a call that begins its recovery.
LEMMA RecoveringDecision ==
  ASSUME NEW c, NEW t, NEW r
  PROVE  DecisionOK(Recovering(c, t, r), blob', index')
BY DEF DecisionOK, Recovering, Idle, Triggered, Owning, Completing

\* No job is written and no claim registered or released: only the decision
\* of the process that moves is left to show.
LEMMA QuietStep ==
  ASSUME IInv, WellFormed',
         UNCHANGED <<blob, released>>, index \subseteq index',
         \A q \in Procs : claims'[q] \subseteq claims[q],
         \A m \in Msgs : queue'[m].st = "queued" => blob[queue'[m].job].exists,
         \A q \in Procs : DecisionOK(loc'[q], blob', index') \/ loc'[q] = loc[q]
  PROVE  Safe
<1>1. \A q \in Procs : DecisionOK(loc'[q], blob', index')
  <2> SUFFICES ASSUME NEW q \in Procs, loc'[q] = loc[q]
               PROVE  DecisionOK(loc'[q], blob', index')
    OBVIOUS
  <2>1. DecisionOK(loc[q], blob, index)
    BY DEF IInv
  <2>2. QED
    BY <2>1 DEF DecisionOK
<1>2. ASSUME NEW j \in Jobs
      PROVE  /\ ~blob'[j].exists => blob'[j] = NoJob
             /\ LeaseOK(j, blob'[j]) /\ blob'[j].lease \notin released'
             /\ AcceptedOK(blob'[j], released', index')
  BY JobsOfIInv DEF AcceptedOK
<1>3. \A m \in Msgs : queue'[m].st = "queued" => blob'[queue'[m].job].exists
  BY DEF IInv
<1>4. \A q \in Procs : \A c \in claims'[q] : c.attempt = c.tok.gen
  BY DEF IInv
<1>5. \A t \in released' : t.gen <= blob'[t.job].gen
  BY DEF IInv
<1>6. IInv'
  <2>1. \A j \in Jobs : LeaseOK(j, blob[j])'
    BY <1>2 DEF LeaseOK
  <2>2. \A j \in Jobs : AcceptedOK(blob[j], released, index)'
    BY <1>2 DEF AcceptedOK
  <2>3. \A j \in Jobs : JobOK(j)'
    BY <1>2, <2>1 DEF JobOK, LeaseOK, NoJob
  <2>4. AcceptedUnderCurrentClaim' /\ CompletionReplayable'
    BY <2>2 DEF AcceptedUnderCurrentClaim, CompletionReplayable, AcceptedOK, Accepted, Terminal
  <2>5. QED
    BY <1>1, <1>3, <1>4, <1>5, <2>3, <2>4 DEF IInv
<1>7. QED
  BY <1>6, JobsOfIInv, KeptReflexive DEF Safe

\* The same for a step of one process that changes neither queue nor claims.
LEMMA LocalSafe ==
  ASSUME IInv, WellFormed', NEW p \in Procs, NEW l, Goto(p, l), DecisionOK(l, blob', index'),
         UNCHANGED <<blob, queue, index, claims, released>>
  PROVE  Safe
<1>1. loc \in [Procs -> Local]
  BY DEF IInv, WellFormed, TypeOK
<1>2. \A q \in Procs : DecisionOK(loc'[q], blob', index') \/ loc'[q] = loc[q]
  BY <1>1 DEF Goto
<1>3. QED
  BY <1>2, QuietStep DEF IInv

\* Receipts, deletions and renewals leave every message with its job.
LEMMA QueueRefs ==
  ASSUME IInv, NEW m \in Msgs,
         \/ UNCHANGED queue
         \/ Delete(m)
         \/ \E who, v : Update(m, who, v)
  PROVE  \A i \in Msgs : queue'[i].st = "queued" =>
                           queue[i].st = "queued" /\ queue'[i].job = queue[i].job
<1>1. queue \in [Msgs -> Message]
  BY DEF IInv, WellFormed, TypeOK
<1>2. CASE UNCHANGED queue
  BY <1>2
<1>3. CASE Delete(m)
  BY <1>1, <1>3 DEF Delete
<1>4. ASSUME NEW who, NEW v, Update(m, who, v)
      PROVE  \A i \in Msgs : queue'[i].st = queue[i].st /\ queue'[i].job = queue[i].job
  <2>1. queue' = [queue EXCEPT ![m] = [[queue[m] EXCEPT !.holder = who] EXCEPT !.visible = v]]
    BY <1>1, <1>4 DEF Update
  <2>2. QED
    BY <1>1, <2>1 DEF Message
<1>5. QED
  BY <1>2, <1>3, <1>4

\* A process whose job is written by another one loses its ETag, and with it
\* its claim to know the job; the others are not concerned.
LEMMA WriteDecisions ==
  ASSUME IInv, NEW p \in Procs, NEW n \in JobState, NEW l \in Local,
         Put(p, n, l), loc[p].job \in Jobs, n.exists, index \subseteq index',
         NEW q \in Procs, q # p
  PROVE  DecisionOK(loc'[q], blob', index')
<1> DEFINE j == loc[p].job
           k == loc[q]
<1>1. DecisionOK(k, blob, index) /\ k \in Local /\ LocalsInUse(k)
  BY LocalsOf DEF IInv
<1>2. \A i \in Jobs : blob'[i] = IF i = j THEN n ELSE blob[i]
  BY DEF Put, IInv, WellFormed, TypeOK
<1>3. CASE k.job = j
  <2>1. loc'[q] = [k EXCEPT !.fresh = FALSE]
    BY <1>3 DEF Put
  <2>2. /\ ~loc'[q].fresh /\ loc'[q].pc = k.pc /\ loc'[q].job = j /\ loc'[q].snap = k.snap
        /\ loc'[q].ctx = k.ctx /\ loc'[q].tok = k.tok /\ loc'[q].result = k.result
    <3> HIDE DEF k
    <3>1. QED
      BY <1>1, <1>3, <2>1 DEF Local
  <2>3. blob'[loc'[q].job].exists
    BY <1>2, <2>2
  <2> HIDE DEF k
  <2>4. QED
    BY <1>1, <2>2, <2>3 DEF DecisionOK
<1>4. CASE k.job # j
  <2>1. loc'[q] = k
    BY <1>4 DEF Put
  <2>2. k.job \in Jobs => blob'[k.job] = blob[k.job]
    BY <1>2, <1>4
  <2>3. /\ k.fresh => k.job \in Jobs
        /\ k.pc \in Triggered \cup {"enqueue_read", "enqueue_send"} => k.job \in Jobs
    BY <1>1 DEF LocalsInUse, Enqueuing
  <2> HIDE DEF k
  <2>4. QED
    BY <1>1, <2>1, <2>2, <2>3 DEF DecisionOK
<1>5. QED
  BY <1>3, <1>4

\* One conditional write of job j.  A token it releases is the lease it
\* replaces.
LEMMA WriteStep ==
  ASSUME IInv, WellFormed', NEW p \in Procs, NEW n \in JobState, NEW l \in Local,
         Put(p, n, l), loc[p].job \in Jobs, UNCHANGED index,
         \A q \in Procs : \A c \in claims'[q] : c.attempt = c.tok.gen,
         \A m \in Msgs : queue'[m].st = "queued" =>
                           queue[m].st = "queued" /\ queue'[m].job = queue[m].job,
         released \subseteq released',
         \A t \in released' : t \notin released =>
                                t.job = loc[p].job /\ t = blob[loc[p].job].lease,
         n.exists, JobKept(blob[loc[p].job], n), LeaseOK(loc[p].job, n),
         n.lease \notin released', AcceptedOK(n, released', index), DecisionOK(l, blob', index')
  PROVE  Safe
<1> DEFINE j == loc[p].job
           b == blob[j]
<1>1. \A i \in Jobs : blob'[i] = IF i = j THEN n ELSE blob[i]
  BY DEF Put, IInv, WellFormed, TypeOK
<1>2. \A q \in Procs : DecisionOK(loc'[q], blob', index')
  <2>1. loc'[p] = l
    BY DEF Put
  <2>2. DecisionOK(loc'[p], blob', index')
    BY <2>1
  <2>3. QED
    BY <2>2, WriteDecisions
<1>3. \A i \in Jobs : /\ LeaseOK(i, blob[i])' /\ (blob[i].lease \notin released)'
                      /\ AcceptedOK(blob[i], released, index)'
  <2> TAKE i \in Jobs
  <2>1. CASE i = j
    <3>1. blob'[i] = n
      BY <1>1, <2>1
    <3>2. QED
      BY <2>1, <3>1 DEF LeaseOK, AcceptedOK
  <2>2. CASE i # j
    <3>1. blob'[i] = blob[i]
      BY <1>1, <2>2
    <3>2. LeaseOK(i, blob[i]) /\ blob[i].lease \notin released
          /\ AcceptedOK(blob[i], released, index)
      BY JobsOfIInv
    <3>3. blob[i].lease \notin released'
      <4>1. None \notin released'
        BY NoneAssumption DEF WellFormed, TypeOK
      <4>2. QED
        BY <2>2, <3>2, <4>1 DEF LeaseOK
    <3>4. QED
      BY <3>1, <3>2, <3>3 DEF LeaseOK, AcceptedOK
  <2>3. QED
    BY <2>1, <2>2
<1>4. \A i \in Jobs : (~blob[i].exists => blob[i] = NoJob)'
  <2>1. \A i \in Jobs : ~blob[i].exists => blob[i] = NoJob
    BY JobsOfIInv
  <2>2. QED
    BY <1>1, <2>1 DEF NoJob
<1>5. \A m \in Msgs : queue'[m].st = "queued" => blob'[queue'[m].job].exists
  <2> SUFFICES ASSUME NEW m \in Msgs, queue'[m].st = "queued"
               PROVE  blob'[queue'[m].job].exists
    OBVIOUS
  <2>1. queue'[m].job \in Jobs /\ blob[queue'[m].job].exists
    BY DEF IInv, WellFormed
  <2>2. QED
    BY <1>1, <2>1
<1>6. \A t \in released' : t.gen <= blob'[t.job].gen
  <2> SUFFICES ASSUME NEW t \in released'
               PROVE  t.gen <= blob'[t.job].gen
    OBVIOUS
  <2>1. t \in Token /\ t.job \in Jobs /\ t.gen \in Nat
    BY DEF WellFormed, TypeOK, Token
  <2>2. b.gen \in Nat /\ n.gen \in Nat /\ b.gen <= n.gen
    BY DEF IInv, WellFormed, TypeOK, JobState, JobKept
  <2>3. t.gen <= blob[t.job].gen
    <3>1. CASE t \in released
      BY <3>1 DEF IInv
    <3>2. CASE t \notin released
      <4>1. t = b.lease /\ t.job = j
        BY <3>2
      <4>2. t.gen = b.gen
        BY <2>1, <4>1, NoneAssumption, JobsOfIInv DEF LeaseOK
      <4>3. QED
        BY <2>2, <4>1, <4>2
    <3>3. QED
      BY <3>1, <3>2
  <2>4. QED
    BY <1>1, <2>1, <2>2, <2>3
<1>7. IInv'
  <2>1. \A i \in Jobs : JobOK(i)'
    BY <1>3, <1>4 DEF JobOK, LeaseOK
  <2>2. AcceptedUnderCurrentClaim' /\ CompletionReplayable'
    BY <1>3 DEF AcceptedUnderCurrentClaim, CompletionReplayable, AcceptedOK, Accepted, Terminal
  <2>3. QED
    BY <1>2, <1>5, <1>6, <2>1, <2>2 DEF IInv
<1>8. \A i \in Jobs : JobKept(blob[i], blob'[i])
  BY <1>1, JobsOfIInv, KeptReflexive
<1>9. QED
  BY <1>7, <1>8 DEF Safe

\* A step of one process that may use the queue and drop claims, but writes
\* no job.
LEMMA QueueSafe ==
  ASSUME IInv, WellFormed', NEW p \in Procs, NEW m \in Msgs, NEW l, Goto(p, l),
         DecisionOK(l, blob', index'),
         UNCHANGED <<blob, index, released>>, \A q \in Procs : claims'[q] \subseteq claims[q],
         UNCHANGED queue \/ Delete(m) \/ (\E who, v : Update(m, who, v))
  PROVE  Safe
<1>1. loc \in [Procs -> Local]
  BY DEF IInv, WellFormed, TypeOK
<1>2. \A q \in Procs : DecisionOK(loc'[q], blob', index') \/ loc'[q] = loc[q]
  BY <1>1 DEF Goto
<1>3. \A i \in Msgs : queue'[i].st = "queued" => blob[queue'[i].job].exists
  BY QueueRefs DEF IInv
<1>4. QED
  BY <1>2, <1>3, QuietStep

\* The invariant, for one process.
LEMMA DecisionOf ==
  ASSUME IInv, NEW p \in Procs
  PROVE  DecisionOK(loc[p], blob, index) /\ loc[p] \in Local /\ LocalsInUse(loc[p])
BY LocalsOf DEF IInv

\* The start of enqueue() keeps the invariant and every outcome.
LEMMA EnqueueBeginSafe ==
  ASSUME IInv, WellFormed', NEW p \in Procs, NEW j \in Jobs, EnqueueBegin(p, j)
  PROVE  Safe
<1> DEFINE l == [Idle EXCEPT !.pc = "enqueue_create", !.job = j, !.at = clock]
<1>1. DecisionOK(l, blob', index')
  BY DEF DecisionOK, Idle, Triggered, Owning, Completing
<1>2. Goto(p, l) /\ UNCHANGED <<blob, queue, index, claims, released>>
  BY DEF EnqueueBegin, services, observed
<1> HIDE DEF l
<1>3. QED
  BY <1>1, <1>2, LocalSafe

\* enqueue()'s create-only write of the job keeps the invariant and every
\* outcome.
LEMMA EnqueueCreateSafe ==
  ASSUME IInv, WellFormed', NEW p \in Procs, EnqueueCreate(p)
  PROVE  Safe
<1> DEFINE j == loc[p].job
           n == [NoJob EXCEPT !.exists = TRUE, !.started = loc[p].at]
           send == [Idle EXCEPT !.pc = "enqueue_send", !.job = j]
           read == [Idle EXCEPT !.pc = "enqueue_read", !.job = j]
<1>1. j \in Jobs /\ loc[p].at \in Nat
  BY DecisionOf DEF EnqueueCreate, LocalsInUse, Enqueuing, Local
<1>2. UNCHANGED <<queue, index, claims, released>>
  BY DEF EnqueueCreate, observed
<1>3. CASE blob[j].exists
  <2>1. Goto(p, read) /\ UNCHANGED blob
    BY <1>3 DEF EnqueueCreate
  <2>2. DecisionOK(read, blob', index')
    BY <1>3, <2>1 DEF DecisionOK, Idle, Triggered, Owning, Completing
  <2> HIDE DEF read
  <2>3. QED
    BY <1>2, <2>1, <2>2, LocalSafe
<1>4. CASE ~blob[j].exists
  <2>1. Put(p, n, send) \/ Put(p, n, Idle)
    BY <1>4 DEF EnqueueCreate
  <2>2. n \in JobState
    BY <1>1, NoJobType DEF JobState
  <2>3. blob[j] = NoJob
    BY <1>1, <1>4, JobsOfIInv
  <2>4. /\ n.exists /\ JobKept(blob[j], n) /\ LeaseOK(j, n) /\ AcceptedOK(n, released', index)
        /\ n.lease = None
    BY <2>3, BudgetAssumption DEF NoJob, JobKept, LeaseOK, AcceptedOK
  <2>5. None \notin released'
    BY NoneAssumption DEF WellFormed, TypeOK
  <2>6. send \in Local
    BY <1>1, IdleType, LocalSet, StepNames
  <2>7. DecisionOK(send, blob', index')
    <3>1. blob'[j].exists
      BY <1>1, <2>1, <2>4 DEF Put, IInv, WellFormed, TypeOK
    <3>2. QED
      BY <3>1 DEF DecisionOK, Idle, Triggered, Owning, Completing
  <2>8. \A q \in Procs : \A c \in claims'[q] : c.attempt = c.tok.gen
    BY <1>2 DEF IInv
  <2> HIDE DEF n, send
  <2>9. CASE Put(p, n, send)
    BY <1>1, <1>2, <2>2, <2>4, <2>5, <2>6, <2>7, <2>8, <2>9, WriteStep
  <2>10. CASE Put(p, n, Idle)
    BY <1>1, <1>2, <2>2, <2>4, <2>5, <2>8, <2>10, IdleType, IdleDecision, WriteStep
  <2>11. QED
    BY <2>1, <2>9, <2>10
<1>5. QED
  BY <1>3, <1>4

\* A retried enqueue() reading the job it found keeps the invariant and every
\* outcome.
LEMMA EnqueueReadSafe ==
  ASSUME IInv, WellFormed', NEW p \in Procs, EnqueueRead(p)
  PROVE  Safe
<1> DEFINE send == [Idle EXCEPT !.pc = "enqueue_send", !.job = loc[p].job]
<1>1. blob[loc[p].job].exists
  BY DecisionOf DEF EnqueueRead, DecisionOK
<1>2. UNCHANGED <<blob, queue, index, claims, released>>
  BY DEF EnqueueRead, services
<1>3. DecisionOK(send, blob', index')
  BY <1>1, <1>2 DEF DecisionOK, Idle, Triggered, Owning, Completing
<1>4. Goto(p, send) \/ Goto(p, Idle)
  BY DEF EnqueueRead, Return
<1> HIDE DEF send
<1>5. QED
  BY <1>2, <1>3, <1>4, IdleDecision, LocalSafe

\* enqueue() sending the trigger keeps the invariant and every outcome.
LEMMA EnqueueSendSafe ==
  ASSUME IInv, WellFormed', NEW p \in Procs, EnqueueSend(p)
  PROVE  Safe
<1>1. blob[loc[p].job].exists
  BY DecisionOf DEF EnqueueSend, DecisionOK
<1>2. UNCHANGED <<blob, index, claims, released>>
  BY DEF EnqueueSend
<1>3. \A m \in Msgs : queue'[m].st = "queued" => blob[queue'[m].job].exists
  <2>1. PICK m \in Msgs :
          queue' = [queue EXCEPT ![m] = [st |-> "queued", job |-> loc[p].job,
                                         holder |-> None, visible |-> clock]]
    BY DEF EnqueueSend
  <2>2. QED
    BY <1>1, <2>1 DEF IInv, WellFormed, TypeOK
<1>4. \A q \in Procs : DecisionOK(loc'[q], blob', index') \/ loc'[q] = loc[q]
  BY IdleDecision DEF EnqueueSend, Return, Goto, IInv, WellFormed, TypeOK
<1>5. QED
  BY <1>2, <1>3, <1>4, QuietStep

\* The start of claim(), its pruning and its limit keeps the invariant and
\* every outcome.
LEMMA ClaimBeginSafe ==
  ASSUME IInv, WellFormed', NEW p \in Procs, ClaimBegin(p)
  PROVE  Safe
<1>1. \A q \in Procs : claims'[q] \subseteq claims[q]
  BY DEF ClaimBegin, Live, IInv, WellFormed, TypeOK
<1>2. \A q \in Procs : DecisionOK(loc'[q], blob', index') \/ loc'[q] = loc[q]
  BY RecoveringDecision DEF ClaimBegin, Goto, IInv, WellFormed, TypeOK
<1>3. UNCHANGED <<blob, queue, index, released>>
  BY DEF ClaimBegin, services, observed
<1>4. QED
  BY <1>1, <1>2, <1>3, QuietStep DEF IInv

\* claim() receiving a trigger keeps the invariant and every outcome.
LEMMA ReceiveSafe ==
  ASSUME IInv, WellFormed', NEW p \in Procs, Receive(p)
  PROVE  Safe
<1> DEFINE l(m) == [Idle EXCEPT !.pc = "claim_read", !.msg = m,
                                !.job = queue[m].job, !.drained = loc[p].drained]
<1>1. UNCHANGED <<blob, index, claims, released>>
  BY DEF Receive, observed
<1>2. CASE Return(p) /\ UNCHANGED queue
  BY <1>1, <1>2, IdleDecision, LocalSafe DEF Return
<1>3. CASE ~(Return(p) /\ UNCHANGED queue)
  <2>1. PICK m \in Msgs :
          /\ queue[m].st = "queued"
          /\ Update(m, p, clock + LeaseSeconds)
          /\ Goto(p, l(m)) \/ Goto(p, Idle)
    BY <1>3 DEF Receive, Return
  <2>2. blob[queue[m].job].exists
    BY <2>1 DEF IInv
  <2>3. DecisionOK(l(m), blob', index')
    BY <1>1, <2>2 DEF DecisionOK, Idle, Triggered, Owning, Completing
  <2> HIDE DEF l
  <2>4. QED
    BY <1>1, <2>1, <2>3, IdleDecision, QueueSafe
<1>4. QED
  BY <1>2, <1>3

\* _claim_message reading the job and deciding keeps the invariant and every
\* outcome.
LEMMA ClaimReadSafe ==
  ASSUME IInv, WellFormed', NEW p \in Procs, ClaimRead(p)
  PROVE  Safe
<1> DEFINE l == loc[p]
           b == blob[l.job]
           read == [l EXCEPT !.snap = b, !.fresh = TRUE, !.at = clock, !.drained = 0]
           drain == [l EXCEPT !.pc = "drain"]
           discard == [l EXCEPT !.pc = "discard", !.drained = 0]
           kill == [read EXCEPT !.pc = "terminate"]
           take == [read EXCEPT !.pc = "claim_write"]
<1>1. l \in Local /\ LocalsInUse(l) /\ DecisionOK(l, blob, index) /\ l.pc = "claim_read"
  BY DecisionOf DEF ClaimRead
<1>2. UNCHANGED <<blob, queue, index, claims, released>>
  BY DEF ClaimRead, services, observed
<1>3. l.job \in Jobs /\ b \in JobState /\ b.exists
  BY <1>1, JobsOfIInv DEF LocalsInUse, DecisionOK, Triggered
<1>4. /\ drain.pc = "drain" /\ drain.job = l.job /\ drain.snap = l.snap
      /\ drain.fresh => l.fresh
      /\ discard.pc = "discard" /\ discard.job = l.job /\ discard.snap = l.snap
      /\ discard.fresh => l.fresh
  <2> HIDE DEF l
  <2>1. QED
    BY <1>1 DEF Local
<1>5. DecisionOK(drain, blob', index') /\ DecisionOK(discard, blob', index')
  <2> HIDE DEF drain, discard, l
  <2>1. QED
    BY <1>1, <1>2, <1>3, <1>4 DEF DecisionOK, Triggered, Owning, Completing
<1>6. /\ kill.pc = "terminate" /\ kill.job = l.job /\ kill.snap = b
      /\ take.pc = "claim_write" /\ take.job = l.job /\ take.snap = b
  <2> HIDE DEF l
  <2>1. QED
    BY <1>1 DEF Local
<1>7. ASSUME b.accResult = None, b.terminal = None
      PROVE  DecisionOK(kill, blob', index')
  <2> HIDE DEF kill
  <2>1. QED
    BY <1>2, <1>3, <1>6, <1>7 DEF DecisionOK, Triggered, Owning, Completing
<1>8. ASSUME b.accResult = None, b.terminal = None, ~Exhausted(b)
      PROVE  DecisionOK(take, blob', index')
  <2>1. b.attempt < MaxAttempts
    BY <1>3, <1>8, BudgetAssumption DEF Exhausted, JobState
  <2> HIDE DEF take
  <2>2. QED
    BY <1>2, <1>3, <1>6, <1>8, <2>1 DEF DecisionOK, Triggered, Owning, Completing
<1>9. \/ Goto(p, drain) \/ Goto(p, discard) \/ Goto(p, Idle)
      \/ b.accResult = None /\ b.terminal = None /\ Goto(p, kill)
      \/ b.accResult = None /\ b.terminal = None /\ ~Exhausted(b) /\ Goto(p, take)
  <2>1. CASE b.accResult # None
    BY <2>1 DEF ClaimRead
  <2>2. CASE b.accResult = None /\ b.terminal # None
    BY <2>2 DEF ClaimRead
  <2>3. CASE b.accResult = None /\ b.terminal = None
    <3> DEFINE end == LeaseEnd(b)
    <3>0. clock \in Nat /\ end \in Nat
      BY <1>3, BoundsAssumption, BudgetAssumption
         DEF IInv, WellFormed, TypeOK, LeaseEnd, Lesser, Deadline, JobState
    <3>1. CASE clock < end
      <4>1. ~(clock >= end)
        <5> HIDE DEF end
        <5>1. QED
          BY <3>0, <3>1
      <4>2. QED
        BY <2>3, <3>1, <4>1 DEF ClaimRead, Return
    <3>2. CASE ~(clock < end)
      <4>1. clock >= end
        <5> HIDE DEF end
        <5>1. QED
          BY <3>0, <3>2
      <4>2. CASE Exhausted(b)
        BY <2>3, <3>2, <4>1, <4>2 DEF ClaimRead
      <4>3. CASE ~Exhausted(b)
        BY <2>3, <3>2, <4>1, <4>3 DEF ClaimRead
      <4>4. QED
        BY <4>2, <4>3
    <3>3. QED
      BY <3>1, <3>2
  <2>4. QED
    BY <2>1, <2>2, <2>3
<1> HIDE DEF drain, discard, kill, take
<1>10. QED
  BY <1>2, <1>5, <1>7, <1>8, <1>9, IdleDecision, LocalSafe

\* claim() deleting the trigger of an accepted job keeps the invariant and
\* every outcome.
LEMMA DrainSafe ==
  ASSUME IInv, WellFormed', NEW p \in Procs, Drain(p)
  PROVE  Safe
<1> DEFINE k == [Idle EXCEPT !.pc = "receive", !.drained = loc[p].drained + 1]
<1>1. loc[p].msg \in Msgs
  BY DecisionOf DEF Drain, LocalsInUse, Triggered
<1>2. DecisionOK(k, blob', index')
  BY DEF DecisionOK, Idle, Triggered, Owning, Completing
<1>3. (Goto(p, k) \/ Goto(p, Idle)) /\ (UNCHANGED queue \/ Delete(loc[p].msg))
  BY DEF Drain, Return
<1>4. UNCHANGED <<blob, index, claims, released>>
  BY DEF Drain, observed
<1> HIDE DEF k
<1>5. QED
  BY <1>1, <1>2, <1>3, <1>4, IdleDecision, QueueSafe

\* The snapshot of a call whose ETag matches is the job it writes.
LEMMA SnapshotCurrent ==
  ASSUME IInv, NEW p \in Procs, EtagMatches(p)
  PROVE  /\ loc[p].job \in Jobs /\ loc[p].snap = blob[loc[p].job]
         /\ loc[p].snap \in JobState
BY DecisionOf DEF EtagMatches, LocalsInUse, DecisionOK, Local

\* A conditional write that touches neither the queue nor claims and releases
\* nothing.
LEMMA PlainWrite ==
  ASSUME IInv, WellFormed', NEW p \in Procs, NEW n \in JobState, NEW l \in Local,
         Put(p, n, l), loc[p].job \in Jobs, UNCHANGED <<index, queue, claims, released>>,
         n.exists, JobKept(blob[loc[p].job], n), n.lease = blob[loc[p].job].lease,
         n.gen = blob[loc[p].job].gen, n.attempt = blob[loc[p].job].attempt,
         AcceptedOK(n, released, index), DecisionOK(l, blob', index')
  PROVE  Safe
<1>1. LeaseOK(loc[p].job, n) /\ n.lease \notin released
  BY JobsOfIInv DEF LeaseOK
<1>2. \A q \in Procs : \A c \in claims'[q] : c.attempt = c.tok.gen
  BY DEF IInv
<1>3. QED
  BY <1>1, <1>2, WriteStep

\* _claim_message writing a terminal reason keeps the invariant and every
\* outcome.
LEMMA TerminateSafe ==
  ASSUME IInv, WellFormed', NEW p \in Procs, Terminate(p)
  PROVE  Safe
<1> DEFINE l == loc[p]
           reason == IF l.snap.attempt >= MaxAttempts THEN "attempt_budget_exhausted"
                     ELSE "wall_budget_expired"
           n == [l.snap EXCEPT !.terminal = reason]
           next == [Idle EXCEPT !.pc = "discard", !.msg = l.msg, !.job = l.job]
<1>1. l.pc = "terminate" /\ DecisionOK(l, blob, index) /\ l.job \in Jobs /\ l.msg \in Msgs
  BY DecisionOf DEF Terminate, LocalsInUse, Triggered
<1>2. /\ UNCHANGED <<queue, index, claims, released>>
      /\ blob[l.job].exists /\ l.snap.accResult = None /\ l.snap.terminal = None
  BY <1>1 DEF Terminate, observed, DecisionOK, Triggered
<1>3. CASE ~EtagMatches(p)
  <2>1. Goto(p, Idle) /\ UNCHANGED blob
    BY <1>3 DEF Terminate, Return
  <2>2. QED
    BY <1>2, <2>1, IdleDecision, LocalSafe
<1>4. CASE EtagMatches(p)
  <2>1. Put(p, n, next) \/ Put(p, n, Idle)
    BY <1>4 DEF Terminate
  <2>2. l.snap = blob[l.job] /\ l.snap \in JobState
    BY <1>4, SnapshotCurrent
  <2>3. n \in JobState
    BY <2>2 DEF JobState, TerminalReasons
  <2>4. /\ n.exists /\ n.lease = l.snap.lease /\ n.gen = l.snap.gen
        /\ n.attempt = l.snap.attempt /\ n.accResult = None
    BY <1>2, <2>2 DEF JobState
  <2>5. JobKept(l.snap, n) /\ AcceptedOK(n, released, index)
    BY <1>2, <2>2, <2>4 DEF JobKept, AcceptedOK, JobState
  <2>6. next \in Local
    BY <1>1, IdleType, LocalSet, StepNames
  <2>7. DecisionOK(next, blob', index')
    <3>1. blob'[l.job].exists
      BY <1>1, <2>1, <2>4 DEF Put, IInv, WellFormed, TypeOK
    <3>2. QED
      BY <3>1 DEF DecisionOK, Idle, Triggered, Owning, Completing
  <2> HIDE DEF n, next
  <2>8. CASE Put(p, n, next)
    BY <1>1, <1>2, <2>2, <2>3, <2>4, <2>5, <2>6, <2>7, <2>8, PlainWrite
  <2>9. CASE Put(p, n, Idle)
    BY <1>1, <1>2, <2>2, <2>3, <2>4, <2>5, <2>9, IdleType, IdleDecision, PlainWrite
  <2>10. QED
    BY <2>1, <2>8, <2>9
<1>5. QED
  BY <1>3, <1>4

\* _claim_message deleting the trigger of an exhausted job keeps the
\* invariant and every outcome.
LEMMA DiscardSafe ==
  ASSUME IInv, WellFormed', NEW p \in Procs, Discard(p)
  PROVE  Safe
<1>1. loc[p].msg \in Msgs
  BY DecisionOf DEF Discard, LocalsInUse, Triggered
<1>2. Goto(p, Idle) /\ (UNCHANGED queue \/ Delete(loc[p].msg))
  BY DEF Discard, Return
<1>3. UNCHANGED <<blob, index, claims, released>>
  BY DEF Discard, observed
<1>4. QED
  BY <1>1, <1>2, <1>3, IdleDecision, QueueSafe

\* A new claim: its token is no released one, because those are of earlier
\* generations of the job.
LEMMA ClaimWriteSafe ==
  ASSUME IInv, WellFormed', NEW p \in Procs, ClaimWrite(p)
  PROVE  Safe
<1> DEFINE l == loc[p]
           b == blob[l.job]
           tok == [proc |-> p, job |-> l.job, gen |-> l.snap.gen + 1]
           expires == Lesser(l.at + LeaseSeconds, Deadline(l.snap))
           n == [l.snap EXCEPT !.gen = @ + 1, !.attempt = @ + 1,
                               !.lease = tok, !.expires = expires]
           ctx == [tok |-> tok, attempt |-> l.snap.attempt + 1, msg |-> l.msg,
                   expires |-> expires]
<1>1. /\ l.pc = "claim_write" /\ DecisionOK(l, blob, index)
      /\ l.job \in Jobs /\ l.msg \in Msgs /\ l.at \in Nat
  BY DecisionOf DEF ClaimWrite, LocalsInUse, Triggered, Local
<1>2. /\ UNCHANGED <<index, released>>
      /\ b.exists /\ l.snap.accResult = None /\ l.snap.terminal = None
      /\ l.snap.attempt < MaxAttempts
  BY <1>1 DEF ClaimWrite, observed, DecisionOK, Triggered
<1>3. CASE ~EtagMatches(p)
  <2>1. Goto(p, Idle) /\ UNCHANGED <<blob, queue, claims>>
    BY <1>3 DEF ClaimWrite, Return
  <2>2. QED
    BY <1>2, <2>1, IdleDecision, LocalSafe
<1>4. CASE EtagMatches(p)
  <2>1. Put(p, n, Idle)
    BY <1>4 DEF ClaimWrite
  <2>2. l.snap = b /\ l.snap \in JobState
    BY <1>4, SnapshotCurrent
  <2>3. l.snap.gen \in Nat /\ l.snap.attempt = l.snap.gen
    BY <1>1, <2>2, JobsOfIInv DEF JobState, LeaseOK
  <2>4. tok \in Token /\ expires \in Nat
    BY <1>1, <2>2, <2>3, BudgetAssumption, OptionsAssumption
       DEF Token, JobState, Lesser, Deadline
  <2>5. tok.job = l.job /\ tok.gen = l.snap.gen + 1
    OBVIOUS
  <2>6. /\ n \in JobState /\ n.gen = l.snap.gen + 1 /\ n.attempt = l.snap.attempt + 1
        /\ n.lease = tok /\ n.exists /\ n.accResult = None /\ n.terminal = None
    <3> HIDE DEF tok, expires
    <3>1. n \in JobState
      <4>1. l.snap \in JobState /\ l.snap.gen + 1 \in Nat /\ l.snap.attempt + 1 \in Nat
        BY <2>2, <2>3
      <4>2. QED
        BY <2>4, <4>1 DEF JobState
    <3>2. /\ n.gen = l.snap.gen + 1 /\ n.attempt = l.snap.attempt + 1
          /\ n.lease = tok /\ n.exists /\ n.accResult = None /\ n.terminal = None
      BY <1>2, <2>2 DEF JobState
    <3>3. QED
      BY <3>1, <3>2
  <2>7. JobKept(b, n) /\ LeaseOK(l.job, n) /\ AcceptedOK(n, released', index)
    <3> HIDE DEF n, tok
    <3>1. QED
      BY <1>2, <2>2, <2>3, <2>5, <2>6, BudgetAssumption
         DEF JobKept, LeaseOK, AcceptedOK
  <2>8. n.lease \notin released'
    <3>1. \A t \in released : t.gen <= blob[t.job].gen
      BY DEF IInv
    <3> HIDE DEF tok
    <3>2. tok \notin released
      BY <2>2, <2>3, <2>5, <3>1
    <3>3. QED
      BY <1>2, <2>6, <3>2
  <2>9. \A q \in Procs : \A c \in claims'[q] : c.attempt = c.tok.gen
    <3>1. ctx.attempt = ctx.tok.gen
      BY <2>3
    <3>2. UNCHANGED claims \/ claims' = [claims EXCEPT ![p] = @ \cup {ctx}]
      BY <1>4 DEF ClaimWrite
    <3> HIDE DEF ctx
    <3>3. QED
      BY <3>1, <3>2 DEF IInv, WellFormed, TypeOK
  <2>10. \A m \in Msgs : queue'[m].st = "queued" =>
                           queue[m].st = "queued" /\ queue'[m].job = queue[m].job
    <3>1. \/ UNCHANGED queue
          \/ queue' = [queue EXCEPT ![l.msg].holder = IF @ = p THEN tok ELSE @]
      BY <1>4 DEF ClaimWrite
    <3> HIDE DEF tok
    <3>2. queue \in [Msgs -> Message]
      BY DEF IInv, WellFormed, TypeOK
    <3>3. QED
      BY <1>1, <3>1, <3>2 DEF Message
  <2> HIDE DEF n, ctx, tok
  <2>11. QED
    BY <1>1, <1>2, <2>1, <2>2, <2>6, <2>7, <2>8, <2>9, <2>10, IdleType, IdleDecision, WriteStep
<1>5. QED
  BY <1>3, <1>4

\* A call begins with a claim context of the process.
LEMMA ContextOf ==
  ASSUME IInv, NEW p \in Procs, NEW c \in claims[p]
  PROVE  c \in ClaimContext /\ c.tok \in Token /\ c.tok.job \in Jobs /\ c.attempt = c.tok.gen
BY ContextType DEF IInv

\* renew()'s first read keeps the invariant and every outcome.
LEMMA RenewBeginSafe ==
  ASSUME IInv, WellFormed', NEW p \in Procs, NEW c \in claims[p], RenewBegin(p, c)
  PROVE  Safe
<1> DEFINE k(t) == [Idle EXCEPT !.pc = "renew_queue", !.ctx = c, !.job = c.tok.job, !.at = t]
<1>1. \A t : DecisionOK(k(t), blob', index')
  BY ContextOf DEF DecisionOK, Idle, Triggered, Owning, Completing
<1>2. \E t : Goto(p, k(t))
  BY DEF RenewBegin
<1>3. UNCHANGED <<blob, queue, index, claims, released>>
  BY DEF RenewBegin, services, observed
<1> HIDE DEF k
<1>4. QED
  BY <1>1, <1>2, <1>3, LocalSafe

\* renew() extending the invisibility of its trigger keeps the invariant and
\* every outcome.
LEMMA RenewQueueSafe ==
  ASSUME IInv, WellFormed', NEW p \in Procs, RenewQueue(p)
  PROVE  Safe
<1> DEFINE l == loc[p]
           k == [l EXCEPT !.pc = "renew_read", !.at = clock]
<1>1. l \in Local /\ LocalsInUse(l) /\ DecisionOK(l, blob, index) /\ l.pc = "renew_queue"
  BY DecisionOf DEF RenewQueue
<1>2. l.ctx.msg \in Msgs
  BY OwningType DEF RenewQueue, Owning, IInv
<1>3. UNCHANGED <<blob, index, claims, released>>
  BY DEF RenewQueue, observed
<1>4. DecisionOK(k, blob', index')
  <2>1. /\ k.pc = "renew_read" /\ k.ctx = l.ctx /\ k.snap = l.snap /\ k.job = l.job
        /\ k.fresh => l.fresh
    <3> HIDE DEF l
    <3>1. QED
      BY <1>1 DEF Local
  <2> HIDE DEF k, l
  <2>2. QED
    BY <1>1, <1>3, <2>1 DEF DecisionOK, Triggered, Owning, Completing
<1>5. Goto(p, k) \/ Goto(p, Idle)
  BY DEF RenewQueue, Return
<1>6. UNCHANGED queue \/ (\E who, v : Update(l.ctx.msg, who, v))
  BY DEF RenewQueue
<1> HIDE DEF k
<1>7. QED
  BY <1>2, <1>3, <1>4, <1>5, <1>6, IdleDecision, QueueSafe

\* renew() reading the job again keeps the invariant and every outcome.
LEMMA RenewReadSafe ==
  ASSUME IInv, WellFormed', NEW p \in Procs, RenewRead(p)
  PROVE  Safe
<1> DEFINE l == loc[p]
           b == blob[l.job]
           k(t) == [l EXCEPT !.pc = "renew_write", !.snap = b, !.fresh = TRUE, !.at = t]
<1>1. l \in Local /\ DecisionOK(l, blob, index) /\ l.pc = "renew_read"
  BY DecisionOf DEF RenewRead
<1>2. UNCHANGED <<blob, queue, index, claims, released>>
  BY DEF RenewRead, services, observed
<1>3. \A t : RequireClaim(l.ctx, b) => DecisionOK(k(t), blob', index')
  <2> TAKE t
  <2> DEFINE h == k(t)
  <2>1. /\ h.pc = "renew_write" /\ h.ctx = l.ctx /\ h.snap = b /\ h.job = l.job
    <3> HIDE DEF l
    <3>1. QED
      BY <1>1 DEF Local
  <2>2. RequireClaim(l.ctx, b) => b.lease = l.ctx.tok /\ b.accResult = None
    BY DEF RequireClaim
  <2> HIDE DEF h
  <2>3. RequireClaim(l.ctx, b) => DecisionOK(h, blob', index')
    BY <1>1, <1>2, <2>1, <2>2 DEF DecisionOK, Triggered, Owning, Completing
  <2>4. QED
    BY <2>3 DEF h
<1>4. Goto(p, Idle) \/ (RequireClaim(l.ctx, b) /\ \E t : Goto(p, k(t)))
  BY DEF RenewRead, Return
<1> HIDE DEF k
<1>5. QED
  BY <1>2, <1>3, <1>4, IdleDecision, LocalSafe

\* renew() writing the longer lease keeps the invariant and every outcome.
LEMMA RenewWriteSafe ==
  ASSUME IInv, WellFormed', NEW p \in Procs, RenewWrite(p)
  PROVE  Safe
<1> DEFINE l == loc[p]
           n == [l.snap EXCEPT !.expires = l.at]
           ctx == [l.ctx EXCEPT !.expires = l.at]
<1>1. /\ l \in Local /\ DecisionOK(l, blob, index) /\ l.pc = "renew_write"
      /\ l.job \in Jobs /\ l.ctx \in ClaimContext /\ l.ctx.tok \in Token /\ l.at \in Nat
  BY DecisionOf, OwningType DEF RenewWrite, Owning, IInv
<1>2. UNCHANGED <<queue, index, released>>
  BY DEF RenewWrite, observed
<1>3. CASE ~EtagMatches(p)
  <2>1. Goto(p, Idle) /\ UNCHANGED <<blob, claims>>
    BY <1>3 DEF RenewWrite, Return
  <2>2. QED
    BY <1>2, <2>1, IdleDecision, LocalSafe
<1>4. CASE EtagMatches(p)
  <2>1. Put(p, n, Idle)
    BY <1>4 DEF RenewWrite
  <2>2. l.snap = blob[l.job] /\ l.snap \in JobState
    BY <1>4, SnapshotCurrent
  <2>3. l.snap.lease = l.ctx.tok
    BY <1>1 DEF DecisionOK
  <2>4. l.snap.exists
    BY <1>1, <2>2, <2>3, JobsOfIInv, NoneAssumption DEF NoJob
  <2>5. /\ n \in JobState /\ n.exists /\ n.lease = l.snap.lease /\ n.gen = l.snap.gen
        /\ n.attempt = l.snap.attempt /\ n.terminal = l.snap.terminal
        /\ n.accResult = l.snap.accResult /\ n.accTok = l.snap.accTok
        /\ n.accGen = l.snap.accGen /\ n.accAttempt = l.snap.accAttempt
    <3>1. n \in JobState
      BY <1>1, <2>2 DEF JobState
    <3>2. QED
      BY <2>2, <2>4, <3>1 DEF JobState
  <2>6. JobKept(l.snap, n) /\ LeaseOK(l.job, n) /\ AcceptedOK(n, released', index)
        /\ n.lease \notin released'
    <3>1. /\ LeaseOK(l.job, l.snap) /\ l.snap.lease \notin released
          /\ AcceptedOK(l.snap, released, index)
      BY <1>1, <2>2, JobsOfIInv
    <3>2. JobKept(l.snap, l.snap)
      BY <2>2, KeptReflexive
    <3> HIDE DEF n
    <3>3. QED
      BY <1>2, <2>5, <3>1, <3>2 DEF JobKept, LeaseOK, AcceptedOK
  <2>7. \A q \in Procs : \A c \in claims'[q] : c.attempt = c.tok.gen
    <3>1. \/ UNCHANGED claims
          \/ claims' = [claims EXCEPT ![p] = (@ \ {l.ctx}) \cup {ctx}]
      BY <1>4 DEF RenewWrite
    <3>2. ctx.attempt = ctx.tok.gen
      BY <1>1 DEF DecisionOK, Owning, ClaimContext
    <3> HIDE DEF ctx
    <3>3. QED
      BY <3>1, <3>2 DEF IInv, WellFormed, TypeOK
  <2> HIDE DEF n
  <2>8. QED
    BY <1>1, <1>2, <2>1, <2>2, <2>5, <2>6, <2>7, IdleType, IdleDecision, WriteStep
<1>5. QED
  BY <1>3, <1>4

\* abandon()'s read keeps the invariant and every outcome.
LEMMA AbandonBeginSafe ==
  ASSUME IInv, WellFormed', NEW p \in Procs, NEW c \in claims[p], AbandonBegin(p, c)
  PROVE  Safe
<1> DEFINE b == blob[c.tok.job]
           k == [Idle EXCEPT !.pc = "abandon_write", !.ctx = c, !.job = c.tok.job,
                             !.snap = b, !.fresh = TRUE]
<1>1. UNCHANGED <<blob, queue, index, claims, released>> /\ Goto(p, k)
  BY DEF AbandonBegin, services, observed
<1>2. /\ c.attempt = c.tok.gen /\ b.lease = c.tok /\ b.accResult = None
  BY ContextOf DEF AbandonBegin, RequireClaim
<1>3. /\ k.pc = "abandon_write" /\ k.ctx = c /\ k.snap = b /\ k.job = c.tok.job
  BY DEF Idle
<1>4. DecisionOK(k, blob', index')
  <2> HIDE DEF k
  <2>1. QED
    BY <1>1, <1>2, <1>3 DEF DecisionOK, Triggered, Owning, Completing
<1> HIDE DEF k
<1>5. QED
  BY <1>1, <1>4, LocalSafe

\* The lease that is released is the one the write replaces.
LEMMA AbandonWriteSafe ==
  ASSUME IInv, WellFormed', NEW p \in Procs, AbandonWrite(p)
  PROVE  Safe
<1> DEFINE l == loc[p]
           n == [l.snap EXCEPT !.lease = None, !.expires = 0]
           k == [Idle EXCEPT !.pc = "abandon_queue", !.ctx = l.ctx]
<1>1. /\ l \in Local /\ LocalsInUse(l) /\ DecisionOK(l, blob, index) /\ l.pc = "abandon_write"
      /\ l.job \in Jobs /\ l.job = l.ctx.tok.job
      /\ l.ctx \in ClaimContext /\ l.ctx.tok \in Token
  BY DecisionOf, OwningType DEF AbandonWrite, Owning, IInv, LocalsInUse
<1>2. UNCHANGED <<queue, index, claims>>
  BY DEF AbandonWrite
<1>3. CASE ~EtagMatches(p)
  <2>1. Goto(p, Idle) /\ UNCHANGED <<blob, released>>
    BY <1>3 DEF AbandonWrite, Return
  <2>2. QED
    BY <1>2, <2>1, IdleDecision, LocalSafe
<1>4. CASE EtagMatches(p)
  <2>1. Put(p, n, k) \/ Put(p, n, Idle)
    BY <1>4 DEF AbandonWrite
  <2>2. l.snap = blob[l.job] /\ l.snap \in JobState
    BY <1>4, SnapshotCurrent
  <2>3. l.snap.lease = l.ctx.tok /\ l.snap.accResult = None
    BY <1>1 DEF DecisionOK
  <2>4. l.snap.exists
    BY <1>1, <2>2, <2>3, JobsOfIInv, NoneAssumption DEF NoJob
  <2>5. n \in JobState
    BY <2>2 DEF JobState
  <2>6. /\ n.exists /\ n.lease = None /\ n.gen = l.snap.gen
        /\ n.attempt = l.snap.attempt /\ n.terminal = l.snap.terminal /\ n.accResult = None
    BY <2>2, <2>3, <2>4 DEF JobState
  <2>7. JobKept(l.snap, n) /\ LeaseOK(l.job, n) /\ AcceptedOK(n, released', index)
    <3>1. LeaseOK(l.job, l.snap)
      BY <1>1, <2>2, JobsOfIInv
    <3>2. l.snap.gen \in Nat
      BY <2>2 DEF JobState
    <3> HIDE DEF n
    <3>3. QED
      BY <2>3, <2>6, <3>1, <3>2 DEF JobKept, LeaseOK, AcceptedOK
  <2>8. n.lease \notin released'
    BY <2>6, NoneAssumption DEF WellFormed, TypeOK
  <2>9. /\ released \subseteq released'
        /\ \A t \in released' : t \notin released => t.job = l.job /\ t = blob[l.job].lease
    BY <1>1, <1>4, <2>2, <2>3 DEF AbandonWrite
  <2>10. k \in Local
    BY <1>1, IdleType, LocalSet, StepNames
  <2>11. DecisionOK(k, blob', index')
    BY DEF DecisionOK, Idle, Triggered, Owning, Completing
  <2>12. \A q \in Procs : \A c \in claims'[q] : c.attempt = c.tok.gen
    BY <1>2 DEF IInv
  <2> HIDE DEF n, k
  <2>13. /\ UNCHANGED index /\ n.exists /\ n.lease \notin released'
         /\ JobKept(blob[l.job], n) /\ LeaseOK(l.job, n) /\ AcceptedOK(n, released', index)
         /\ \A m \in Msgs : queue'[m].st = "queued" =>
                               queue[m].st = "queued" /\ queue'[m].job = queue[m].job
    BY <1>2, <2>2, <2>6, <2>7, <2>8
  <2>14. CASE Put(p, n, k)
    BY <1>1, <2>5, <2>9, <2>10, <2>11, <2>12, <2>14, <2>13, WriteStep
  <2>15. CASE Put(p, n, Idle)
    BY <1>1, <2>5, <2>9, <2>12, <2>15, <2>13, IdleType, IdleDecision, WriteStep
  <2>16. QED
    BY <2>1, <2>14, <2>15
<1>5. QED
  BY <1>3, <1>4

\* abandon() making its trigger visible keeps the invariant and every outcome.
LEMMA AbandonQueueSafe ==
  ASSUME IInv, WellFormed', NEW p \in Procs, AbandonQueue(p)
  PROVE  Safe
<1>1. loc[p].ctx.msg \in Msgs
  BY OwningType DEF AbandonQueue, IInv
<1>2. /\ Goto(p, Idle) /\ UNCHANGED <<blob, index, released>>
      /\ UNCHANGED queue \/ (\E who, v : Update(loc[p].ctx.msg, who, v))
  BY DEF AbandonQueue, Return, observed
<1>3. \A q \in Procs : claims'[q] \subseteq claims[q]
  BY DEF AbandonQueue, IInv, WellFormed, TypeOK
<1>4. QED
  BY <1>1, <1>2, <1>3, IdleDecision, QueueSafe

\* complete()'s first read keeps the invariant and every outcome.
LEMMA CompleteBeginSafe ==
  ASSUME IInv, WellFormed', NEW p \in Procs, NEW c \in claims[p], NEW r \in Results,
         CompleteBegin(p, c, r)
  PROVE  Safe
<1> DEFINE l == [Idle EXCEPT !.ctx = c, !.job = c.tok.job, !.tok = c.tok, !.result = r]
           k(s) == [l EXCEPT !.pc = s]
<1>1. \E s \in {"settle", "verify"} : Goto(p, k(s))
  BY DEF CompleteBegin
<1>2. UNCHANGED <<blob, queue, index, claims, released>>
  BY DEF CompleteBegin, services, observed
<1>3. \A s \in {"settle", "verify"} : DecisionOK(k(s), blob', index')
  BY ContextOf DEF DecisionOK, Idle, Triggered, Owning, Completing
<1> HIDE DEF k
<1>4. QED
  BY <1>1, <1>2, <1>3, LocalSafe

\* complete() after the verifier keeps the invariant and every outcome.
LEMMA VerifySafe ==
  ASSUME IInv, WellFormed', NEW p \in Procs, Verify(p)
  PROVE  Safe
<1> DEFINE l == loc[p]
           k == [l EXCEPT !.pc = "index"]
<1>1. l \in Local /\ DecisionOK(l, blob, index) /\ l.pc = "verify"
  BY DecisionOf DEF Verify
<1>2. UNCHANGED <<blob, queue, index, claims, released>>
  BY DEF Verify, services, observed
<1>3. l.result \in Good => DecisionOK(k, blob', index')
  <2>1. /\ k.pc = "index" /\ k.ctx = l.ctx /\ k.snap = l.snap /\ k.job = l.job
        /\ k.result = l.result /\ (k.fresh => l.fresh)
    <3> HIDE DEF l
    <3>1. QED
      BY <1>1 DEF Local
  <2> HIDE DEF k, l
  <2>2. QED
    BY <1>1, <1>2, <2>1 DEF DecisionOK, Triggered, Owning, Completing
<1>4. Goto(p, Idle) \/ (l.result \in Good /\ Goto(p, k))
  BY DEF Verify, Return
<1> HIDE DEF k
<1>5. QED
  BY <1>2, <1>3, <1>4, IdleDecision, LocalSafe

\* The index entry of a claim is there before its final read.
LEMMA WriteClaimIndexSafe ==
  ASSUME IInv, WellFormed', NEW p \in Procs, WriteClaimIndex(p)
  PROVE  Safe
<1> DEFINE l == loc[p]
           k == [l EXCEPT !.pc = "final_read"]
           entry == [tok |-> l.tok, gen |-> l.tok.gen, attempt |-> l.ctx.attempt]
<1>1. l \in Local /\ DecisionOK(l, blob, index) /\ l.pc = "index"
  BY DecisionOf DEF WriteClaimIndex
<1>2. UNCHANGED <<blob, queue, claims, released>> /\ index \subseteq index'
  BY DEF WriteClaimIndex, observed
<1>3. entry \in index' => DecisionOK(k, blob', index')
  <2>1. /\ k.pc = "final_read" /\ k.ctx = l.ctx /\ k.snap = l.snap /\ k.job = l.job
        /\ k.result = l.result /\ k.tok = l.tok /\ (k.fresh => l.fresh)
    <3> HIDE DEF l
    <3>1. QED
      BY <1>1 DEF Local
  <2> HIDE DEF k, l
  <2>2. QED
    BY <1>1, <1>2, <2>1 DEF DecisionOK, Triggered, Owning, Completing
<1>4. Goto(p, Idle) \/ (entry \in index' /\ Goto(p, k))
  BY DEF WriteClaimIndex, Return
<1> HIDE DEF k, entry
<1>5. \A q \in Procs : DecisionOK(loc'[q], blob', index') \/ loc'[q] = loc[q]
  BY <1>3, <1>4, IdleDecision DEF Goto, IInv, WellFormed, TypeOK
<1>6. QED
  BY <1>2, <1>5, QuietStep DEF IInv

\* complete()'s last read keeps the invariant and every outcome.
LEMMA FinalReadSafe ==
  ASSUME IInv, WellFormed', NEW p \in Procs, FinalRead(p)
  PROVE  Safe
<1> DEFINE l == loc[p]
           b == blob[l.job]
           k == [l EXCEPT !.pc = "accept", !.snap = b, !.fresh = TRUE]
<1>1. l \in Local /\ DecisionOK(l, blob, index) /\ l.pc = "final_read"
  BY DecisionOf DEF FinalRead
<1>2. UNCHANGED <<blob, queue, index, claims, released>>
  BY DEF FinalRead, services, observed
<1>3. RequireClaim(l.ctx, b) => DecisionOK(k, blob', index')
  <2>1. /\ k.pc = "accept" /\ k.ctx = l.ctx /\ k.snap = b /\ k.job = l.job
        /\ k.result = l.result /\ k.tok = l.tok
    <3> HIDE DEF l
    <3>1. QED
      BY <1>1 DEF Local
  <2>2. RequireClaim(l.ctx, b) => /\ b.lease = l.ctx.tok /\ b.gen = l.ctx.tok.gen
                                  /\ b.accResult = None /\ b.terminal = None
    BY DEF RequireClaim
  <2> HIDE DEF k
  <2>3. QED
    BY <1>1, <1>2, <2>1, <2>2 DEF DecisionOK, Triggered, Owning, Completing
<1>4. Goto(p, Idle) \/ (RequireClaim(l.ctx, b) /\ Goto(p, k))
  BY DEF FinalRead, Return
<1> HIDE DEF k
<1>5. QED
  BY <1>2, <1>3, <1>4, IdleDecision, LocalSafe

\* The write that accepts a result: its snapshot still holds the claim.
LEMMA AcceptSafe ==
  ASSUME IInv, WellFormed', NEW p \in Procs, Accept(p)
  PROVE  Safe
<1> DEFINE l == loc[p]
           n == [l.snap EXCEPT !.accGen = l.ctx.tok.gen, !.accAttempt = l.ctx.attempt,
                               !.accTok = l.tok, !.accResult = l.result,
                               !.pending = TRUE, !.sent = FALSE]
           k == [l EXCEPT !.pc = "settle", !.snap = NoJob, !.fresh = FALSE]
<1>1. /\ l \in Local /\ LocalsInUse(l) /\ DecisionOK(l, blob, index) /\ l.pc = "accept"
      /\ l.job \in Jobs /\ l.ctx \in ClaimContext /\ l.ctx.tok \in Token
  BY DecisionOf, OwningType DEF Accept, Owning, Completing, IInv
<1>2. /\ l.tok = l.ctx.tok /\ l.result \in Results /\ l.result \in Good
      /\ l.ctx.attempt \in Nat /\ l.ctx.tok.gen \in Nat
      /\ l.ctx.attempt = l.ctx.tok.gen /\ l.snap.gen = l.ctx.tok.gen
      /\ l.snap.lease = l.ctx.tok /\ l.snap.accResult = None /\ l.snap.terminal = None
      /\ [tok |-> l.tok, gen |-> l.tok.gen, attempt |-> l.ctx.attempt] \in index
  BY <1>1 DEF LocalsInUse, DecisionOK, Owning, Completing, ClaimContext, Token
<1>3. UNCHANGED <<queue, index, claims, released>>
  BY DEF Accept, observed
<1>4. CASE ~EtagMatches(p)
  <2>1. Goto(p, Idle) /\ UNCHANGED blob
    BY <1>4 DEF Accept, Return
  <2>2. QED
    BY <1>3, <2>1, IdleDecision, LocalSafe
<1>5. CASE EtagMatches(p)
  <2>1. Put(p, n, k) \/ Put(p, n, Idle)
    BY <1>5 DEF Accept
  <2>2. l.snap = blob[l.job] /\ l.snap \in JobState
    BY <1>5, SnapshotCurrent
  <2>3. l.snap.exists /\ LeaseOK(l.job, l.snap) /\ l.snap.lease \notin released
    BY <1>1, <1>2, <2>2, JobsOfIInv, NoneAssumption DEF NoJob
  <2>4. n \in JobState
    <3> HIDE DEF l
    <3>1. QED
      BY <1>1, <1>2, <2>2, JobSet
  <2>5. /\ n.exists /\ n.lease = l.snap.lease /\ n.gen = l.snap.gen
        /\ n.attempt = l.snap.attempt /\ n.terminal = None
        /\ n.accResult = l.result /\ n.accTok = l.tok
        /\ n.accGen = l.ctx.tok.gen /\ n.accAttempt = l.ctx.attempt
    BY <1>2, <2>2, <2>3 DEF JobState
  <2>6. JobKept(l.snap, n) /\ AcceptedOK(n, released, index)
    <3>1. l.snap.gen = l.snap.attempt /\ l.snap.gen \in Nat
      BY <2>2, <2>3 DEF LeaseOK, JobState
    <3> HIDE DEF n
    <3>2. QED
      BY <1>2, <2>3, <2>5, <3>1 DEF JobKept, AcceptedOK
  <2>7. /\ k \in Local /\ k.pc = "settle" /\ k.ctx = l.ctx /\ ~k.fresh
    <3> HIDE DEF l
    <3>1. k \in Local
      BY <1>1, NoJobType, LocalSet, StepNames
    <3>2. k.pc = "settle" /\ k.ctx = l.ctx /\ ~k.fresh
      BY <1>1 DEF Local
    <3>3. QED
      BY <3>1, <3>2
  <2> HIDE DEF n, k
  <2>8. DecisionOK(k, blob', index')
    BY <1>2, <2>7 DEF DecisionOK, Triggered, Owning, Completing
  <2>9. CASE Put(p, n, k)
    BY <1>1, <1>3, <2>2, <2>4, <2>5, <2>6, <2>7, <2>8, <2>9, PlainWrite
  <2>10. CASE Put(p, n, Idle)
    BY <1>1, <1>3, <2>2, <2>4, <2>5, <2>6, <2>10, IdleType, IdleDecision, PlainWrite
  <2>11. QED
    BY <2>1, <2>9, <2>10
<1>6. QED
  BY <1>4, <1>5

\* _settle deleting the trigger and dropping the context keeps the invariant
\* and every outcome.
LEMMA SettleSafe ==
  ASSUME IInv, WellFormed', NEW p \in Procs, Settle(p)
  PROVE  Safe
<1> DEFINE k == Recovering("complete", loc[p].tok, loc[p].result)
<1>1. loc[p].ctx.msg \in Msgs
  BY OwningType DEF Settle, IInv, Owning, Completing
<1>2. /\ Goto(p, Idle) \/ Goto(p, k)
      /\ UNCHANGED <<blob, index, released>>
      /\ UNCHANGED queue \/ Delete(loc[p].ctx.msg)
  BY DEF Settle, Return, observed
<1>3. \A q \in Procs : claims'[q] \subseteq claims[q]
  BY DEF Settle, IInv, WellFormed, TypeOK
<1>4. DecisionOK(k, blob', index')
  BY RecoveringDecision
<1> HIDE DEF k
<1>5. QED
  BY <1>1, <1>2, <1>3, <1>4, IdleDecision, QueueSafe

\* A retried complete() without its context keeps the invariant and every
\* outcome.
LEMMA CompleteRetrySafe ==
  ASSUME IInv, WellFormed', NEW p \in Procs, NEW e \in index, NEW r \in Results,
         CompleteRetry(p, e, r)
  PROVE  Safe
<1> DEFINE k == [Idle EXCEPT !.pc = "find", !.job = e.tok.job, !.tok = e.tok,
                             !.result = r, !.at = e.attempt]
<1>1. UNCHANGED <<blob, queue, index, claims, released>> /\ Goto(p, k)
  BY DEF CompleteRetry, services, observed
<1>2. DecisionOK(k, blob', index')
  BY DEF DecisionOK, Idle, Triggered, Owning, Completing
<1> HIDE DEF k
<1>3. QED
  BY <1>1, <1>2, LocalSafe

\* _find_accepted_claim reading the job keeps the invariant and every outcome.
LEMMA FindAcceptedSafe ==
  ASSUME IInv, WellFormed', NEW p \in Procs, FindAccepted(p)
  PROVE  Safe
<1> DEFINE k == Recovering("complete", loc[p].tok, loc[p].result)
<1>1. UNCHANGED <<blob, queue, index, claims, released>> /\ (Goto(p, Idle) \/ Goto(p, k))
  BY DEF FindAccepted, Return, services, observed
<1>2. DecisionOK(k, blob', index')
  BY RecoveringDecision
<1> HIDE DEF k
<1>3. QED
  BY <1>1, <1>2, IdleDecision, LocalSafe

\* The start of recover_notifications() keeps the invariant and every outcome.
LEMMA RecoverBeginSafe ==
  ASSUME IInv, WellFormed', NEW p \in Procs, RecoverBegin(p)
  PROVE  Safe
BY RecoveringDecision, LocalSafe DEF RecoverBegin, services, observed

\* A recovery decides nothing about a job but that it is to be notified.
LEMMA RecoveryDecision ==
  ASSUME NEW k, k.pc \in {"list", "scan", "notify", "mark"}, NEW jobs, NEW entries,
         k.fresh => k.snap = jobs[k.job]
  PROVE  DecisionOK(k, jobs, entries)
BY DEF DecisionOK, Triggered, Owning, Completing

\* A recovery that is done with a job has decided nothing about the next.
LEMMA ScannedDecision ==
  ASSUME NEW l \in Local
  PROVE  DecisionOK(Scanned(l), blob', index')
<1>1. Scanned(l).pc = "scan" /\ ~Scanned(l).fresh
  BY DEF Scanned, Local
<1>2. QED
  BY <1>1, RecoveryDecision

\* recover_notifications() reading its cursor keeps the invariant and every
\* outcome.
LEMMA ReadCursorSafe ==
  ASSUME IInv, WellFormed', NEW p \in Procs, ReadCursor(p)
  PROVE  Safe
<1> DEFINE l == loc[p]
           k == [l EXCEPT !.pc = "list", !.next = cursor, !.cfresh = TRUE]
<1>1. l \in Local /\ DecisionOK(l, blob, index)
  BY DecisionOf
<1>2. UNCHANGED <<blob, queue, index, claims, released>> /\ Goto(p, k)
  BY DEF ReadCursor, services, observed
<1>3. k.pc = "list" /\ k.snap = l.snap /\ k.job = l.job /\ (k.fresh => l.fresh)
  <2> HIDE DEF l
  <2>1. QED
    BY <1>1 DEF Local
<1>4. l.fresh => l.snap = blob'[l.job]
  BY <1>1, <1>2 DEF DecisionOK
<1> HIDE DEF k, l
<1>5. DecisionOK(k, blob', index')
  BY <1>3, <1>4, RecoveryDecision
<1>6. QED
  BY <1>2, <1>5, LocalSafe

\* recover_notifications() listing a page of jobs keeps the invariant and
\* every outcome.
LEMMA ListPageSafe ==
  ASSUME IInv, WellFormed', NEW p \in Procs, ListPage(p)
  PROVE  Safe
<1> DEFINE l == loc[p]
           k(page, next) == [l EXCEPT !.pc = "scan", !.page = page, !.next = next]
<1>1. l \in Local /\ DecisionOK(l, blob, index)
  BY DecisionOf
<1>2. UNCHANGED <<blob, queue, index, claims, released>> /\ \E g, n : Goto(p, k(g, n))
  BY DEF ListPage, services, observed
<1>3. l.fresh => l.snap = blob'[l.job]
  BY <1>1, <1>2 DEF DecisionOK
<1>4. ASSUME NEW g, NEW n PROVE DecisionOK(k(g, n), blob', index')
  <2> DEFINE h == k(g, n)
  <2>1. h.pc = "scan" /\ h.snap = l.snap /\ h.job = l.job /\ (h.fresh => l.fresh)
    <3> HIDE DEF l
    <3>1. QED
      BY <1>1 DEF Local
  <2> HIDE DEF h, l
  <2>2. DecisionOK(h, blob', index')
    BY <1>3, <2>1, RecoveryDecision
  <2>3. QED
    BY <2>2 DEF h
<1> HIDE DEF k
<1>5. QED
  BY <1>2, <1>4, LocalSafe

\* recover_notifications() reading the next job of its page keeps the
\* invariant and every outcome.
LEMMA ScanSafe ==
  ASSUME IInv, WellFormed', NEW p \in Procs, Scan(p)
  PROVE  Safe
<1> DEFINE l == loc[p]
           read(j) == [l EXCEPT !.pc = "notify", !.job = j, !.snap = blob[j], !.fresh = TRUE]
<1>1. l \in Local
  BY DecisionOf
<1>2. UNCHANGED <<blob, queue, index, claims, released>>
  BY DEF Scan, services, observed
<1>3. ASSUME NEW j \in l.page
      PROVE  DecisionOK(read(j), blob', index') /\ DecisionOK(Scanned(read(j)), blob', index')
  <2> DEFINE k == read(j)
  <2>1. k.pc = "notify" /\ k.job = j /\ k.snap = blob[j]
    <3> HIDE DEF l
    <3>1. QED
      BY <1>1 DEF Local
  <2>2. k \in Local
    <3>1. j \in Jobs
      BY <1>1 DEF Local
    <3>2. blob[j] \in JobState
      BY <3>1, JobsOfIInv
    <3> HIDE DEF l
    <3>3. QED
      BY <1>1, <3>1, <3>2, LocalSet, StepNames
  <2> HIDE DEF k
  <2>3. DecisionOK(k, blob', index')
    BY <1>2, <2>1, RecoveryDecision
  <2>4. DecisionOK(Scanned(k), blob', index')
    BY <2>2, ScannedDecision
  <2>5. QED
    BY <2>3, <2>4 DEF k
<1>4. \E j \in l.page : Goto(p, read(j)) \/ Goto(p, Scanned(read(j)))
  BY DEF Scan
<1> HIDE DEF read
<1>5. QED
  BY <1>2, <1>3, <1>4, LocalSafe

\* A notifier that raises keeps the invariant and every outcome.
LEMMA NotifyRaisedSafe ==
  ASSUME IInv, WellFormed', NEW p \in Procs, NotifyRaised(p)
  PROVE  Safe
BY DecisionOf, ScannedDecision, LocalSafe DEF NotifyRaised, services, observed

\* A notifier that delivers keeps the invariant and every outcome.
LEMMA NotifySafe ==
  ASSUME IInv, WellFormed', NEW p \in Procs, NEW j \in Jobs, Notify(p, j)
  PROVE  Safe
<1> DEFINE l == loc[p]
           k == [l EXCEPT !.pc = "mark"]
<1>1. l \in Local /\ DecisionOK(l, blob, index)
  BY DecisionOf
<1>2. /\ UNCHANGED <<blob, queue, index, claims, released>>
      /\ Goto(p, k) \/ Goto(p, Scanned(l))
  BY DEF Notify, services
<1>3. k.pc = "mark" /\ k.snap = l.snap /\ k.job = l.job /\ (k.fresh => l.fresh)
  <2> HIDE DEF l
  <2>1. QED
    BY <1>1 DEF Local
<1>4. l.fresh => l.snap = blob'[l.job]
  BY <1>1, <1>2 DEF DecisionOK
<1>5. DecisionOK(k, blob', index')
  <2> HIDE DEF k, l
  <2>1. QED
    BY <1>3, <1>4, RecoveryDecision
<1>6. DecisionOK(Scanned(l), blob', index')
  BY <1>1, ScannedDecision
<1> HIDE DEF k
<1>7. QED
  BY <1>2, <1>5, <1>6, LocalSafe

\* recover_notifications() marking a job as notified keeps the invariant and
\* every outcome.
LEMMA MarkSentSafe ==
  ASSUME IInv, WellFormed', NEW p \in Procs, MarkSent(p)
  PROVE  Safe
<1> DEFINE l == loc[p]
           n == [l.snap EXCEPT !.pending = FALSE, !.sent = TRUE]
<1>1. l \in Local /\ LocalsInUse(l) /\ l.pc = "mark"
  BY DecisionOf DEF MarkSent
<1>2. UNCHANGED <<queue, index, claims, released>>
  BY DEF MarkSent, observed
<1>3. DecisionOK(Scanned(l), blob', index')
  BY <1>1, ScannedDecision
<1>4. CASE ~EtagMatches(p)
  <2>1. Goto(p, Scanned(l)) /\ UNCHANGED blob
    BY <1>4 DEF MarkSent
  <2>2. QED
    BY <1>2, <1>3, <2>1, LocalSafe
<1>5. CASE EtagMatches(p)
  <2>1. Put(p, n, Scanned(l)) \/ Put(p, n, Idle)
    BY <1>5 DEF MarkSent
  <2>2. l.job \in Jobs /\ l.snap = blob[l.job] /\ l.snap \in JobState
    BY <1>5, SnapshotCurrent
  <2>3. l.snap.exists
    BY <1>1, <2>2, JobsOfIInv DEF LocalsInUse, NoJob
  <2>4. /\ n \in JobState /\ n.exists /\ n.lease = l.snap.lease /\ n.gen = l.snap.gen
        /\ n.attempt = l.snap.attempt /\ n.terminal = l.snap.terminal
        /\ n.accResult = l.snap.accResult /\ n.accTok = l.snap.accTok
        /\ n.accGen = l.snap.accGen /\ n.accAttempt = l.snap.accAttempt
    <3>1. n \in JobState
      BY <2>2, JobSet
    <3>2. QED
      BY <2>2, <2>3, <3>1 DEF JobState
  <2>5. JobKept(l.snap, n) /\ AcceptedOK(n, released, index)
    <3>1. AcceptedOK(l.snap, released, index)
      BY <2>2, JobsOfIInv
    <3>2. JobKept(l.snap, l.snap)
      BY <2>2, KeptReflexive
    <3> HIDE DEF n
    <3>3. QED
      BY <2>4, <3>1, <3>2 DEF JobKept, AcceptedOK
  <2>6. Scanned(l) \in Local
    BY <1>1, ScannedType
  <2> HIDE DEF n
  <2>7. CASE Put(p, n, Scanned(l))
    BY <1>2, <1>3, <2>2, <2>4, <2>5, <2>6, <2>7, PlainWrite
  <2>8. CASE Put(p, n, Idle)
    BY <1>2, <2>2, <2>4, <2>5, <2>8, IdleType, IdleDecision, PlainWrite
  <2>9. QED
    BY <2>1, <2>7, <2>8
<1>6. QED
  BY <1>4, <1>5

\* recover_notifications() moving its cursor keeps the invariant and every
\* outcome.
LEMMA AdvanceCursorSafe ==
  ASSUME IInv, WellFormed', NEW p \in Procs, AdvanceCursor(p)
  PROVE  Safe
<1> DEFINE receive == [Idle EXCEPT !.pc = "receive"]
           done == IF loc[p].call = "claim" THEN receive ELSE Idle
<1>1. DecisionOK(receive, blob', index')
  BY DEF DecisionOK, Idle, Triggered, Owning, Completing
<1>2. DecisionOK(done, blob', index')
  <2> HIDE DEF receive
  <2>1. QED
    BY <1>1, IdleDecision
<1>3. UNCHANGED <<blob, queue, index, claims, released>>
  BY DEF AdvanceCursor, MoveCursor, Goto
<1>4. PICK after \in {done, Idle} :
        \/ loc' = [loc EXCEPT ![p] = after]
        \/ loc' = [q \in Procs |-> IF q = p THEN after ELSE [loc[q] EXCEPT !.cfresh = FALSE]]
  BY DEF AdvanceCursor, MoveCursor, Goto
<1> HIDE DEF done
<1>7. DecisionOK(after, blob', index')
  BY <1>2, IdleDecision
<1>5. ASSUME NEW q \in Procs
      PROVE  DecisionOK(loc'[q], blob', index') \/ loc'[q] = loc[q]
  <2> DEFINE l == loc[q]
             k == [l EXCEPT !.cfresh = FALSE]
  <2>1. l \in Local /\ DecisionOK(l, blob, index)
    BY DecisionOf
  <2>2. /\ k.pc = l.pc /\ k.fresh = l.fresh /\ k.snap = l.snap /\ k.job = l.job
        /\ k.ctx = l.ctx /\ k.tok = l.tok /\ k.result = l.result
    <3> HIDE DEF l
    <3>1. QED
      BY <2>1 DEF Local
  <2>3. DecisionOK(k, blob', index')
    <3> HIDE DEF k, l
    <3>1. QED
      BY <1>3, <2>1, <2>2 DEF DecisionOK
  <2>4. QED
    BY <1>4, <1>7, <2>3 DEF IInv, WellFormed, TypeOK
<1>6. QED
  BY <1>3, <1>5, QuietStep DEF IInv

\* The clock keeps the invariant and every outcome.
LEMMA TickSafe == IInv /\ WellFormed' /\ Tick => Safe
<1> SUFFICES ASSUME IInv, WellFormed', Tick
             PROVE  Safe
  OBVIOUS
<1>1. UNCHANGED <<blob, index, claims, released, loc>>
  BY DEF Tick, observed
<1>2. \A m \in Msgs : queue'[m].st = queue[m].st /\ queue'[m].job = queue[m].job
  BY DEF Tick, IInv, WellFormed, TypeOK, Message
<1>3. \A m \in Msgs : queue'[m].st = "queued" => blob[queue'[m].job].exists
  BY <1>2 DEF IInv
<1>4. QED
  BY <1>1, <1>3, QuietStep

\* A request that fails without effect keeps the invariant and every outcome.
LEMMA FailSafe ==
  ASSUME IInv, WellFormed', NEW p \in Procs, Fail(p)
  PROVE  Safe
BY IdleDecision, LocalSafe DEF Fail, Return, services, observed

\* A restarted process has lost its contexts; what it made durable stays.
LEMMA CrashSafe ==
  ASSUME IInv, WellFormed', NEW p \in Procs, Crash(p)
  PROVE  Safe
<1>1. UNCHANGED <<blob, queue, index, released>>
  BY DEF Crash, services, observed
<1>2. \A q \in Procs : claims'[q] \subseteq claims[q]
  BY DEF Crash, IInv, WellFormed, TypeOK
<1>3. \A q \in Procs : DecisionOK(loc'[q], blob', index') \/ loc'[q] = loc[q]
  BY IdleDecision DEF Crash, Return, Goto, IInv, WellFormed, TypeOK
<1>4. QED
  BY <1>1, <1>2, <1>3, QuietStep DEF IInv

\* A stuttering step keeps the invariant and every outcome.
LEMMA StutterSafe == IInv /\ UNCHANGED vars => Safe
<1> SUFFICES ASSUME IInv, UNCHANGED vars
             PROVE  Safe
  OBVIOUS
<1>1. UNCHANGED <<blob, queue, index, claims, released, loc>>
  BY DEF vars, services, observed
<1>2. WellFormed'
  BY StutterWF DEF IInv
<1>3. QED
  BY <1>1, <1>2, QuietStep DEF IInv

\* Every step keeps the invariant, and what is final in a job.
LEMMA NextSafe == IInv /\ [Next]_vars => Safe
<1> SUFFICES ASSUME IInv, Next PROVE Safe
  BY StutterSafe
<1>1. WellFormed'
  BY NextWF DEF IInv
<1>2. CASE Tick
  BY <1>1, <1>2, TickSafe
<1>3. ASSUME NEW p \in Procs, Begin(p) PROVE Safe
  BY <1>1, <1>3, EnqueueBeginSafe, ClaimBeginSafe, RenewBeginSafe, AbandonBeginSafe,
     CompleteBeginSafe, CompleteRetrySafe, RecoverBeginSafe DEF Begin
<1>4. ASSUME NEW p \in Procs, Continue(p) PROVE Safe
  <2>1. CASE \/ EnqueueCreate(p) \/ EnqueueRead(p) \/ EnqueueSend(p)
             \/ Receive(p) \/ ClaimRead(p) \/ Drain(p) \/ Terminate(p) \/ Discard(p)
             \/ ClaimWrite(p)
    BY <1>1, <2>1, EnqueueCreateSafe, EnqueueReadSafe, EnqueueSendSafe, ReceiveSafe,
       ClaimReadSafe, DrainSafe, TerminateSafe, DiscardSafe, ClaimWriteSafe
  <2>2. CASE \/ RenewQueue(p) \/ RenewRead(p) \/ RenewWrite(p)
             \/ AbandonWrite(p) \/ AbandonQueue(p)
    BY <1>1, <2>2, RenewQueueSafe, RenewReadSafe, RenewWriteSafe, AbandonWriteSafe,
       AbandonQueueSafe
  <2>3. CASE \/ Verify(p) \/ WriteClaimIndex(p) \/ FinalRead(p) \/ Accept(p) \/ Settle(p)
             \/ FindAccepted(p)
    BY <1>1, <2>3, VerifySafe, WriteClaimIndexSafe, FinalReadSafe, AcceptSafe, SettleSafe,
       FindAcceptedSafe
  <2>4. CASE \/ ReadCursor(p) \/ ListPage(p) \/ Scan(p) \/ NotifyRaised(p)
             \/ (\E j \in Jobs : Notify(p, j)) \/ MarkSent(p) \/ AdvanceCursor(p)
    BY <1>1, <2>4, ReadCursorSafe, ListPageSafe, ScanSafe, NotifyRaisedSafe, NotifySafe,
       MarkSentSafe, AdvanceCursorSafe
  <2>5. QED
    BY <1>4, <2>1, <2>2, <2>3, <2>4 DEF Continue
<1>5. ASSUME NEW p \in Procs, Fail(p) \/ Crash(p) PROVE Safe
  BY <1>1, <1>5, FailSafe, CrashSafe
<1>6. QED
  BY <1>2, <1>3, <1>4, <1>5 DEF Next

\* The invariant holds of the initial states.
LEMMA InitSafe == Init => IInv
<1> SUFFICES ASSUME Init PROVE IInv
  OBVIOUS
<1>1. WellFormed
  BY InitWF
<1>2. \A p \in Procs : DecisionOK(loc[p], blob, index)
  BY DEF Init, DecisionOK, Idle, Triggered, Owning, Completing
<1>3. \A j \in Jobs : blob[j] = NoJob
  BY DEF Init
<1>4. \A j \in Jobs : JobOK(j)
  BY <1>3, BudgetAssumption DEF Init, JobOK, NoJob
<1>5. AcceptedUnderCurrentClaim /\ CompletionReplayable
  BY <1>3 DEF AcceptedUnderCurrentClaim, CompletionReplayable, Accepted, NoJob
<1>6. QED
  BY <1>1, <1>2, <1>4, <1>5 DEF Init, IInv

\* The inductive invariant: decisions of calls under way rest on the blob's
\* state, leases belong to the newest generation, queued triggers refer to
\* durable jobs.
THEOREM InvariantHolds == Spec => []IInv
<1>1. IInv /\ [Next]_vars => IInv'
  BY NextSafe DEF Safe
<1>2. QED
  BY InitSafe, <1>1, PTL DEF Spec

\* complete() never accepts a result of a superseded or released claim, of a
\* job declared exhausted, or one the verifier rejects.
THEOREM AcceptanceSafe == Spec => []AcceptedUnderCurrentClaim
<1>1. IInv => AcceptedUnderCurrentClaim
  BY DEF IInv
<1>2. QED
  BY InvariantHolds, <1>1, PTL

\* A durable completion can be replayed through the claim index by any
\* process, even after the one that accepted it crashed at once.
THEOREM ReplaySafe == Spec => []CompletionReplayable
<1>1. IInv => CompletionReplayable
  BY DEF IInv
<1>2. QED
  BY InvariantHolds, <1>1, PTL

\* What became of a job never changes again: neither an accepted result, its
\* claim and attempt, nor a terminal reason, and no such job is claimed.
THEOREM OutcomeSafe == Spec => OutcomeIsFinal
<1>1. IInv /\ [Next]_vars =>
        [\A j \in Jobs :
           LET b == blob[j] n == blob'[j]
           IN /\ Accepted(j) =>
                   /\ n.accResult = b.accResult /\ n.accTok = b.accTok
                   /\ n.accAttempt = b.accAttempt
              /\ Terminal(j) => n.terminal = b.terminal
              /\ Accepted(j) \/ Terminal(j) => n.gen = b.gen /\ n.attempt = b.attempt]_vars
  BY NextSafe DEF Safe, JobKept, Accepted, Terminal
<1>2. QED
  BY InvariantHolds, <1>1, PTL DEF Spec, OutcomeIsFinal
=============================================================================
