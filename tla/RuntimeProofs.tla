--------------------------- MODULE RuntimeProofs ----------------------------
(***************************************************************************)
(* The llama-server adapter, the scheduler and the benchmark directory,    *)
(* for any requests, profiles, vessels, knowledge, runners and imports:    *)
(* outcomes own up to the work they leave behind, choices are measured     *)
(* and nothing eligible is ranked before them, what is replayed is in the  *)
(* store, and all the runtime side keeps to its types.                     *)
(***************************************************************************)
EXTENDS MCRuntime, ReferenceRunProofs, WellFoundedInduction

-----------------------------------------------------------------------------
(* The llama-server adapter: what its outcomes say of the work the server   *)
(* may still have, of the deadline, and of the context.                    *)

InCall == lStep # "idle"

\* The request under way has work at the server only while its completion is
\* waited for, or once it has been answered by something else: what makes every
\* other end of it one without work.
WorkWaitedFor ==
  /\ InCall /\ lCount \in lWork => Unfinished \/ (lStep = "wait" /\ lPath = "completion")
  /\ lStep \in {"observe", "check"} => lReply.formed

\* A request has no outcome before it ends, and is under way only if it was made
\* of an adapter whose binding admits it.
OutcomeAtEnd ==
  /\ \A n \in 1..MaxServerRequests : n > lCount => lOutcome[n].as = "none"
  /\ InCall => lCount > 0 /\ lOutcome[lCount].as = "none" /\ lBinding.state # "UNSUPPORTED"
  /\ lBinding = NoBinding => lCount = 0

\* What a request has been found to fit stays true of it until it ends.
Fits ==
  InCall /\ lPath = "completion" => lTokens + lRequest.max <= lRequest.context

ServerInv ==
  /\ ServerTypeOK /\ WorkWaitedFor /\ OutcomeAtEnd /\ Fits
  /\ WorkIsOwnedUp /\ SuccessIsInTime

LEMMA ServerInvInit == ServerInit => ServerInv
<1> SUFFICES ASSUME ServerInit PROVE ServerInv
  OBVIOUS
<1>1. NoReplyYet \in Reply /\ 0 \in Counts
  BY ServerAssumption DEF NoReplyYet, Reply, Counts
<1>2. Unanswered \in Ending
  BY DEF Unanswered, Ending, ServerOutcome
<1>3. ServerTypeOK
  <2>1. lOutcome \in [1..MaxServerRequests -> Ending]
    BY <1>2 DEF ServerInit
  <2>2. lCount \in 0..MaxServerRequests /\ lTokens \in Counts /\ lReply \in Reply
    BY <1>1, ServerAssumption DEF ServerInit
  <2> QED
    BY <2>1, <2>2 DEF ServerInit, ServerTypeOK
<1>4. lCount = 0 /\ lWork = {} /\ lStep = "idle" /\ ~InCall
  BY DEF ServerInit, InCall
<1>5. \A n \in 1..MaxServerRequests : lOutcome[n].as = "none"
  BY DEF ServerInit, Unanswered
<1> QED
  BY <1>3, <1>4, <1>5
     DEF ServerInv, WorkWaitedFor, OutcomeAtEnd, Fits, WorkIsOwnedUp, SuccessIsInTime

\* Steps that leave the outcomes and the requests alone: the deadline passes,
\* the server finishes or loses work, a post goes out or comes back.
LEMMA GoesOn ==
  ASSUME ServerInv, ServerTypeOK', UNCHANGED <<lBinding, lCount, lRequest, lOutcome>>,
         InCall' <=> InCall,
         WorkWaitedFor', Fits',
         lWork' \subseteq lWork \/ (InCall /\ lWork' \subseteq lWork \cup {lCount}),
         UNCHANGED <<lReply, lTokens>> \/ InCall
  PROVE  ServerInv'
<1>1. OutcomeAtEnd'
  BY DEF ServerInv, OutcomeAtEnd, InCall
<1>2. WorkIsOwnedUp'
  BY DEF ServerInv, WorkIsOwnedUp, OutcomeAtEnd
<1>3. SuccessIsInTime'
  BY DEF ServerInv, SuccessIsInTime, OutcomeAtEnd, ServerTypeOK
<1> QED
  BY <1>1, <1>2, <1>3 DEF ServerInv

\* Steps that end the request under way.
LEMMA CallEnds ==
  ASSUME ServerInv, InCall, NEW outcome \in ServerOutcome, EndsAs(outcome),
         UNCHANGED <<lBinding, lCount, lRequest, lLate, lPath, lTokens, lReply, lWork>>,
         lCount \in lWork => \/ outcome \in {"FAIL_TIMEOUT", "FAIL_RUNTIME"}
                             \/ Unfinished /\ outcome \in {"FAIL_EXECUTION", "raised"},
         outcome = "success" => /\ ~lLate /\ lReply.tokens = lTokens
                                /\ lTokens + lReply.predicted <= lRequest.context
  PROVE  ServerInv'
<1>1. lCount \in 1..MaxServerRequests /\ lOutcome \in [1..MaxServerRequests -> Ending]
  BY DEF ServerInv, ServerTypeOK, OutcomeAtEnd
<1> DEFINE end == [as |-> outcome, late |-> lLate, unfinished |-> Unfinished]
<1>2. lOutcome' = [lOutcome EXCEPT ![lCount] = end] /\ lStep' = "idle"
  BY DEF EndsAs, Ends
<1>3. lOutcome' \in [1..MaxServerRequests -> Ending]
  <2>1. lLate \in BOOLEAN /\ Unfinished \in BOOLEAN
    BY DEF ServerInv, ServerTypeOK, Unfinished
  <2>2. end \in Ending
    BY <2>1 DEF Ending
  <2> QED
    BY <1>1, <1>2, <2>2
<1>4. ServerTypeOK'
  BY <1>2, <1>3 DEF ServerInv, ServerTypeOK
<1>5. /\ lOutcome'[lCount].as = outcome /\ lOutcome'[lCount].late = lLate
      /\ lOutcome'[lCount].unfinished = Unfinished
      /\ \A n \in 1..MaxServerRequests : n # lCount => lOutcome'[n] = lOutcome[n]
  BY <1>1, <1>2
<1>6. ~InCall'
  BY <1>2 DEF InCall
<1>7. OutcomeAtEnd'
  BY <1>1, <1>5, <1>6 DEF ServerInv, OutcomeAtEnd
<1>8. WorkIsOwnedUp'
  <2> SUFFICES ASSUME NEW n \in lWork
               PROVE  \/ lOutcome'[n].as \in {"none", "FAIL_TIMEOUT", "FAIL_RUNTIME"}
                      \/ /\ lOutcome'[n].unfinished
                         /\ lOutcome'[n].as \in {"FAIL_EXECUTION", "raised"}
    BY DEF WorkIsOwnedUp
  <2>1. n \in 1..MaxServerRequests
    BY <1>1, ServerAssumption DEF ServerInv, ServerTypeOK
  <2>2. CASE n = lCount
    BY <1>5, <2>2
  <2>3. CASE n # lCount
    BY <1>5, <2>1, <2>3 DEF ServerInv, WorkIsOwnedUp
  <2> QED
    BY <2>2, <2>3
<1>9. SuccessIsInTime'
  <2> SUFFICES ASSUME NEW n \in 1..lCount, lOutcome'[n].as = "success"
               PROVE  /\ ~lOutcome'[n].late
                      /\ n = lCount => /\ lBinding.state # "UNSUPPORTED" /\ lReply.tokens = lTokens
                                       /\ lTokens + lReply.predicted <= lRequest.context
    BY DEF SuccessIsInTime
  <2>1. n \in 1..MaxServerRequests
    BY <1>1, ServerAssumption
  <2>2. CASE n = lCount
    BY <1>5, <2>2 DEF ServerInv, OutcomeAtEnd
  <2>3. CASE n # lCount
    BY <1>5, <2>1, <2>3 DEF ServerInv, SuccessIsInTime
  <2> QED
    BY <2>2, <2>3
<1> QED
  BY <1>2, <1>4, <1>6, <1>7, <1>8, <1>9 DEF ServerInv, WorkWaitedFor, Fits

LEMMA BindKeeps == ServerInv /\ Bind => ServerInv'
<1> SUFFICES ASSUME ServerInv, Bind PROVE ServerInv'
  OBVIOUS
<1>1. lCount = 0 /\ ~InCall /\ lBinding' # NoBinding
  BY DEF ServerInv, OutcomeAtEnd, Bind, Binding, NoBinding
<1>2. ServerTypeOK'
  BY DEF ServerInv, ServerTypeOK, Bind
<1> QED
  BY <1>1, <1>2
     DEF ServerInv, Bind, WorkWaitedFor, OutcomeAtEnd, Fits, InCall, WorkIsOwnedUp, SuccessIsInTime

\* A new request has no work yet, and the outcomes of the earlier ones stand.
LEMMA AskedAnew ==
  ASSUME ServerInv, ServerTypeOK', lBinding # NoBinding, UNCHANGED <<lBinding, lWork>>,
         lCount' = lCount + 1, lCount' \in 1..MaxServerRequests, lPath' = "tokenize",
         lStep' \in {"idle", "post"},
         \A n \in 1..MaxServerRequests : n # lCount' => lOutcome'[n] = lOutcome[n],
         lOutcome'[lCount'].as # "success",
         InCall' => lOutcome'[lCount'].as = "none" /\ lBinding.state # "UNSUPPORTED"
  PROVE  ServerInv'
<1>1. lCount \in 0..MaxServerRequests /\ MaxServerRequests \in Nat
      /\ \A n \in lWork : n \in 1..lCount
  BY ServerAssumption DEF ServerInv, ServerTypeOK
<1>2. WorkWaitedFor' /\ Fits'
  BY <1>1 DEF WorkWaitedFor, Fits, Unfinished
<1>3. OutcomeAtEnd'
  <2>1. \A n \in 1..MaxServerRequests : n > lCount' => lOutcome'[n].as = "none"
    BY <1>1 DEF ServerInv, OutcomeAtEnd
  <2> QED
    BY <1>1, <2>1 DEF OutcomeAtEnd
<1>4. WorkIsOwnedUp'
  <2> SUFFICES ASSUME NEW n \in lWork
               PROVE  \/ lOutcome'[n].as \in {"none", "FAIL_TIMEOUT", "FAIL_RUNTIME"}
                      \/ /\ lOutcome'[n].unfinished
                         /\ lOutcome'[n].as \in {"FAIL_EXECUTION", "raised"}
    BY DEF WorkIsOwnedUp
  <2>1. n \in 1..MaxServerRequests /\ n # lCount'
    BY <1>1
  <2> QED
    BY <2>1 DEF ServerInv, WorkIsOwnedUp
<1>5. SuccessIsInTime'
  <2> SUFFICES ASSUME NEW n \in 1..lCount', lOutcome'[n].as = "success"
               PROVE  ~lOutcome'[n].late /\ n # lCount'
    BY DEF SuccessIsInTime
  <2>1. n # lCount' /\ n \in 1..lCount /\ n \in 1..MaxServerRequests
    BY <1>1
  <2> QED
    BY <2>1 DEF ServerInv, SuccessIsInTime
<1> QED
  BY <1>2, <1>3, <1>4, <1>5 DEF ServerInv

LEMMA AskKeeps ==
  ASSUME ServerInv, NEW request \in ServerRequests, Ask(request)
  PROVE  ServerInv'
<1>1. /\ lCount' = lCount + 1 /\ lCount' \in 1..MaxServerRequests /\ lCount \in Nat
      /\ lWork' = lWork /\ lWork \subseteq 1..lCount /\ lBinding' = lBinding
      /\ lBinding # NoBinding /\ lPath' = "tokenize"
  BY ServerAssumption DEF ServerInv, ServerTypeOK, Ask
<1>2. /\ lReply' \in Reply /\ lTokens' \in Counts
  BY ServerAssumption DEF Ask, NoReplyYet, Reply, Counts
<1>3. lOutcome[lCount + 1].as = "none"
  BY <1>1 DEF ServerInv, OutcomeAtEnd
<1>4. /\ lBinding' \in Binding \cup {NoBinding} /\ lCount' \in 0..MaxServerRequests
      /\ lRequest' \in ServerRequests /\ lLate' \in BOOLEAN /\ lPath' \in {"tokenize", "completion"}
      /\ lTokens' \in Counts /\ lReply' \in Reply /\ lWork' \subseteq 1..lCount'
  <2>1. lCount' \in 0..MaxServerRequests /\ 1..lCount \subseteq 1..lCount'
    BY <1>1, ServerAssumption
  <2>2. lRequest' \in ServerRequests /\ lLate' \in BOOLEAN /\ lBinding \in Binding \cup {NoBinding}
    BY DEF Ask, ServerInv, ServerTypeOK
  <2> QED
    BY <1>1, <1>2, <2>1, <2>2
<1>5. CASE ~ServerAdmits(request) \/ ~ContextPrepared(request)
  <2>1. PICK outcome \in {"declined", "FAIL_EXECUTION"} : Ends(lCount + 1, outcome)
    BY <1>5 DEF Ask
  <2> DEFINE end == [as |-> outcome, late |-> lLate, unfinished |-> Unfinished]
  <2>2. lStep' = "idle" /\ lOutcome' = [lOutcome EXCEPT ![lCount + 1] = end]
    BY <2>1 DEF Ends
  <2>3. end \in Ending
    <3>1. lLate \in BOOLEAN /\ Unfinished \in BOOLEAN /\ outcome \in ServerOutcome
      BY DEF ServerInv, ServerTypeOK, Unfinished, ServerOutcome
    <3> QED
      BY <3>1 DEF Ending
  <2>4. ServerTypeOK'
    <3>1. lOutcome' \in [1..MaxServerRequests -> Ending]
      BY <1>1, <2>2, <2>3 DEF ServerInv, ServerTypeOK
    <3> QED
      BY <1>4, <2>2, <3>1 DEF ServerTypeOK
  <2>5. /\ lOutcome'[lCount'].as \in {"declined", "FAIL_EXECUTION"}
        /\ \A n \in 1..MaxServerRequests : n # lCount' => lOutcome'[n] = lOutcome[n]
    BY <1>1, <2>2 DEF ServerInv, ServerTypeOK
  <2>6. ~InCall'
    BY <2>2 DEF InCall
  <2> QED
    BY <1>1, <2>2, <2>4, <2>5, <2>6, AskedAnew
<1>6. CASE ServerAdmits(request) /\ ContextPrepared(request)
  <2>1. lStep' = "post" /\ UNCHANGED lOutcome /\ lBinding.state # "UNSUPPORTED"
    BY <1>6 DEF Ask, ServerAdmits
  <2>2. ServerTypeOK'
    BY <1>4, <2>1 DEF ServerInv, ServerTypeOK
  <2> QED
    BY <1>1, <1>3, <2>1, <2>2, AskedAnew
<1> QED
  BY <1>5, <1>6

LEMMA PostKeeps == ServerInv /\ Post => ServerInv'
<1> SUFFICES ASSUME ServerInv, Post PROVE ServerInv'
  OBVIOUS
<1>1. InCall /\ lCount \notin lWork /\ lCount \in 1..lCount
  BY DEF ServerInv, Post, InCall, WorkWaitedFor, Unfinished, OutcomeAtEnd, ServerTypeOK
<1>2. CASE lStep' = "wait"
  <2>1. /\ lWork' \subseteq lWork \cup {lCount} /\ UNCHANGED lOutcome
        /\ lPath = "completion" \/ lWork' = lWork
    BY <1>2 DEF Post, EndsAs, Ends
  <2>2. ServerTypeOK'
    BY <1>1, <1>2, <2>1 DEF ServerInv, ServerTypeOK, Post, asked
  <2>3. WorkWaitedFor' /\ Fits'
    BY <1>1, <1>2, <2>1 DEF ServerInv, WorkWaitedFor, Fits, InCall, Post, asked
  <2> QED
    BY <1>1, <1>2, <2>1, <2>2, <2>3, GoesOn DEF Post, asked, InCall
<1>3. CASE lStep' # "wait"
  <2>1. PICK outcome \in {"FAIL_EXECUTION", "FAIL_TIMEOUT", "FAIL_RUNTIME"} :
          EndsAs(outcome) /\ UNCHANGED lWork
    BY <1>3 DEF Post
  <2> QED
    BY <1>1, <2>1, CallEnds DEF Post, asked, ServerOutcome
<1> QED
  BY <1>2, <1>3

LEMMA WaitOverKeeps == ServerInv /\ WaitOver => ServerInv'
<1> SUFFICES ASSUME ServerInv, WaitOver PROVE ServerInv'
  OBVIOUS
<1>1. PICK outcome \in {"FAIL_TIMEOUT", "FAIL_RUNTIME"} : EndsAs(outcome)
  BY DEF WaitOver
<1> QED
  BY <1>1, CallEnds DEF WaitOver, InCall, asked, ServerOutcome

\* Steps of a request that neither waits nor sends: it goes on, or ends.
LEMMA StepKeeps ==
  ASSUME ServerInv, lStep \in {"read", "observe"}, lStep' \in {"observe", "check"},
         UNCHANGED <<lBinding, lCount, lRequest, lLate, lPath, lTokens, lReply, lWork, lOutcome>>,
         lReply.formed
  PROVE  ServerInv'
<1>1. ServerTypeOK' /\ Fits'
  BY DEF ServerInv, ServerTypeOK, Fits, InCall
<1>2. WorkWaitedFor'
  BY DEF ServerInv, WorkWaitedFor, InCall, Unfinished, Finished
<1> QED
  BY <1>1, <1>2, GoesOn DEF InCall

LEMMA NotWaiting ==
  ASSUME ServerInv, lStep \in {"read", "observe", "check"}
  PROVE  InCall /\ (lCount \in lWork => Unfinished)
BY DEF ServerInv, WorkWaitedFor, InCall

LEMMA ReadKeeps == ServerInv /\ Read => ServerInv'
<1> SUFFICES ASSUME ServerInv, Read PROVE ServerInv'
  OBVIOUS
<1>1. CASE lStep' = "observe" /\ UNCHANGED lOutcome
  BY <1>1, StepKeeps DEF Read, asked, EndsAs, Ends
<1>2. ASSUME NEW outcome \in {"FAIL_TIMEOUT", "FAIL_EXECUTION"}, EndsAs(outcome) PROVE ServerInv'
  BY <1>2, NotWaiting, CallEnds DEF Read, asked, ServerOutcome
<1> QED
  BY <1>1, <1>2 DEF Read

LEMMA ObserveKeeps == ServerInv /\ Observe => ServerInv'
<1> SUFFICES ASSUME ServerInv, Observe PROVE ServerInv'
  OBVIOUS
<1>1. CASE lStep' = "check" /\ UNCHANGED lOutcome
  BY <1>1, StepKeeps DEF Observe, asked, ServerInv, WorkWaitedFor
<1>2. ASSUME NEW outcome \in {"FAIL_RUNTIME", "raised"}, EndsAs(outcome) PROVE ServerInv'
  BY <1>2, NotWaiting, CallEnds DEF Observe, asked, ServerOutcome
<1> QED
  BY <1>1, <1>2 DEF Observe

LEMMA TokenizedKeeps == ServerInv /\ Tokenized => ServerInv'
<1> SUFFICES ASSUME ServerInv, Tokenized PROVE ServerInv'
  OBVIOUS
<1>1. InCall /\ lCount \notin lWork
  BY NotWaiting DEF Tokenized, Unfinished
<1>2. CASE FitsContext
  <2>1. /\ lPath' = "completion" /\ lTokens' = lReply.tokens /\ lStep' = "post"
        /\ UNCHANGED <<lOutcome, lBinding, lCount, lRequest, lLate, lReply, lWork>>
    BY <1>2 DEF Tokenized, asked
  <2>2. ServerTypeOK'
    BY <2>1 DEF ServerInv, ServerTypeOK, Reply
  <2>3. WorkWaitedFor' /\ Fits'
    BY <1>1, <1>2, <2>1 DEF WorkWaitedFor, Fits, FitsContext, Unfinished
  <2> QED
    BY <1>1, <2>1, <2>2, <2>3, GoesOn DEF InCall
<1>3. CASE ~FitsContext
  BY <1>1, <1>3, CallEnds DEF Tokenized, asked, ServerOutcome
<1> QED
  BY <1>2, <1>3

LEMMA DoneKeeps == ServerInv /\ CompletionDone => ServerInv'
<1> SUFFICES ASSUME ServerInv, CompletionDone PROVE ServerInv'
  OBVIOUS
<1>1. InCall /\ (lCount \in lWork => Unfinished)
  BY NotWaiting DEF CompletionDone
<1>2. lTokens \in Int /\ lReply.predicted \in Int /\ lRequest.max \in Int /\ lRequest.context \in Int
  BY ServerAssumption DEF ServerInv, ServerTypeOK, Reply, Counts
<1>3. lTokens + lRequest.max <= lRequest.context
  BY <1>1 DEF ServerInv, Fits, CompletionDone
<1>4. CompletionValid => lReply.tokens = lTokens /\ lTokens + lReply.predicted <= lRequest.context
  BY <1>2, <1>3 DEF CompletionValid
<1>5. CompletionValid => ~Unfinished
  BY DEF CompletionValid, CompletionDone, Unfinished, Finished, ServerInv, WorkWaitedFor
<1>6. PICK outcome \in {"FAIL_EXECUTION", "FAIL_TIMEOUT", "success"} :
        EndsAs(outcome) /\ (outcome = "success" => CompletionValid /\ ~lLate)
  BY DEF CompletionDone
<1> QED
  BY <1>1, <1>4, <1>5, <1>6, CallEnds DEF CompletionDone, asked, ServerOutcome

LEMMA AnswerKeeps == ServerInv /\ Answer => ServerInv'
<1> SUFFICES ASSUME ServerInv, Answer PROVE ServerInv'
  OBVIOUS
<1>1. /\ lStep = "wait" /\ lStep' = "read" /\ lReply' \in Reply /\ lWork' \subseteq lWork
      /\ UNCHANGED <<lBinding, lCount, lRequest, lLate, lPath, lTokens, lOutcome>>
  BY DEF Answer, asked
<1>2. ServerTypeOK'
  BY <1>1 DEF ServerInv, ServerTypeOK
<1>3. WorkWaitedFor'
  <2>1. lCount \in lWork' => lPath = "completion" /\ ~Finished(lReply')
    BY <1>1 DEF Answer, ServerInv, WorkWaitedFor, InCall, Unfinished
  <2> QED
    BY <1>1, <2>1 DEF WorkWaitedFor, Unfinished, Finished
<1>4. Fits'
  BY <1>1 DEF ServerInv, Fits, InCall
<1> QED
  BY <1>1, <1>2, <1>3, <1>4, GoesOn DEF InCall

LEMMA AroundKeeps == ServerInv /\ (ServerGoesOn \/ DeadlinePasses) => ServerInv'
<1> SUFFICES ASSUME ServerInv, ServerGoesOn \/ DeadlinePasses PROVE ServerInv'
  OBVIOUS
<1>1. /\ lWork' \subseteq lWork /\ lLate' \in {lLate, TRUE}
      /\ UNCHANGED <<lBinding, lCount, lRequest, lStep, lPath, lTokens, lReply, lOutcome>>
  BY DEF ServerGoesOn, DeadlinePasses, asked
<1>2. ServerTypeOK' /\ WorkWaitedFor' /\ Fits'
  BY <1>1 DEF ServerInv, ServerTypeOK, WorkWaitedFor, Fits, InCall, Unfinished
<1> QED
  BY <1>1, <1>2, GoesOn DEF InCall

\* Every step of the adapter, its server and its owner keeps the invariant.
LEMMA ServerInvNext == ServerInv /\ [ServerNext]_serverVars => ServerInv'
<1> SUFFICES ASSUME ServerInv, [ServerNext]_serverVars PROVE ServerInv'
  OBVIOUS
<1>1. CASE UNCHANGED serverVars
  BY <1>1
     DEF serverVars, ServerInv, ServerTypeOK, WorkWaitedFor, OutcomeAtEnd, Fits, InCall,
         WorkIsOwnedUp, SuccessIsInTime, Unfinished
<1>2. CASE \E request \in ServerRequests : Ask(request)
  BY <1>2, AskKeeps
<1> QED
  BY <1>1, <1>2, BindKeeps, PostKeeps, WaitOverKeeps, ReadKeeps, ObserveKeeps, TokenizedKeeps,
     DoneKeeps, AnswerKeeps, AroundKeeps DEF ServerNext

LEMMA ServerInvariant == ServerSpec => []ServerInv
BY ServerInvInit, ServerInvNext, PTL DEF ServerSpec

\* Work that the server may still be at, as it goes on when its caller has gone,
\* belongs to a request under way, to one that ended as a time-out or a transport
\* failure, or to one whose completion was answered by something else than a
\* finished one: any other end of execute tells that none is left.
THEOREM LeftWorkIsTold == ServerSpec => []WorkIsOwnedUp
<1>1. ServerInv => WorkIsOwnedUp
  BY DEF ServerInv
<1> QED
  BY <1>1, ServerInvariant, PTL

\* A success of execute came before its deadline, whenever that passed, and
\* answers the prompt that was tokenized, within the context the owner bound.
THEOREM SuccessInTime == ServerSpec => []SuccessIsInTime
<1>1. ServerInv => SuccessIsInTime
  BY DEF ServerInv
<1> QED
  BY <1>1, ServerInvariant, PTL

-----------------------------------------------------------------------------
(***************************************************************************)
(* The scheduler (Scheduling).  A choice is the least of the eligible plans *)
(* in what is known; what is known does not change any more once there can *)
(* be a choice, and only the clock can, which takes the choice back.       *)
(***************************************************************************)

\* What is known is finite, and so is every throughput's bound.
KnownFinite ==
  /\ IsFiniteSet(Given(sValidations)) /\ IsFiniteSet(sBenchmarks)
  /\ \E most \in Nat : \A b \in sBenchmarks : b.tps <= most

\* A plan no other eligible one is ranked before.
Least(plan) ==
  /\ plan \in Plans /\ Eligible(sMission, plan)
  /\ \A q \in Plans : Eligible(sMission, q) /\ q # plan => Before(Rank(sMission, plan), Rank(sMission, q))

\* The inductive invariant.
SchedulingInv ==
  /\ SchedulingTypeOK /\ KnownFinite
  /\ sBuilt = -1 => sChoice = NoPlan
  /\ sChoice # NoPlan => Least(sChoice)

\* A set of natural numbers that is not empty has a least element.
LEMMA LeastOf ==
  ASSUME NEW T, T \subseteq Nat, T # {}
  PROVE  \E x \in T : \A y \in T : x <= y
<1> DEFINE R == OpToRel(<, Nat)
<1>1. IsWellFoundedOn(R, Nat)
  BY NatLessThanWellFounded
<1>2. \A x, y \in Nat : x < y => <<x, y>> \in R
  BY DEF OpToRel
<1> HIDE DEF R
<1>3. PICK x \in T : \A y \in T : ~(<<y, x>> \in R)
  BY <1>1, WFMin
<1>4. \A y \in T : ~(y < x)
  BY <1>2, <1>3
<1>5. \A y \in T : x <= y
  BY <1>4
<1> QED
  BY <1>5

\* Of the tuples of a set, those whose entry at a position is least.
Narrowed(S, f, k) == {x \in S : \A y \in S : f[x][k] <= f[y][k]}

\* There are such, where the entries are integers bounded from below.
LEMMA NarrowedIsThere ==
  ASSUME NEW S, S # {}, NEW f, NEW k, NEW least \in Int,
         \A x \in S : f[x][k] \in Int /\ least <= f[x][k]
  PROVE  Narrowed(S, f, k) # {} /\ Narrowed(S, f, k) \subseteq S
<1> DEFINE T == {f[x][k] - least : x \in S}
<1>1. T \subseteq Nat /\ T # {}
  OBVIOUS
<1>2. PICK t \in T : \A u \in T : t <= u
  BY <1>1, LeastOf
<1>3. PICK x \in S : t = f[x][k] - least
  BY <1>2
<1>4. \A y \in S : f[y][k] - least \in T
  OBVIOUS
<1>5. \A y \in S : f[x][k] <= f[y][k]
  <2> SUFFICES ASSUME NEW y \in S PROVE f[x][k] <= f[y][k]
    OBVIOUS
  <2>1. f[x][k] - least <= f[y][k] - least
    BY <1>2, <1>3, <1>4
  <2> QED
    BY <2>1
<1> QED
  BY <1>5 DEF Narrowed

\* Tuples of six numbers from some least one on, and that none of them is before
\* the one of p.
NumbersFrom(S, f, least) == \A x \in S : \A k \in 1..6 : f[x][k] \in Int /\ least <= f[x][k]
NoneBefore(S, f, p) ==
  \A q \in S :
    \/ \E i \in 1..6 : f[p][i] < f[q][i] /\ \A k \in 1..(i - 1) : f[p][k] = f[q][k]
    \/ \A i \in 1..6 : f[p][i] = f[q][i]

\* Tuples of six numbers have a least one in the lexicographic order: none is
\* before it, and one that is not after it is the same.
LEMMA LeastTuple ==
  ASSUME NEW S, S # {}, NEW f, NEW least \in Int, NumbersFrom(S, f, least)
  PROVE  \E p \in S : NoneBefore(S, f, p)
<1> DEFINE S1 == Narrowed(S, f, 1)
           S2 == Narrowed(S1, f, 2)
           S3 == Narrowed(S2, f, 3)
           S4 == Narrowed(S3, f, 4)
           S5 == Narrowed(S4, f, 5)
           S6 == Narrowed(S5, f, 6)
<1>0. \A T : \A k \in 1..6 : T # {} /\ T \subseteq S => Narrowed(T, f, k) # {} /\ Narrowed(T, f, k) \subseteq T
  <2> SUFFICES ASSUME NEW T, NEW k \in 1..6, T # {}, T \subseteq S
               PROVE  Narrowed(T, f, k) # {} /\ Narrowed(T, f, k) \subseteq T
    OBVIOUS
  <2>1. \A x \in T : f[x][k] \in Int /\ least <= f[x][k]
    BY DEF NumbersFrom
  <2> QED
    BY <2>1, NarrowedIsThere
<1>1. S1 # {} /\ S1 \subseteq S /\ S1 \subseteq S
  BY <1>0
<1>2. S2 # {} /\ S2 \subseteq S1 /\ S2 \subseteq S
  <2> HIDE DEF S1
  <2> QED
    BY <1>0, <1>1
<1>3. S3 # {} /\ S3 \subseteq S2 /\ S3 \subseteq S
  <2> HIDE DEF S2
  <2> QED
    BY <1>0, <1>2
<1>4. S4 # {} /\ S4 \subseteq S3 /\ S4 \subseteq S
  <2> HIDE DEF S3
  <2> QED
    BY <1>0, <1>3
<1>5. S5 # {} /\ S5 \subseteq S4 /\ S5 \subseteq S
  <2> HIDE DEF S4
  <2> QED
    BY <1>0, <1>4
<1>6. S6 # {} /\ S6 \subseteq S5 /\ S6 \subseteq S
  <2> HIDE DEF S5
  <2> QED
    BY <1>0, <1>5
<1>7. PICK p \in S6 : TRUE
  BY <1>6
<1>8. \A T, k : \A x \in Narrowed(T, f, k) : \A y \in T : f[x][k] <= f[y][k]
  BY DEF Narrowed
<1>9. \A T, k : \A x, y \in T : x \in Narrowed(T, f, k) /\ f[x][k] = f[y][k] => y \in Narrowed(T, f, k)
  BY DEF Narrowed
<1>10. /\ p \in S6 /\ p \in S5 /\ p \in S4 /\ p \in S3 /\ p \in S2 /\ p \in S1 /\ p \in S
  BY <1>1, <1>2, <1>3, <1>4, <1>5, <1>6, <1>7
<1> SUFFICES ASSUME NEW q \in S
             PROVE  \/ \E i \in 1..6 : f[p][i] < f[q][i] /\ \A k \in 1..(i - 1) : f[p][k] = f[q][k]
                    \/ \A i \in 1..6 : f[p][i] = f[q][i]
  BY <1>10 DEF NoneBefore
<1>11. \A i \in 1..6 : f[p][i] \in Int /\ f[q][i] \in Int
  BY <1>10 DEF NumbersFrom
<1>12. f[p][1] <= f[q][1] /\ (f[p][1] = f[q][1] => q \in S1)
  BY <1>8, <1>9, <1>10
<1>13. q \in S1 => f[p][2] <= f[q][2] /\ (f[p][2] = f[q][2] => q \in S2)
  BY <1>8, <1>9, <1>10
<1>14. q \in S2 => f[p][3] <= f[q][3] /\ (f[p][3] = f[q][3] => q \in S3)
  BY <1>8, <1>9, <1>10
<1>15. q \in S3 => f[p][4] <= f[q][4] /\ (f[p][4] = f[q][4] => q \in S4)
  BY <1>8, <1>9, <1>10
<1>16. q \in S4 => f[p][5] <= f[q][5] /\ (f[p][5] = f[q][5] => q \in S5)
  BY <1>8, <1>9, <1>10
<1>17. q \in S5 => f[p][6] <= f[q][6]
  BY <1>8, <1>9, <1>10
<1> HIDE DEF S1, S2, S3, S4, S5, S6
<1>18. CASE f[p][1] # f[q][1]
  BY <1>11, <1>12, <1>18
<1>19. CASE f[p][1] = f[q][1] /\ f[p][2] # f[q][2]
  BY <1>11, <1>12, <1>13, <1>19
<1>20. CASE f[p][1] = f[q][1] /\ f[p][2] = f[q][2] /\ f[p][3] # f[q][3]
  BY <1>11, <1>12, <1>13, <1>14, <1>20
<1>21. CASE f[p][1] = f[q][1] /\ f[p][2] = f[q][2] /\ f[p][3] = f[q][3] /\ f[p][4] # f[q][4]
  BY <1>11, <1>12, <1>13, <1>14, <1>15, <1>21
<1>22. CASE f[p][1] = f[q][1] /\ f[p][2] = f[q][2] /\ f[p][3] = f[q][3] /\ f[p][4] = f[q][4]
            /\ f[p][5] # f[q][5]
  BY <1>11, <1>12, <1>13, <1>14, <1>15, <1>16, <1>22
<1>23. CASE f[p][1] = f[q][1] /\ f[p][2] = f[q][2] /\ f[p][3] = f[q][3] /\ f[p][4] = f[q][4]
            /\ f[p][5] = f[q][5] /\ f[p][6] # f[q][6]
  BY <1>11, <1>12, <1>13, <1>14, <1>15, <1>16, <1>17, <1>23
<1>24. CASE f[p][1] = f[q][1] /\ f[p][2] = f[q][2] /\ f[p][3] = f[q][3] /\ f[p][4] = f[q][4]
            /\ f[p][5] = f[q][5] /\ f[p][6] = f[q][6]
  BY <1>24
<1> QED
  BY <1>18, <1>19, <1>20, <1>21, <1>22, <1>23, <1>24

\* The image of a finite set is finite.
LEMMA ImageFinite ==
  ASSUME NEW S, IsFiniteSet(S), NEW f, DOMAIN f = S, f = [x \in S |-> f[x]]
  PROVE  IsFiniteSet({f[x] : x \in S})
<1> DEFINE T == {f[x] : x \in S}
<1>1. f \in [S -> T]
  OBVIOUS
<1>2. \A t \in T : \E x \in S : f[x] = t
  OBVIOUS
<1>3. f \in Surjection(S, T)
  BY <1>1, <1>2 DEF Surjection
<1> QED
  BY <1>3, FS_Surjection

\* What there is to compare of a plan: each is what some measurement states.
LEMMA ComparableFound ==
  ASSUME SchedulingInv, NEW m, NEW plan
  PROVE  /\ IsFiniteSet(Comparable(m, plan))
         /\ \A c \in Comparable(m, plan) : \E b \in sBenchmarks : c.tps = b.tps /\ c.tps \in Int
<1> DEFINE found == {k \in sBenchmarks :
                       /\ k.profile = plan.profile /\ k.mode = plan.mode /\ k.usable
                       /\ k.workload = m.workload /\ k.runtime = RuntimeOf(plan.profile)
                       /\ m.notBefore <= k.at /\ k.at <= sClock}
           f == [b \in found |-> [b EXCEPT !.id = 0]]
<1>1. found \subseteq sBenchmarks /\ sBenchmarks \subseteq KnowableBenchmarks /\ IsFiniteSet(sBenchmarks)
  BY DEF SchedulingInv, SchedulingTypeOK, KnownFinite
<1>2. IsFiniteSet(found)
  BY <1>1, FS_Subset
<1>3. Comparable(m, plan) = {[b EXCEPT !.id = 0] : b \in found}
  BY DEF Comparable
<1> HIDE DEF found
<1>4. IsFiniteSet({f[b] : b \in found})
  <2>1. DOMAIN f = found /\ f = [b \in found |-> f[b]]
    OBVIOUS
  <2> HIDE DEF f
  <2> QED
    BY <1>2, <2>1, ImageFinite
<1>5. Comparable(m, plan) = {f[b] : b \in found}
  BY <1>3
<1>6. \A c \in Comparable(m, plan) : \E b \in sBenchmarks : c.tps = b.tps /\ c.tps \in Int
  <2> SUFFICES ASSUME NEW c \in Comparable(m, plan)
               PROVE  \E b \in sBenchmarks : c.tps = b.tps /\ c.tps \in Int
    OBVIOUS
  <2>1. PICK b \in found : c = [b EXCEPT !.id = 0]
    BY <1>3
  <2>2. b \in sBenchmarks /\ "tps" \in DOMAIN b /\ b.tps \in Int
    BY <1>1, SchedulingAssumption
  <2>3. c.tps = b.tps
    BY <2>1, <2>2
  <2> QED
    BY <2>2, <2>3
<1> QED
  BY <1>4, <1>5, <1>6

\* A single comparable measurement is a plan's evidence, and nothing else is.
LEMMA EvidenceIs ==
  ASSUME SchedulingInv, NEW m, NEW plan
  PROVE  LET e == Evidence(m, plan)
         IN /\ e.measured = (Cardinality(Comparable(m, plan)) = 1)
            /\ e.measured => {b.tps : b \in Comparable(m, plan)} = {e.tps}
            /\ e.tps \in Int /\ \A most \in Nat : (\A b \in sBenchmarks : b.tps <= most) => e.tps <= most
<1> DEFINE found == Comparable(m, plan)
           c == CHOOSE b \in found : TRUE
<1>1. IsFiniteSet(found) /\ \A b \in found : \E k \in sBenchmarks : b.tps = k.tps /\ b.tps \in Int
  BY ComparableFound
<1>2. CASE Cardinality(found) = 1
  <2>1. PICK x : found = {x}
    <3> HIDE DEF found
    <3> QED
      BY <1>1, <1>2, FS_Singleton
  <2>2. c = x
    BY <2>1
  <2>3. Evidence(m, plan) = [tps |-> c.tps, measured |-> TRUE]
    BY <1>2 DEF Evidence
  <2> HIDE DEF found, c
  <2>4. {b.tps : b \in found} = {c.tps}
    BY <2>1, <2>2
  <2>5. Evidence(m, plan).tps = c.tps /\ Evidence(m, plan).measured = TRUE
    BY <2>3
  <2>6. c.tps \in Int /\ \E k \in sBenchmarks : c.tps = k.tps
    BY <1>1, <2>1, <2>2
  <2> QED
    BY <1>2, <2>4, <2>5, <2>6 DEF found
<1>3. CASE Cardinality(found) # 1
  <2>1. Evidence(m, plan) = NoEvidence
    BY <1>3 DEF Evidence
  <2>2. Evidence(m, plan).tps = 0 /\ Evidence(m, plan).measured = FALSE
    BY <2>1 DEF NoEvidence
  <2>3. (Cardinality(found) = 1) = FALSE
    BY <1>3
  <2>4. 0 \in Int /\ \A most \in Nat : 0 <= most
    OBVIOUS
  <2> HIDE DEF found
  <2>5. Evidence(m, plan).measured = (Cardinality(found) = 1)
    BY <2>2, <2>3
  <2>6. ~Evidence(m, plan).measured
    BY <2>2
  <2> QED
    BY <2>2, <2>4, <2>5, <2>6 DEF found
<1> QED
  BY <1>2, <1>3

\* Where the names of the modes stand.
LEMMA ModesOrdered ==
  /\ \A mode \in ExecutionMode : ModeOrder(mode) \in 1..4 /\ ModesInOrder[ModeOrder(mode)] = mode
<1> SUFFICES ASSUME NEW mode \in ExecutionMode
             PROVE  ModeOrder(mode) \in 1..4 /\ ModesInOrder[ModeOrder(mode)] = mode
  OBVIOUS
<1>1. \E i \in 1..4 : ModesInOrder[i] = mode
  <2>1. ModesInOrder[1] = "COMPOSE" /\ ModesInOrder[2] = "LOCAL" /\ ModesInOrder[3] = "PIPELINE"
        /\ ModesInOrder[4] = "POOL"
    BY DEF ModesInOrder
  <2> QED
    BY <2>1 DEF ExecutionMode
<1> QED
  BY <1>1 DEF ModeOrder

\* A rank, entry by entry.
LEMMA RankEntries ==
  ASSUME NEW m, NEW plan
  PROVE  /\ DOMAIN Rank(m, plan) = 1..6
         /\ Rank(m, plan)[1] = (IF Evidence(m, plan).measured THEN 0 ELSE 1)
         /\ Rank(m, plan)[2] = (IF m.preemption = "prefer" /\ ~UsesPreemptible(plan) THEN 1 ELSE 0)
         /\ Rank(m, plan)[3] = (IF plan.mode = "PIPELINE" THEN 1 ELSE 0)
         /\ Rank(m, plan)[4] = -Evidence(m, plan).tps
         /\ Rank(m, plan)[5] = ModeOrder(plan.mode)
         /\ Rank(m, plan)[6] = plan.profile
<1> DEFINE a == IF Evidence(m, plan).measured THEN 0 ELSE 1
           b == IF m.preemption = "prefer" /\ ~UsesPreemptible(plan) THEN 1 ELSE 0
           c == IF plan.mode = "PIPELINE" THEN 1 ELSE 0
           d == -Evidence(m, plan).tps
           e == ModeOrder(plan.mode)
<1>1. Rank(m, plan) = <<a, b, c, d, e, plan.profile>>
  BY DEF Rank
<1> HIDE DEF a, b, c, d, e
<1>2. /\ DOMAIN Rank(m, plan) = 1..6
      /\ Rank(m, plan)[1] = a /\ Rank(m, plan)[2] = b /\ Rank(m, plan)[3] = c /\ Rank(m, plan)[4] = d
      /\ Rank(m, plan)[5] = e /\ Rank(m, plan)[6] = plan.profile
  BY <1>1
<1> QED
  BY <1>2 DEF a, b, c, d, e

\* Among eligible plans there is one no other is ranked before.
LEMMA LeastPlan ==
  ASSUME SchedulingInv, NEW m, NEW eligible, eligible # {}, eligible \subseteq Plans
  PROVE  \E p \in eligible : \A q \in eligible \ {p} : Before(Rank(m, p), Rank(m, q))
<1>1. PICK most \in Nat : \A b \in sBenchmarks : b.tps <= most
  BY DEF SchedulingInv, KnownFinite
<1>0. PICK f : f = [p \in Plans |-> Rank(m, p)]
  OBVIOUS
<1>2. \A p \in Plans : \A k \in 1..6 : Rank(m, p)[k] \in Int /\ -most <= Rank(m, p)[k]
  <2> SUFFICES ASSUME NEW p \in Plans, NEW k \in 1..6
               PROVE  Rank(m, p)[k] \in Int /\ -most <= Rank(m, p)[k]
    OBVIOUS
  <2>1. Evidence(m, p).tps \in Int /\ Evidence(m, p).tps <= most
    BY <1>1, EvidenceIs
  <2>2. p.profile \in Nat /\ p.mode \in ExecutionMode
    BY SchedulingAssumption DEF Plans
  <2>3. ModeOrder(p.mode) \in 1..4
    BY <2>2, ModesOrdered
  <2>4. k = 1 \/ k = 2 \/ k = 3 \/ k = 4 \/ k = 5 \/ k = 6
    OBVIOUS
  <2>5. Rank(m, p)[1] \in 0..1 /\ Rank(m, p)[2] \in 0..1 /\ Rank(m, p)[3] \in 0..1
    BY RankEntries
  <2>6. Rank(m, p)[4] \in Int /\ -most <= Rank(m, p)[4]
    BY <2>1, RankEntries
  <2>7. Rank(m, p)[5] \in 1..4 /\ Rank(m, p)[6] \in Nat
    BY <2>2, <2>3, RankEntries
  <2>8. 0 - most <= 0
    OBVIOUS
  <2> QED
    BY <2>4, <2>5, <2>6, <2>7, <2>8
<1>3. -most \in Int /\ NumbersFrom(eligible, f, -most)
  BY <1>0, <1>2 DEF NumbersFrom
<1>4. PICK p \in eligible : NoneBefore(eligible, f, p)
  BY <1>3, LeastTuple
<1> SUFFICES ASSUME NEW q \in eligible \ {p} PROVE Before(Rank(m, p), Rank(m, q))
  OBVIOUS
<1>5. p \in Plans /\ q \in Plans /\ f[p] = Rank(m, p) /\ f[q] = Rank(m, q)
  BY <1>0
<1>6. ~ \A i \in 1..6 : f[p][i] = f[q][i]
  <2> SUFFICES ASSUME \A i \in 1..6 : f[p][i] = f[q][i] PROVE FALSE
    OBVIOUS
  <2>1. f[p][5] = f[q][5] /\ f[p][6] = f[q][6]
    OBVIOUS
  <2>2. ModeOrder(p.mode) = ModeOrder(q.mode) /\ p.profile = q.profile
    BY <1>5, <2>1, RankEntries
  <2>3. p.mode \in ExecutionMode /\ q.mode \in ExecutionMode
    BY <1>5 DEF Plans
  <2>4. p.mode = q.mode
    BY <2>2, <2>3, ModesOrdered
  <2>5. p = q
    BY <1>5, <2>2, <2>4 DEF Plans
  <2> QED
    BY <2>5
<1>7. \E i \in 1..6 : f[p][i] < f[q][i] /\ \A k \in 1..(i - 1) : f[p][k] = f[q][k]
  BY <1>4, <1>6 DEF NoneBefore
<1>8. DOMAIN Rank(m, p) = 1..6
  BY RankEntries
<1> QED
  BY <1>5, <1>7, <1>8 DEF Before

\* Where nothing that is known changes, nor the clock, the ranks stay as they are.
Frozen == UNCHANGED <<sClock, sValidations, sBenchmarks, sRuntimes, sBuilt, sMission>>

LEMMA FrozenRuntime ==
  ASSUME Frozen, NEW profile
  PROVE  RuntimeOf(profile)' = RuntimeOf(profile)
BY DEF Frozen, RuntimeOf

LEMMA FrozenMatching ==
  ASSUME Frozen, NEW profile
  PROVE  Matching(profile)' = Matching(profile)
BY FrozenRuntime DEF Frozen, Matching, Given

LEMMA FrozenEligible ==
  ASSUME Frozen, NEW m, NEW plan
  PROVE  Eligible(m, plan)' <=> Eligible(m, plan)
<1>1. Certified(m, plan.profile)' <=> Certified(m, plan.profile)
  BY FrozenRuntime, FrozenMatching DEF Certified
<1>2. \A lease : LeaseAllows(m, lease)' <=> LeaseAllows(m, lease)
  BY DEF Frozen, LeaseAllows
<1> QED
  BY <1>1, <1>2 DEF Eligible

LEMMA FrozenComparable ==
  ASSUME Frozen, NEW m, NEW plan
  PROVE  Comparable(m, plan)' = Comparable(m, plan)
BY FrozenRuntime DEF Frozen, Comparable

LEMMA FrozenRank ==
  ASSUME Frozen, NEW m, NEW plan
  PROVE  Rank(m, plan)' = Rank(m, plan)
<1>1. Evidence(m, plan)' = Evidence(m, plan)
  BY FrozenComparable DEF Evidence
<1> QED
  BY <1>1 DEF Rank

LEMMA FrozenLeast ==
  ASSUME Frozen, NEW plan
  PROVE  Least(plan)' <=> Least(plan)
<1>1. sMission' = sMission
  BY DEF Frozen
<1>2. \A p : Eligible(sMission, p)' <=> Eligible(sMission, p)
  BY <1>1, FrozenEligible
<1>3. \A p : Rank(sMission, p)' = Rank(sMission, p)
  BY <1>1, FrozenRank
<1> QED
  BY <1>2, <1>3 DEF Least

\* What select returns is the least of the eligible plans, if there are any.
LEMMA SelectIsLeast ==
  ASSUME SchedulingInv, NEW m, m = sMission
  PROVE  /\ Select(m) \in Plans \cup {NoPlan}
         /\ Select(m) # NoPlan => Least(Select(m))
<1> DEFINE eligible == {plan \in Plans : Eligible(m, plan)}
           choice == CHOOSE p \in eligible : \A q \in eligible \ {p} : Before(Rank(m, p), Rank(m, q))
<1>1. CASE eligible = {}
  <2>1. Select(m) = NoPlan
    BY <1>1 DEF Select
  <2> QED
    BY <2>1
<1>2. CASE eligible # {}
  <2>1. Select(m) = choice
    BY <1>2 DEF Select
  <2>2. PICK E : E = eligible
    OBVIOUS
  <2>3. \E p \in E : \A q \in E \ {p} : Before(Rank(m, p), Rank(m, q))
    <3>1. E # {} /\ E \subseteq Plans
      BY <1>2, <2>2
    <3> QED
      BY <3>1, LeastPlan
  <2>4. choice \in eligible /\ \A q \in eligible \ {choice} : Before(Rank(m, choice), Rank(m, q))
    BY <2>2, <2>3
  <2> HIDE DEF choice
  <2>5. choice \in Plans /\ Eligible(m, choice)
        /\ \A q \in Plans : Eligible(m, q) /\ q # choice => Before(Rank(m, choice), Rank(m, q))
    BY <2>4
  <2>6. Least(choice)
    BY <2>5 DEF Least
  <2> QED
    BY <2>1, <2>5, <2>6
<1> QED
  BY <1>1, <1>2

LEMMA SchedulingInvInit == SchedulingInit => SchedulingInv
<1> SUFFICES ASSUME SchedulingInit PROVE SchedulingInv
  OBVIOUS
<1>1. SchedulingTypeOK
  BY SchedulingAssumption DEF SchedulingInit, SchedulingTypeOK
<1>2. KnownFinite
  <2>1. \A b \in sBenchmarks : b.tps <= 0
    BY DEF SchedulingInit
  <2>2. 0 \in Nat
    OBVIOUS
  <2>3. Given(sValidations) = {}
    BY DEF SchedulingInit, Given
  <2> QED
    BY <2>1, <2>2, <2>3, FS_EmptySet DEF KnownFinite, SchedulingInit
<1> QED
  BY <1>1, <1>2 DEF SchedulingInit, SchedulingInv

LEMMA KnowStep ==
  ASSUME SchedulingInv, Know
  PROVE  SchedulingInv'
<1>1. sBuilt = -1 /\ sChoice = NoPlan /\ UNCHANGED <<sClock, sBuilt, sMission, sChoice>>
  BY DEF Know, SchedulingInv
<1>2. /\ sValidations' = sValidations \/ \E v \in KnowableValidations : sValidations' = Append(sValidations, v)
      /\ sBenchmarks' = sBenchmarks \/ \E b \in KnowableBenchmarks : sBenchmarks' = sBenchmarks \cup {b}
      /\ sRuntimes' = sRuntimes \/ \E r \in KnowableRuntimes : sRuntimes' = Append(sRuntimes, r)
  BY DEF Know
<1>3. SchedulingTypeOK'
  <2>1. sValidations' \in Seq(KnowableValidations)
    BY <1>2 DEF SchedulingInv, SchedulingTypeOK
  <2>2. sRuntimes' \in Seq(KnowableRuntimes)
    BY <1>2 DEF SchedulingInv, SchedulingTypeOK
  <2> QED
    BY <1>1, <1>2, <2>1, <2>2 DEF SchedulingInv, SchedulingTypeOK
<1>4. IsFiniteSet(Given(sValidations))' /\ IsFiniteSet(sBenchmarks)'
  <2>1. IsFiniteSet(Given(sValidations)) /\ IsFiniteSet(sBenchmarks)
    BY DEF SchedulingInv, KnownFinite
  <2>2. \A S, x : IsFiniteSet(S) => IsFiniteSet(S \cup {x})
    BY FS_AddElement
  <2>3. IsFiniteSet(Given(sValidations'))
    <3>1. sValidations \in Seq(KnowableValidations)
      BY DEF SchedulingInv, SchedulingTypeOK
    <3>2. CASE sValidations' = sValidations
      BY <2>1, <3>2
    <3>3. ASSUME NEW v, sValidations' = Append(sValidations, v)
          PROVE  Given(sValidations') = Given(sValidations) \cup {v}
      <4>1. /\ DOMAIN sValidations' = DOMAIN sValidations \cup {Len(sValidations) + 1}
            /\ \A i \in DOMAIN sValidations : sValidations'[i] = sValidations[i]
            /\ sValidations'[Len(sValidations) + 1] = v
        BY <3>1, <3>3
      <4> QED
        BY <4>1 DEF Given
    <3>4. CASE \E v : sValidations' = Append(sValidations, v)
      <4>1. PICK v : sValidations' = Append(sValidations, v)
        BY <3>4
      <4>2. Given(sValidations') = Given(sValidations) \cup {v}
        BY <3>3, <4>1
      <4> QED
        BY <2>1, <2>2, <4>2
    <3> QED
      BY <1>2, <3>2, <3>4
  <2>4. IsFiniteSet(sBenchmarks')
    <3>1. sBenchmarks' = sBenchmarks \/ \E x : sBenchmarks' = sBenchmarks \cup {x}
      BY <1>2
    <3> QED
      BY <2>1, <2>2, <3>1
  <2> QED
    BY <2>3, <2>4 DEF Given
<1>5. \E most \in Nat : \A b \in sBenchmarks' : b.tps <= most
  <2>1. PICK most \in Nat : \A b \in sBenchmarks : b.tps <= most
    BY DEF SchedulingInv, KnownFinite
  <2>2. CASE sBenchmarks' = sBenchmarks
    BY <2>1, <2>2
  <2>3. CASE \E b \in KnowableBenchmarks : sBenchmarks' = sBenchmarks \cup {b}
    <3>1. PICK b \in KnowableBenchmarks : sBenchmarks' = sBenchmarks \cup {b}
      BY <2>3
    <3>2. b.tps \in Int /\ \A k \in sBenchmarks : k.tps \in Int
      BY SchedulingAssumption DEF SchedulingInv, SchedulingTypeOK
    <3>3. CASE b.tps <= most
      BY <2>1, <3>1, <3>3
    <3>4. CASE ~(b.tps <= most)
      <4>1. b.tps \in Nat /\ most <= b.tps
        BY <3>2, <3>4
      <4>2. \A k \in sBenchmarks : k.tps <= b.tps
        BY <2>1, <3>2, <4>1
      <4>3. \A k \in sBenchmarks' : k.tps <= b.tps
        BY <3>1, <3>2, <4>2
      <4> QED
        BY <4>1, <4>3
    <3> QED
      BY <3>3, <3>4
  <2> QED
    BY <1>2, <2>2, <2>3
<1> QED
  BY <1>1, <1>3, <1>4, <1>5 DEF SchedulingInv, KnownFinite

LEMMA SchedulingInvStep == SchedulingInv /\ [SchedulingNext]_schedulingVars => SchedulingInv'
<1> SUFFICES ASSUME SchedulingInv, [SchedulingNext]_schedulingVars PROVE SchedulingInv'
  OBVIOUS
<1>1. CASE Know
  BY <1>1, KnowStep
<1>2. CASE Build
  <2>1. sChoice' = NoPlan /\ sClock \in Nat
    BY <1>2, SchedulingAssumption DEF Build, SchedulingInv, SchedulingTypeOK
  <2>2. SchedulingTypeOK' /\ KnownFinite'
    BY <1>2, <2>1 DEF Build, SchedulingInv, SchedulingTypeOK, KnownFinite
  <2> QED
    BY <2>1, <2>2 DEF SchedulingInv
<1>3. CASE AskForPlan
  <2>1. PICK choice : choice = Select(sMission)
    OBVIOUS
  <2>2. choice \in Plans \cup {NoPlan} /\ (choice # NoPlan => Least(choice))
    BY <2>1, SelectIsLeast
  <2>3. sChoice' = choice /\ sBuilt # -1 /\ Frozen
    BY <1>3, <2>1 DEF AskForPlan, Frozen
  <2>4. choice # NoPlan => Least(choice)'
    BY <2>2, <2>3, FrozenLeast
  <2>5. SchedulingTypeOK' /\ KnownFinite' /\ sBuilt' # -1
    BY <2>2, <2>3 DEF Frozen, SchedulingInv, SchedulingTypeOK, KnownFinite
  <2>6. Least(sChoice)' <=> Least(choice)'
    BY <2>3 DEF Least
  <2> QED
    BY <2>3, <2>4, <2>5, <2>6 DEF SchedulingInv
<1>4. CASE ScheduleTick
  <2>1. sChoice' = NoPlan /\ sClock' \in 0..ScheduleClock /\ sBuilt \in -1..sClock'
    BY <1>4, SchedulingAssumption DEF ScheduleTick, SchedulingInv, SchedulingTypeOK
  <2>2. SchedulingTypeOK' /\ KnownFinite'
    BY <1>4, <2>1 DEF ScheduleTick, SchedulingInv, SchedulingTypeOK, KnownFinite
  <2> QED
    BY <2>1, <2>2 DEF SchedulingInv
<1>5. CASE UNCHANGED schedulingVars
  <2>1. Frozen /\ sChoice' = sChoice
    BY <1>5 DEF schedulingVars, Frozen
  <2>2. SchedulingTypeOK' /\ KnownFinite'
    BY <2>1 DEF Frozen, SchedulingInv, SchedulingTypeOK, KnownFinite
  <2>3. PICK choice : choice = sChoice
    OBVIOUS
  <2>4. Least(choice)' <=> Least(choice)
    BY <2>1, FrozenLeast
  <2>5. (Least(sChoice)' <=> Least(choice)') /\ (Least(sChoice) <=> Least(choice))
    BY <2>1, <2>3 DEF Least
  <2> QED
    BY <2>1, <2>2, <2>4, <2>5 DEF Frozen, SchedulingInv
<1> QED
  BY <1>1, <1>2, <1>3, <1>4, <1>5 DEF SchedulingNext

\* What certifies an eligible plan: the only runtime that is known of its name,
\* and the only validation of its profile under it.
LEMMA CertifiedBy ==
  ASSUME SchedulingInv, NEW m, NEW profile, Certified(m, profile)
  PROVE  /\ {r \in Given(sRuntimes) : r.id = Profiles[profile].runtime} = {RuntimeOf(profile)}
         /\ \E v : Matching(profile) = {v} /\ Favourable(m, v)
<1> DEFINE group == {i \in DOMAIN sRuntimes : sRuntimes[i].id = Profiles[profile].runtime}
           first == sRuntimes[CHOOSE i \in group : \A k \in group : i <= k]
<1>1. RuntimeOf(profile) # NoRuntime
  BY DEF Certified
<1>2. group # {} /\ (\A i \in group : sRuntimes[i] = first) /\ RuntimeOf(profile) = first
  BY <1>1 DEF RuntimeOf
<1>3. {r \in Given(sRuntimes) : r.id = Profiles[profile].runtime} = {sRuntimes[i] : i \in group}
  BY DEF Given
<1>4. {sRuntimes[i] : i \in group} = {first}
  <2> HIDE DEF first
  <2> QED
    BY <1>2
<1>5. PICK v : Matching(profile) = {v}
  <2>1. IsFiniteSet(Given(sValidations)) /\ Matching(profile) \subseteq Given(sValidations)
    BY DEF SchedulingInv, KnownFinite, Matching
  <2>2. IsFiniteSet(Matching(profile))
    BY <2>1, FS_Subset
  <2> QED
    BY <2>2, FS_Singleton DEF Certified
<1> HIDE DEF first
<1> QED
  BY <1>2, <1>3, <1>4, <1>5 DEF Certified

\* For any profiles, vessels, missions and records: whatever turned up, and when,
\* nothing that is known contradicts what certifies a plan that is chosen.
THEOREM ChoiceUncontradicted == SchedulingSpec => []ChoiceIsUncontradicted
<1>1. SchedulingInv => ChoiceIsUncontradicted
  <2> SUFFICES ASSUME SchedulingInv, sChoice # NoPlan
               PROVE  ChoiceIsUncontradicted
    BY DEF ChoiceIsUncontradicted
  <2> DEFINE runtime == Profiles[sChoice.profile].runtime
             runtimes == {r \in Given(sRuntimes) : r.id = runtime}
             about == {v \in Given(sValidations) :
                         v.profile = sChoice.profile /\ v.exact /\ v.runtime \in runtimes}
             its == RuntimeOf(sChoice.profile)
  <2>1. Certified(sMission, sChoice.profile)
    BY DEF SchedulingInv, Least, Eligible
  <2>2. runtimes = {its}
    BY <2>1, CertifiedBy
  <2>3. PICK v : Matching(sChoice.profile) = {v} /\ Favourable(sMission, v)
    BY <2>1, CertifiedBy
  <2>4. about = {v}
    <3> HIDE DEF runtimes, its
    <3>1. Matching(sChoice.profile) =
            {w \in Given(sValidations) : w.profile = sChoice.profile /\ w.exact /\ w.runtime = its}
      BY DEF Matching, its
    <3> QED
      BY <2>2, <2>3, <3>1
  <2>5. v.state # "UNSUPPORTED"
    BY <2>3 DEF Favourable
  <2> HIDE DEF runtimes, about, its
  <2>6. /\ \A r, q \in runtimes : r = q
        /\ \A w, x \in about : w = x
        /\ \E w \in about : w.state # "UNSUPPORTED"
    BY <2>2, <2>4, <2>5
  <2> QED
    BY <2>6 DEF ChoiceIsUncontradicted, runtimes, about
<1> QED
  BY SchedulingInvInit, SchedulingInvStep, <1>1, PTL DEF SchedulingSpec

\* What speaks for an eligible plan is what there is to compare of it: a single
\* measurement, apart from its id, exactly if its evidence counts as measured.
LEMMA SpeakingIs ==
  ASSUME SchedulingInv, NEW plan, Eligible(sMission, plan)
  PROVE  LET e == Evidence(sMission, plan)
         IN /\ e.measured <=> /\ Speaking(plan) # {}
                              /\ \A b, k \in Speaking(plan) :
                                   [b EXCEPT !.id = 0] = [k EXCEPT !.id = 0]
            /\ e.measured => \A b \in Speaking(plan) : b.tps = e.tps
<1> DEFINE F == Comparable(sMission, plan)
           e == Evidence(sMission, plan)
<1>1. {r \in Given(sRuntimes) : r.id = Profiles[plan.profile].runtime} = {RuntimeOf(plan.profile)}
  BY CertifiedBy DEF Eligible
<1>2. F = {[b EXCEPT !.id = 0] : b \in Speaking(plan)}
  <2>1. \A b : (\A r \in Given(sRuntimes) : r.id = Profiles[plan.profile].runtime => r = b.runtime)
               <=> b.runtime = RuntimeOf(plan.profile)
    BY <1>1
  <2>2. Speaking(plan) = {k \in sBenchmarks :
           /\ k.profile = plan.profile /\ k.mode = plan.mode /\ k.usable
           /\ k.workload = sMission.workload /\ k.runtime = RuntimeOf(plan.profile)
           /\ sMission.notBefore <= k.at /\ k.at <= sClock}
    BY <2>1 DEF Speaking
  <2> QED
    BY <2>2 DEF Comparable
<1>3. /\ e.measured = (Cardinality(F) = 1)
      /\ e.measured => {b.tps : b \in F} = {e.tps}
  BY EvidenceIs
<1>4. IsFiniteSet(F)
  BY ComparableFound
<1>5. \A b \in Speaking(plan) : [b EXCEPT !.id = 0].tps = b.tps
  BY SchedulingAssumption DEF Speaking, SchedulingInv, SchedulingTypeOK
<1> HIDE DEF F, e
<1>6. Cardinality(F) = 1 <=> \E x \in F : \A y \in F : y = x
  <2>1. Cardinality(F) = 1 <=> \E x : F = {x}
    BY <1>4, FS_Singleton
  <2>2. ASSUME NEW x, F = {x} PROVE x \in F /\ \A y \in F : y = x
    BY <2>2
  <2>3. ASSUME NEW x \in F, \A y \in F : y = x PROVE F = {x}
    BY <2>3
  <2> QED
    BY <2>1, <2>2, <2>3
<1>7. (\E x \in F : \A y \in F : y = x)
      <=> /\ Speaking(plan) # {}
          /\ \A b, k \in Speaking(plan) : [b EXCEPT !.id = 0] = [k EXCEPT !.id = 0]
  <2>1. \A b \in Speaking(plan) : [b EXCEPT !.id = 0] \in F
    BY <1>2
  <2>2. \A y \in F : \E b \in Speaking(plan) : y = [b EXCEPT !.id = 0]
    BY <1>2
  <2>3. ASSUME NEW x \in F, \A y \in F : y = x
        PROVE  /\ Speaking(plan) # {}
               /\ \A b, k \in Speaking(plan) : [b EXCEPT !.id = 0] = [k EXCEPT !.id = 0]
    BY <2>1, <2>2, <2>3
  <2>4. ASSUME NEW b \in Speaking(plan),
               \A k \in Speaking(plan) : [k EXCEPT !.id = 0] = [b EXCEPT !.id = 0]
        PROVE  \E x \in F : \A y \in F : y = x
    <3>1. \A y \in F : y = [b EXCEPT !.id = 0]
      BY <2>2, <2>4
    <3> QED
      BY <2>1, <3>1
  <2> QED
    BY <2>3, <2>4
<1>8. e.measured => \A b \in Speaking(plan) : b.tps = e.tps
  <2> SUFFICES ASSUME e.measured, NEW b \in Speaking(plan) PROVE b.tps = e.tps
    OBVIOUS
  <2>1. [b EXCEPT !.id = 0] \in F
    BY <1>2
  <2>2. [b EXCEPT !.id = 0].tps = e.tps
    BY <1>3, <2>1
  <2> QED
    BY <1>5, <2>2
<1> QED
  BY <1>3, <1>6, <1>7, <1>8 DEF e

\* For any profiles, vessels, missions and records: a plan that is measured is
\* chosen while there is one, and the fastest where all else is equal.
THEOREM ChoiceMeasured == SchedulingSpec => []ChoiceIsMeasured
<1>1. SchedulingInv => ChoiceIsMeasured
  <2> DEFINE single(plan) == /\ Speaking(plan) # {}
                             /\ \A b, k \in Speaking(plan) :
                                  [b EXCEPT !.id = 0] = [k EXCEPT !.id = 0]
  <2> SUFFICES ASSUME SchedulingInv, sChoice # NoPlan, NEW q \in Plans, Eligible(sMission, q), single(q)
               PROVE  /\ single(sChoice)
                      /\ /\ sMission.preemption # "prefer" \/ UsesPreemptible(sChoice) = UsesPreemptible(q)
                         /\ (sChoice.mode = "PIPELINE") = (q.mode = "PIPELINE")
                         => \A a \in Speaking(sChoice), b \in Speaking(q) : a.tps >= b.tps
    BY DEF ChoiceIsMeasured
  <2>1. /\ sChoice \in Plans /\ Eligible(sMission, sChoice)
        /\ q # sChoice => Before(Rank(sMission, sChoice), Rank(sMission, q))
    BY DEF SchedulingInv, Least
  <2>2. \A plan \in {sChoice, q} :
          /\ Evidence(sMission, plan).measured <=> single(plan)
          /\ single(plan) => \A b \in Speaking(plan) : b.tps = Evidence(sMission, plan).tps
          /\ Evidence(sMission, plan).tps \in Int
    BY <2>1, SpeakingIs, EvidenceIs
  <2> HIDE DEF single
  <2>3. CASE q = sChoice
    <3>1. /\ \A b \in Speaking(q) : b.tps = Evidence(sMission, q).tps
          /\ Evidence(sMission, q).tps \in Int
      BY <2>2
    <3> QED
      BY <2>3, <3>1
  <2>4. CASE q # sChoice
    <3> DEFINE c == Rank(sMission, sChoice)
               d == Rank(sMission, q)
    <3>1. PICK i \in 1..6 : c[i] < d[i] /\ \A k \in 1..(i - 1) : c[k] = d[k]
      BY <2>1, <2>4, RankEntries DEF Before
    <3>2. d[1] = 0 /\ c[1] \in 0..1
      BY <2>2, RankEntries
    <3>3. i # 1 /\ c[1] = d[1]
      BY <3>1, <3>2
    <3>4. single(sChoice)
      BY <2>2, <3>2, <3>3, RankEntries
    <3>5. ASSUME sMission.preemption # "prefer" \/ UsesPreemptible(sChoice) = UsesPreemptible(q),
                 (sChoice.mode = "PIPELINE") = (q.mode = "PIPELINE")
          PROVE  \A a \in Speaking(sChoice), b \in Speaking(q) : a.tps >= b.tps
      <4>1. c[2] = d[2]
        BY <3>5, RankEntries
      <4>2. c[3] = d[3]
        BY <3>5, RankEntries
      <4>3. c[2] \in 0..1 /\ c[3] \in 0..1
        BY RankEntries
      <4>4. c[4] = -Evidence(sMission, sChoice).tps /\ d[4] = -Evidence(sMission, q).tps
        BY RankEntries
      <4> DEFINE s == Evidence(sMission, sChoice).tps
                 t == Evidence(sMission, q).tps
      <4>5. /\ s \in Int /\ t \in Int
            /\ \A a \in Speaking(sChoice) : a.tps = s
            /\ \A b \in Speaking(q) : b.tps = t
        BY <2>2, <3>4
      <4>6. c[4] = -s /\ d[4] = -t
        BY <4>4
      <4> HIDE DEF s, t, c, d
      <4>7. i # 2 /\ i # 3
        BY <3>1, <4>1, <4>2, <4>3
      <4>8. i = 4 \/ 4 \in 1..(i - 1)
        BY <3>3, <4>7
      <4>9. c[4] < d[4] \/ c[4] = d[4]
        BY <3>1, <4>8
      <4>10. s >= t
        BY <4>5, <4>6, <4>9
      <4> QED
        BY <4>5, <4>10
    <3> QED
      BY <3>4, <3>5
  <2> QED
    BY <2>3, <2>4
<1> QED
  BY SchedulingInvInit, SchedulingInvStep, <1>1, PTL DEF SchedulingSpec

-----------------------------------------------------------------------------
(***************************************************************************)
(* The benchmark directory (BenchmarkMatrix).  A record of a build, whether *)
(* it is still with its writer, in the report, or with a replay that has    *)
(* read the report, is backed: the store holds a successful execution of    *)
(* the profile by that build.  A line that was swallowed by a torn one is   *)
(* not there, but then no replay can read the store any more.               *)
(***************************************************************************)

\* A line of the store that speaks for a profile and a build.
Speaks(line, profile, build) ==
  line # TornLine /\ line.good /\ line.profile = profile /\ line.build = build

\* A record in the report needs such a line as long as the store can be read.
Backed(lines, profile, record) ==
  record # NoBuildYet /\ Readable(lines) => \E i \in DOMAIN lines : Speaks(lines[i], profile, record)

RecordsBacked(lines, records) == \A p \in DOMAIN records : Backed(lines, p, records[p])

\* A line, the state of a writer, and of a replay.
StoreLine == {TornLine} \cup [profile: Profile, build: Builds, good: BOOLEAN]
WriterState ==
  [op: {"idle", "matrix", "import"}, step: {"idle", "validate", "run", "append", "read", "write"},
   profile: DOMAIN ManifestProfiles, state: {"none", "SUPPORTED", "UNKNOWN"}, workload: Nat,
   repetition: Nat, record: Record, records: Records, rows: Seq(Builds)]
ReplayState ==
  [step: {"idle", "read"}, of: Records, selected: Profile \cup {NoSelection}, build: Record]
Reports == {NoFile, TornFile} \cup [readable: {TRUE}, there: {TRUE}, of: Records]

MatrixStatesOK ==
  /\ bBuild \in Builds /\ bStore \in Seq(StoreLine) /\ bReport \in Reports
  /\ bWriter \in [Writers -> WriterState] /\ bReplay \in ReplayState

\* What a writer holds.  An import states its first row's build before its
\* line is there.
WriterBacked(lines, s) ==
  /\ RecordsBacked(lines, s.records)
  /\ Backed(lines, ManifestProfiles[s.profile], s.record) \/ (s.step = "append" /\ s.record = s.rows[1])
  /\ s.step = "append" => s.rows # <<>>

ReplayBacked(lines, r) ==
  /\ RecordsBacked(lines, r.of)
  /\ r.selected # NoSelection => \E i \in DOMAIN lines : Speaks(lines[i], r.selected, r.build)

\* The inductive invariant.
MatrixInv ==
  /\ MatrixStatesOK
  /\ RecordsBacked(bStore, bReport.of)
  /\ \A w \in Writers : WriterBacked(bStore, bWriter[w])
  /\ ReplayBacked(bStore, bReplay)

\* What was in a file is still in it.
Grows(lines, more) == \A i \in DOMAIN lines : i \in DOMAIN more /\ more[i] = lines[i]

\* An observation is not what is left of a torn line.
LEMMA ObservationWhole ==
  ASSUME NEW profile, NEW build, NEW good
  PROVE  [profile |-> profile, build |-> build, good |-> good] # TornLine
<1> DEFINE line == [profile |-> profile, build |-> build, good |-> good]
<1>1. "torn" \notin DOMAIN line
  OBVIOUS
<1>2. "torn" \in DOMAIN TornLine
  BY DEF TornLine
<1> QED
  BY <1>1, <1>2

\* Appending keeps every line; the appended one is there too, or was swallowed
\* by a torn one.
LEMMA AppendedGrows ==
  ASSUME NEW lines \in Seq(StoreLine), NEW line \in StoreLine
  PROVE  /\ Appended(lines, line) \in Seq(StoreLine)
         /\ Grows(lines, Appended(lines, line))
         /\ Readable(Appended(lines, line)) => \E i \in DOMAIN Appended(lines, line) : Appended(lines, line)[i] = line
<1> DEFINE L == StoreLine
<1> HIDE DEF L
<1>0. lines \in Seq(L) /\ line \in L
  BY DEF L
<1> DEFINE more == Append(lines, line)
<1>1. CASE lines # <<>> /\ lines[Len(lines)] = TornLine
  <2>1. Len(lines) \in DOMAIN lines
    BY <1>0, <1>1
  <2>2. Appended(lines, line) = lines
    BY <1>1 DEF Appended
  <2> QED
    BY <2>1, <2>2, <1>1 DEF Grows, Readable
<1>2. CASE ~(lines # <<>> /\ lines[Len(lines)] = TornLine)
  <2>1. Appended(lines, line) = more
    BY <1>2 DEF Appended
  <2>2. more \in Seq(L) /\ Len(more) = Len(lines) + 1 /\ more[Len(lines) + 1] = line
        /\ \A i \in 1..Len(lines) : more[i] = lines[i]
    BY <1>0
  <2>3. DOMAIN more = 1..(Len(lines) + 1) /\ DOMAIN lines = 1..Len(lines) /\ Len(lines) \in Nat
    BY <1>0, <2>2
  <2> HIDE DEF more
  <2>4. Grows(lines, more)
    BY <2>2, <2>3 DEF Grows
  <2>5. Len(lines) + 1 \in DOMAIN more
    BY <2>3
  <2> QED
    BY <2>1, <2>2, <2>4, <2>5 DEF L
<1> QED
  BY <1>1, <1>2

\* An append that was cut short keeps every line as well.
LEMMA CutShortGrows ==
  ASSUME NEW lines \in Seq(StoreLine), NEW more \in CutShort(lines)
  PROVE  more \in Seq(StoreLine) /\ Grows(lines, more)
<1>1. TornLine \in StoreLine
  BY DEF StoreLine
<1>2. Appended(lines, TornLine) \in Seq(StoreLine) /\ Grows(lines, Appended(lines, TornLine))
  BY <1>1, AppendedGrows
<1>3. Grows(lines, lines)
  BY DEF Grows
<1>4. more = lines \/ more = Appended(lines, TornLine)
  BY DEF CutShort
<1> QED
  BY <1>2, <1>3, <1>4

\* What is backed remains so.
LEMMA BackedGrows ==
  ASSUME NEW lines, NEW more, Grows(lines, more)
  PROVE  /\ \A p, r : Backed(lines, p, r) => Backed(more, p, r)
         /\ \A rs : RecordsBacked(lines, rs) => RecordsBacked(more, rs)
         /\ \A s : WriterBacked(lines, s) => WriterBacked(more, s)
         /\ \A r : ReplayBacked(lines, r) => ReplayBacked(more, r)
<1>1. Readable(more) => Readable(lines)
  BY DEF Readable, Grows
<1>2. \A p, r : (\E i \in DOMAIN lines : Speaks(lines[i], p, r)) => \E i \in DOMAIN more : Speaks(more[i], p, r)
  BY DEF Grows
<1>3. \A p, r : Backed(lines, p, r) => Backed(more, p, r)
  BY <1>1, <1>2 DEF Backed
<1>4. \A rs : RecordsBacked(lines, rs) => RecordsBacked(more, rs)
  BY <1>3 DEF RecordsBacked
<1>5. \A s : WriterBacked(lines, s) => WriterBacked(more, s)
  BY <1>3, <1>4 DEF WriterBacked
<1>6. \A r : ReplayBacked(lines, r) => ReplayBacked(more, r)
  BY <1>2, <1>4 DEF ReplayBacked
<1> QED
  BY <1>3, <1>4, <1>5, <1>6

\* No records at all are records, and backed.
LEMMA NothingBacked ==
  <<>> \in Records /\ \A lines : RecordsBacked(lines, <<>>) /\ \A p : Backed(lines, p, NoBuildYet)
<1>1. <<>> \in [{} -> Record]
  OBVIOUS
<1>2. <<>> \in Records
  BY <1>1 DEF Records
<1> QED
  BY <1>2 DEF RecordsBacked, Backed

\* Records with one put in place are records.
LEMMA WithRecords ==
  ASSUME NEW records \in Records, NEW p \in Profile, NEW r \in Record
  PROVE  With(records, p, r) \in Records
<1>1. PICK P \in SUBSET Profile : records \in [P -> Record]
  BY DEF Records
<1>2. With(records, p, r) \in [P \cup {p} -> Record]
  BY <1>1 DEF With
<1>3. P \cup {p} \in SUBSET Profile
  BY <1>1
<1> QED
  BY <1>2, <1>3 DEF Records

\* They are backed if they were, and what is put in place is.
LEMMA WithBacked ==
  ASSUME NEW lines, NEW records, NEW p, NEW r, RecordsBacked(lines, records), Backed(lines, p, r)
  PROVE  RecordsBacked(lines, With(records, p, r))
<1>1. DOMAIN With(records, p, r) = DOMAIN records \cup {p}
      /\ \A q \in DOMAIN records \cup {p} : With(records, p, r)[q] = IF q = p THEN r ELSE records[q]
  BY DEF With
<1> QED
  BY <1>1 DEF RecordsBacked

\* The profile a position of the manifest names.
LEMMA ProfileNamed == \A i \in DOMAIN ManifestProfiles : ManifestProfiles[i] \in Profile
BY DEF Profile

\* The first position of a manifest, and the next of any but the last.
LEMMA ManifestPositions ==
  /\ 1 \in DOMAIN ManifestProfiles
  /\ \A i \in DOMAIN ManifestProfiles :
       IF i < Len(ManifestProfiles) THEN i + 1 \in DOMAIN ManifestProfiles ELSE TRUE
<1> DEFINE P == Profile
<1>1. ManifestProfiles \in Seq(P) /\ ManifestProfiles # <<>>
  BY MatrixAssumption
<1> HIDE DEF P
<1>2. DOMAIN ManifestProfiles = 1..Len(ManifestProfiles) /\ Len(ManifestProfiles) \in Nat
      /\ Len(ManifestProfiles) > 0
  BY <1>1
<1> QED
  BY <1>2

\* A writer at rest holds nothing.
LEMMA RestingBacked == Resting \in WriterState /\ \A lines : WriterBacked(lines, Resting)
<1>1. /\ Resting.op = "idle" /\ Resting.step = "idle" /\ Resting.profile = 1 /\ Resting.state = "none"
      /\ Resting.workload = 1 /\ Resting.repetition = 1 /\ Resting.record = NoBuildYet
      /\ Resting.records = <<>> /\ Resting.rows = <<>>
  BY DEF Resting
<1>2. Resting \in WriterState
  <2>1. <<>> \in Seq(Builds)
    OBVIOUS
  <2>2. NoBuildYet \in Record
    BY DEF Record
  <2>3. <<>> \in Records
    BY NothingBacked
  <2> QED
    BY <2>1, <2>2, <2>3, ManifestPositions DEF Resting, WriterState
<1>3. \A lines : RecordsBacked(lines, <<>>) /\ Backed(lines, ManifestProfiles[1], NoBuildYet)
  BY NothingBacked
<1>4. \A lines : WriterBacked(lines, Resting)
  BY <1>1, <1>3 DEF WriterBacked
<1> QED
  BY <1>2, <1>4

\* A profile that is done with has its record among the records.
LEMMA DoneBacked ==
  ASSUME NEW lines, NEW s \in WriterState, NEW record \in Record,
         RecordsBacked(lines, s.records), Backed(lines, ManifestProfiles[s.profile], record)
  PROVE  ProfileDone(s, record) \in WriterState /\ WriterBacked(lines, ProfileDone(s, record))
<1> DEFINE t == ProfileDone(s, record)
           rs == With(s.records, ManifestProfiles[s.profile], record)
           next == IF s.profile < Len(ManifestProfiles) THEN s.profile + 1 ELSE s.profile
           step == IF s.profile < Len(ManifestProfiles) THEN "validate" ELSE "write"
<1>1. s.profile \in DOMAIN ManifestProfiles /\ s.records \in Records
  BY DEF WriterState
<1>2. rs \in Records
  BY <1>1, ProfileNamed, WithRecords
<1>3. RecordsBacked(lines, rs)
  BY WithBacked
<1>4. next \in DOMAIN ManifestProfiles /\ step \in {"validate", "write"}
  BY <1>1, ManifestPositions
<1>5. t = [s EXCEPT !.records = rs, !.record = NoBuildYet, !.workload = 1, !.repetition = 1,
                    !.profile = next, !.step = step]
  BY DEF ProfileDone
<1>6. NoBuildYet \in Record
  BY DEF Record
<1> HIDE DEF rs, next, step, t
<1>7. t \in WriterState
  BY <1>2, <1>4, <1>5, <1>6 DEF WriterState
<1>8. t.records = rs /\ t.record = NoBuildYet /\ t.step = step
  BY <1>5 DEF WriterState
<1>9. Backed(lines, ManifestProfiles[t.profile], NoBuildYet)
  BY NothingBacked
<1>10. WriterBacked(lines, t)
  BY <1>3, <1>4, <1>8, <1>9 DEF WriterBacked
<1> QED
  BY <1>7, <1>10 DEF t

\* So has an execution, wherever it leads.
LEMMA AfterRunBacked ==
  ASSUME NEW lines, NEW s \in WriterState, NEW record \in Record, NEW good \in BOOLEAN,
         s.step = "run", RecordsBacked(lines, s.records), Backed(lines, ManifestProfiles[s.profile], record)
  PROVE  AfterRun(s, record, good) \in WriterState /\ WriterBacked(lines, AfterRun(s, record, good))
<1> DEFINE t == AfterRun(s, record, good)
<1>0. t = AfterRun(s, record, good)
  OBVIOUS
<1> HIDE DEF t
<1>1. CASE t = [s EXCEPT !.record = record, !.repetition = s.repetition + 1]
  <2>0. s.repetition + 1 \in Nat
    BY DEF WriterState
  <2> DEFINE next == s.repetition + 1
  <2> HIDE DEF next
  <2>1. t \in WriterState
    <3>1. t = [s EXCEPT !.record = record, !.repetition = next]
      BY <1>1 DEF next
    <3>2. next \in Nat
      BY <2>0 DEF next
    <3> QED
      BY <3>1, <3>2 DEF WriterState
  <2>2. t.records = s.records /\ t.record = record /\ t.step = s.step /\ t.profile = s.profile
    BY <1>1 DEF WriterState
  <2>3. WriterBacked(lines, t)
    BY <2>2 DEF WriterBacked
  <2> QED
    BY <2>1, <2>3, <1>0
<1>2. CASE t = [s EXCEPT !.record = record, !.workload = s.workload + 1, !.repetition = 1]
  <2>0. s.workload + 1 \in Nat
    BY DEF WriterState
  <2> DEFINE next == s.workload + 1
  <2> HIDE DEF next
  <2>1. t \in WriterState
    <3>1. t = [s EXCEPT !.record = record, !.workload = next, !.repetition = 1]
      BY <1>2 DEF next
    <3>2. next \in Nat
      BY <2>0 DEF next
    <3> QED
      BY <3>1, <3>2 DEF WriterState
  <2>2. t.records = s.records /\ t.record = record /\ t.step = s.step /\ t.profile = s.profile
    BY <1>2 DEF WriterState
  <2>3. WriterBacked(lines, t)
    BY <2>2 DEF WriterBacked
  <2> QED
    BY <2>1, <2>3, <1>0
<1>3. CASE t = ProfileDone(s, record)
  BY <1>3, <1>0, DoneBacked
<1> QED
  BY <1>0, <1>1, <1>2, <1>3 DEF AfterRun

\* A writer goes on from one backed state to another while the store grows.
LEMMA WriterGoesOn ==
  ASSUME MatrixInv, NEW w \in Writers, NEW s \in WriterState, Now(w, s),
         bStore' \in Seq(StoreLine), Grows(bStore, bStore'), WriterBacked(bStore', s),
         bReport' \in Reports, RecordsBacked(bStore', bReport'.of), bBuild' \in Builds,
         UNCHANGED bReplay
  PROVE  MatrixInv'
<1>1. bWriter \in [Writers -> WriterState] /\ bReplay \in ReplayState
  BY DEF MatrixInv, MatrixStatesOK
<1>2. bWriter' = [bWriter EXCEPT ![w] = s]
  BY DEF Now
<1>3. bWriter' \in [Writers -> WriterState]
  BY <1>1, <1>2
<1>4. \A v \in Writers : WriterBacked(bStore', bWriter'[v])
  <2> SUFFICES ASSUME NEW v \in Writers PROVE WriterBacked(bStore', bWriter'[v])
    OBVIOUS
  <2>1. CASE v = w
    BY <1>1, <1>2, <2>1
  <2>2. CASE v # w
    <3>1. bWriter'[v] = bWriter[v]
      BY <1>1, <1>2, <2>2
    <3>2. WriterBacked(bStore, bWriter[v])
      BY DEF MatrixInv
    <3> QED
      BY <3>1, <3>2, BackedGrows
  <2> QED
    BY <2>1, <2>2
<1>5. ReplayBacked(bStore', bReplay)
  BY BackedGrows DEF MatrixInv
<1>6. MatrixStatesOK'
  BY <1>1, <1>3 DEF MatrixStatesOK
<1> QED
  BY <1>4, <1>5, <1>6 DEF MatrixInv

\* The store may still be read as it was: nothing is appended.
LEMMA StoreAsItWas ==
  ASSUME MatrixInv, bStore' = bStore
  PROVE  /\ bStore' \in Seq(StoreLine) /\ Grows(bStore, bStore')
         /\ RecordsBacked(bStore', bReport.of) /\ \A w \in Writers : WriterBacked(bStore', bWriter[w])
BY DEF MatrixInv, MatrixStatesOK, Grows

\* A writer's profile and the state it is in.
LEMMA WriterOK ==
  ASSUME MatrixInv, NEW w \in Writers
  PROVE  /\ bWriter[w] \in WriterState /\ WriterBacked(bStore, bWriter[w])
         /\ bWriter[w].profile \in DOMAIN ManifestProfiles
         /\ ManifestProfiles[bWriter[w].profile] \in Profile
<1>1. bWriter[w] \in WriterState /\ WriterBacked(bStore, bWriter[w])
  BY DEF MatrixInv, MatrixStatesOK
<1>2. bWriter[w].profile \in DOMAIN ManifestProfiles
  BY <1>1 DEF WriterState
<1> QED
  BY <1>1, <1>2, ProfileNamed

\* An observation is a whole line of the store, or the store cannot be read.
LEMMA ObservedBacked ==
  ASSUME bStore \in Seq(StoreLine), NEW profile \in Profile, NEW build \in Builds, NEW good \in BOOLEAN,
         Observes(profile, build, good)
  PROVE  /\ bStore' \in Seq(StoreLine) /\ Grows(bStore, bStore')
         /\ good => Backed(bStore', profile, build)
<1> DEFINE line == [profile |-> profile, build |-> build, good |-> good]
<1>1. line \in StoreLine /\ line # TornLine
  BY ObservationWhole DEF StoreLine
<1>2. line.profile = profile /\ line.build = build /\ line.good = good
  OBVIOUS
<1>3. bStore' = Appended(bStore, line)
  BY DEF Observes
<1> HIDE DEF line
<1>4. /\ bStore' \in Seq(StoreLine) /\ Grows(bStore, bStore')
      /\ Readable(bStore') => \E i \in DOMAIN bStore' : bStore'[i] = line
  BY <1>1, <1>3, AppendedGrows
<1> QED
  BY <1>1, <1>2, <1>4 DEF Backed, Speaks

LEMMA StartStep ==
  ASSUME MatrixInv, NEW w \in Writers, MatrixStart(w)
  PROVE  MatrixInv'
<1> DEFINE s == [Resting EXCEPT !.op = "matrix", !.step = "validate"]
<1>1. s \in WriterState
  BY RestingBacked DEF WriterState
<1>2. s.records = Resting.records /\ s.record = Resting.record /\ s.profile = Resting.profile
      /\ s.step = "validate" /\ Resting.step = "idle"
  BY DEF Resting
<1>3. Now(w, s) /\ bStore' = bStore /\ bReport' = bReport /\ bBuild' = bBuild /\ bReplay' = bReplay
  BY DEF MatrixStart
<1> HIDE DEF s
<1>4. WriterBacked(bStore', Resting)
  BY RestingBacked
<1>5. WriterBacked(bStore', s)
  BY <1>2, <1>4 DEF WriterBacked
<1> QED
  BY <1>1, <1>3, <1>5, StoreAsItWas, WriterGoesOn DEF MatrixInv, MatrixStatesOK

LEMMA ValidateStep ==
  ASSUME MatrixInv, NEW w \in Writers, Validate(w)
  PROVE  MatrixInv'
<1> DEFINE s == bWriter[w]
<1>1. s \in WriterState /\ WriterBacked(bStore, s)
  BY WriterOK
<1>2. bStore' = bStore /\ bReport' = bReport /\ bBuild' = bBuild /\ bReplay' = bReplay
      /\ s.step = "validate"
  BY DEF Validate
<1>3. CASE \E state \in {"SUPPORTED", "UNKNOWN"} : Now(w, [s EXCEPT !.step = "run", !.state = state])
  <2>1. PICK state \in {"SUPPORTED", "UNKNOWN"} : Now(w, [s EXCEPT !.step = "run", !.state = state])
    BY <1>3
  <2> DEFINE t == [s EXCEPT !.step = "run", !.state = state]
  <2>2. t \in WriterState /\ t.records = s.records /\ t.record = s.record /\ t.profile = s.profile
        /\ t.step = "run"
    BY <1>1 DEF WriterState
  <2>3. Now(w, t)
    BY <2>1
  <2> HIDE DEF t, s
  <2>4. WriterBacked(bStore', t)
    BY <1>1, <1>2, <2>2 DEF WriterBacked
  <2> QED
    BY <1>2, <2>2, <2>3, <2>4, StoreAsItWas, WriterGoesOn DEF MatrixInv, MatrixStatesOK
<1>4. CASE Now(w, ProfileDone(s, NoBuildYet))
  <2>1. RecordsBacked(bStore', s.records) /\ Backed(bStore', ManifestProfiles[s.profile], NoBuildYet)
    BY <1>1, <1>2, NothingBacked DEF WriterBacked
  <2>2. NoBuildYet \in Record
    BY DEF Record
  <2>3. ProfileDone(s, NoBuildYet) \in WriterState /\ WriterBacked(bStore', ProfileDone(s, NoBuildYet))
    BY <1>1, <2>1, <2>2, DoneBacked
  <2> QED
    BY <1>2, <1>4, <2>3, StoreAsItWas, WriterGoesOn DEF MatrixInv, MatrixStatesOK
<1> QED
  BY <1>3, <1>4 DEF Validate

LEMMA RunnerStep ==
  ASSUME MatrixInv, NEW w \in Writers, RunOnce(w)
  PROVE  MatrixInv'
<1> DEFINE s == bWriter[w]
           p == ManifestProfiles[s.profile]
<1>1. s \in WriterState /\ WriterBacked(bStore, s) /\ p \in Profile
  BY WriterOK
<1>2. PICK good \in BOOLEAN : Observes(p, bBuild, good) /\ Now(w, AfterRun(s, MeasuredBy(s.record, good), good))
  BY DEF RunOnce
<1>3. s.step = "run" /\ bReport' = bReport /\ bBuild' = bBuild /\ bReplay' = bReplay
  BY DEF RunOnce
<1>4. bBuild \in Builds /\ bStore \in Seq(StoreLine) /\ bReport \in Reports
  BY DEF MatrixInv, MatrixStatesOK
<1>5. bStore' \in Seq(StoreLine) /\ Grows(bStore, bStore') /\ (good => Backed(bStore', p, bBuild))
  BY <1>1, <1>2, <1>4, ObservedBacked
<1> DEFINE record == MeasuredBy(s.record, good)
<1>6. record \in Record
  BY <1>1, <1>4 DEF MeasuredBy, Record, WriterState
<1>7. WriterBacked(bStore', s)
  BY <1>1, <1>5, BackedGrows
<1>8. RecordsBacked(bStore', s.records) /\ Backed(bStore', p, s.record)
  BY <1>3, <1>7 DEF WriterBacked
<1>9. Backed(bStore', p, record)
  BY <1>5, <1>8 DEF MeasuredBy
<1> HIDE DEF s, record
<1>10. AfterRun(s, record, good) \in WriterState /\ WriterBacked(bStore', AfterRun(s, record, good))
  BY <1>1, <1>3, <1>6, <1>8, <1>9, AfterRunBacked
<1>11. RecordsBacked(bStore', bReport'.of)
  BY <1>3, <1>5, BackedGrows DEF MatrixInv
<1>12. Now(w, AfterRun(s, record, good))
  BY <1>2 DEF record, s
<1> QED
  BY <1>3, <1>4, <1>5, <1>10, <1>11, <1>12, WriterGoesOn

LEMMA ImportStartStep ==
  ASSUME MatrixInv, NEW w \in Writers, ImportStart(w)
  PROVE  MatrixInv'
<1>1. PICK import \in Imports :
        Now(w, [Resting EXCEPT !.op = "import", !.step = "append", !.profile = import.profile,
                               !.rows = import.rows, !.record = import.rows[1]])
  BY DEF ImportStart
<1>2. import.profile \in DOMAIN ManifestProfiles /\ import.rows \in Seq(Builds) /\ import.rows # <<>>
  BY MatrixAssumption
<1>3. import.rows[1] \in Builds
  <2> DEFINE B == Builds
  <2> HIDE DEF B
  <2>1. import.rows \in Seq(B) /\ import.rows # <<>>
    BY <1>2 DEF B
  <2>2. import.rows[1] \in B
    BY <2>1
  <2> QED
    BY <2>2 DEF B
<1> DEFINE s == [Resting EXCEPT !.op = "import", !.step = "append", !.profile = import.profile,
                                !.rows = import.rows, !.record = import.rows[1]]
<1>4. s \in WriterState
  BY <1>2, <1>3, RestingBacked DEF WriterState, Record
<1>5. s.records = <<>> /\ s.record = s.rows[1] /\ s.step = "append" /\ s.rows = import.rows
  BY DEF Resting
<1>6. Now(w, s) /\ bStore' = bStore /\ bReport' = bReport /\ bBuild' = bBuild /\ bReplay' = bReplay
  BY <1>1 DEF ImportStart
<1> HIDE DEF s
<1>7. WriterBacked(bStore', s)
  BY <1>2, <1>5, NothingBacked DEF WriterBacked
<1> QED
  BY <1>4, <1>6, <1>7, StoreAsItWas, WriterGoesOn DEF MatrixInv, MatrixStatesOK

\* The rows an import has still to append.
LEMMA RowsLeft ==
  ASSUME NEW rows \in Seq(Builds), rows # <<>>
  PROVE  rows[1] \in Builds /\ Tail(rows) \in Seq(Builds) /\ (Len(rows) # 1 => Tail(rows) # <<>>)
<1> DEFINE B == Builds
<1> HIDE DEF B
<1>1. rows \in Seq(B) /\ rows # <<>>
  BY DEF B
<1>2. rows[1] \in B /\ Tail(rows) \in Seq(B) /\ Len(Tail(rows)) = Len(rows) - 1 /\ Len(rows) \in Nat
  BY <1>1
<1>3. Len(rows) # 1 => Tail(rows) # <<>>
  BY <1>2
<1> QED
  BY <1>2, <1>3 DEF B

LEMMA ImportAppendStep ==
  ASSUME MatrixInv, NEW w \in Writers, ImportAppend(w)
  PROVE  MatrixInv'
<1> DEFINE s == bWriter[w]
           p == ManifestProfiles[s.profile]
           step == IF Len(s.rows) = 1 THEN "read" ELSE "append"
           t == [s EXCEPT !.rows = Tail(s.rows), !.step = step]
<1>1. s \in WriterState /\ WriterBacked(bStore, s) /\ p \in Profile
  BY WriterOK
<1>2. s.step = "append" /\ Observes(p, s.rows[1], TRUE) /\ Now(w, t)
      /\ bReport' = bReport /\ bBuild' = bBuild /\ bReplay' = bReplay
  BY DEF ImportAppend
<1>3. s.rows \in Seq(Builds) /\ s.rows # <<>>
  BY <1>1, <1>2 DEF WriterState, WriterBacked
<1>4. s.rows[1] \in Builds /\ Tail(s.rows) \in Seq(Builds) /\ (Len(s.rows) # 1 => Tail(s.rows) # <<>>)
  BY <1>3, RowsLeft
<1>5. bBuild \in Builds /\ bStore \in Seq(StoreLine) /\ bReport \in Reports
  BY DEF MatrixInv, MatrixStatesOK
<1>6. bStore' \in Seq(StoreLine) /\ Grows(bStore, bStore') /\ Backed(bStore', p, s.rows[1])
  BY <1>1, <1>2, <1>4, <1>5, ObservedBacked
<1>7. RecordsBacked(bStore', s.records) /\ (Backed(bStore, p, s.record) => Backed(bStore', p, s.record))
      /\ RecordsBacked(bStore', bReport'.of)
  BY <1>1, <1>2, <1>6, BackedGrows DEF WriterBacked, MatrixInv
<1>8. Backed(bStore', p, s.record)
  BY <1>1, <1>6, <1>7 DEF WriterBacked
<1>9. step \in {"read", "append"} /\ (step = "append" => Tail(s.rows) # <<>>)
  BY <1>4
<1> HIDE DEF s, step
<1>10. t \in WriterState /\ t.records = s.records /\ t.record = s.record /\ t.profile = s.profile
       /\ t.step = step /\ t.rows = Tail(s.rows)
  BY <1>1, <1>4, <1>9 DEF WriterState
<1> HIDE DEF t
<1>11. WriterBacked(bStore', t)
  BY <1>7, <1>8, <1>9, <1>10 DEF WriterBacked
<1> QED
  BY <1>2, <1>5, <1>6, <1>7, <1>10, <1>11, WriterGoesOn

\* What the report holds, whether it is there, torn or whole.
LEMMA ReportHolds == \A report \in Reports : report.of \in Records
<1>1. NoFile.of = <<>> /\ TornFile.of = <<>>
  BY DEF NoFile, TornFile
<1>2. \A report \in [readable: {TRUE}, there: {TRUE}, of: Records] : report.of \in Records
  OBVIOUS
<1> QED
  BY <1>1, <1>2, NothingBacked DEF Reports

LEMMA ImportReadStep ==
  ASSUME MatrixInv, NEW w \in Writers, ImportRead(w)
  PROVE  MatrixInv'
<1> DEFINE s == bWriter[w]
           p == ManifestProfiles[s.profile]
           rs == With(bReport.of, p, s.record)
           t == [s EXCEPT !.step = "write", !.records = rs]
<1>1. s \in WriterState /\ WriterBacked(bStore, s) /\ p \in Profile
  BY WriterOK
<1>2. s.step = "read" /\ bStore' = bStore /\ bReport' = bReport /\ bBuild' = bBuild /\ bReplay' = bReplay
      /\ Now(w, IF bReport = TornFile THEN Resting ELSE t)
  BY DEF ImportRead
<1>3. Backed(bStore', p, s.record) /\ RecordsBacked(bStore', bReport.of)
  BY <1>1, <1>2 DEF WriterBacked, MatrixInv
<1>4. bReport.of \in Records
  BY ReportHolds DEF MatrixInv, MatrixStatesOK
<1>5. s.record \in Record
  BY <1>1 DEF WriterState
<1>6. rs \in Records /\ RecordsBacked(bStore', rs)
  BY <1>1, <1>3, <1>4, <1>5, WithRecords, WithBacked
<1> HIDE DEF s, rs
<1>7. t \in WriterState /\ t.records = rs /\ t.record = s.record /\ t.profile = s.profile /\ t.step = "write"
  BY <1>1, <1>6 DEF WriterState
<1> HIDE DEF t
<1>8. WriterBacked(bStore', t)
  BY <1>3, <1>6, <1>7 DEF WriterBacked
<1>9. Resting \in WriterState /\ WriterBacked(bStore', Resting)
  BY RestingBacked
<1>10. CASE bReport = TornFile
  BY <1>2, <1>9, <1>10, StoreAsItWas, WriterGoesOn DEF MatrixInv, MatrixStatesOK
<1>11. CASE bReport # TornFile
  BY <1>2, <1>7, <1>8, <1>11, StoreAsItWas, WriterGoesOn DEF MatrixInv, MatrixStatesOK
<1> QED
  BY <1>10, <1>11

LEMMA WriteReportStep ==
  ASSUME MatrixInv, NEW w \in Writers, WriteReport(w)
  PROVE  MatrixInv'
<1> DEFINE s == bWriter[w]
<1>1. s \in WriterState /\ WriterBacked(bStore, s)
  BY WriterOK
<1>2. bReport' = File(s.records) /\ Now(w, Resting) /\ bStore' = bStore /\ bBuild' = bBuild
      /\ bReplay' = bReplay
  BY DEF WriteReport
<1>3. s.records \in Records /\ RecordsBacked(bStore', s.records)
  BY <1>1, <1>2 DEF WriterState, WriterBacked
<1>4. bReport' \in Reports /\ bReport'.of = s.records
  BY <1>2, <1>3 DEF File, Reports
<1>5. Resting \in WriterState /\ WriterBacked(bStore', Resting)
  BY RestingBacked
<1> QED
  BY <1>2, <1>3, <1>4, <1>5, StoreAsItWas, WriterGoesOn DEF MatrixInv, MatrixStatesOK

LEMMA StopStep ==
  ASSUME MatrixInv, NEW w \in Writers, WriterStops(w)
  PROVE  MatrixInv'
<1>1. bStore \in Seq(StoreLine) /\ bReport \in Reports /\ bBuild \in Builds
  BY DEF MatrixInv, MatrixStatesOK
<1>2. bStore' \in Seq(StoreLine) /\ Grows(bStore, bStore')
  <2>1. bStore' \in CutShort(bStore) \/ bStore' = bStore
    BY DEF WriterStops
  <2> QED
    BY <1>1, <2>1, CutShortGrows, StoreAsItWas
<1>3. bReport' \in {bReport, TornFile}
  BY DEF WriterStops
<1>4. RecordsBacked(bStore', bReport.of) /\ RecordsBacked(bStore', TornFile.of)
  BY <1>2, BackedGrows, NothingBacked DEF MatrixInv, TornFile
<1>5. bReport' \in Reports /\ RecordsBacked(bStore', bReport'.of)
  BY <1>1, <1>3, <1>4 DEF Reports
<1>6. Now(w, Resting) /\ bBuild' = bBuild /\ bReplay' = bReplay
  BY DEF WriterStops
<1>7. Resting \in WriterState /\ WriterBacked(bStore', Resting)
  BY RestingBacked
<1> QED
  BY <1>1, <1>2, <1>5, <1>6, <1>7, WriterGoesOn

LEMMA ReplaceStep ==
  ASSUME MatrixInv, ReplaceBuild
  PROVE  MatrixInv'
<1>1. bBuild' \in Builds /\ UNCHANGED <<bStore, bReport, bWriter, bReplay>>
  BY MatrixAssumption DEF ReplaceBuild, MatrixInv, MatrixStatesOK, Builds
<1> QED
  BY <1>1 DEF MatrixInv, MatrixStatesOK

LEMMA ReplayReadStep ==
  ASSUME MatrixInv, ReplayRead
  PROVE  MatrixInv'
<1> DEFINE r == [IdleReplay EXCEPT !.step = "read", !.of = bReport.of]
<1>1. bReplay' = r /\ UNCHANGED <<bBuild, bStore, bReport, bWriter>>
  BY DEF ReplayRead
<1>2. bReport.of \in Records
  BY ReportHolds DEF MatrixInv, MatrixStatesOK
<1>3. NoBuildYet \in Record
  BY DEF Record
<1>4. r \in ReplayState /\ r.of = bReport.of /\ r.selected = NoSelection
  BY <1>2, <1>3 DEF IdleReplay, ReplayState
<1> HIDE DEF r
<1>5. ReplayBacked(bStore, r)
  BY <1>4 DEF MatrixInv, ReplayBacked
<1> QED
  BY <1>1, <1>4, <1>5 DEF MatrixInv, MatrixStatesOK

\* A replay that holds nothing.
LEMMA IdleBacked == IdleReplay \in ReplayState /\ \A lines : ReplayBacked(lines, IdleReplay)
BY NothingBacked DEF IdleReplay, ReplayState, ReplayBacked, Record

\* A profile with a record of a build is selected from a store that can be read.
LEMMA ReplaySelectStep ==
  ASSUME MatrixInv, ReplaySelect
  PROVE  MatrixInv'
<1>1. Readable(bStore) /\ UNCHANGED <<bBuild, bStore, bReport, bWriter>>
  BY DEF ReplaySelect
<1>2. PICK build \in Builds, selected \in Profile \cup {NoSelection} :
        /\ bReplay' = [IdleReplay EXCEPT !.selected = selected, !.build = build]
        /\ selected # NoSelection => selected \in DOMAIN bReplay.of /\ bReplay.of[selected] = build
  <2>1. PICK build \in Builds :
          LET eligible == {p \in DOMAIN bReplay.of : ReplayEligible(p, build)}
              single == {p \in eligible : Cardinality(ReplayEvidence(p, build)) = 1}
          IN \E selected \in (IF single # {} THEN single
                              ELSE IF eligible # {} THEN eligible ELSE {NoSelection}) :
               bReplay' = [IdleReplay EXCEPT !.selected = selected, !.build = build]
    BY DEF ReplaySelect
  <2> DEFINE eligible == {p \in DOMAIN bReplay.of : ReplayEligible(p, build)}
             single == {p \in eligible : Cardinality(ReplayEvidence(p, build)) = 1}
  <2>2. PICK selected \in (IF single # {} THEN single
                           ELSE IF eligible # {} THEN eligible ELSE {NoSelection}) :
               bReplay' = [IdleReplay EXCEPT !.selected = selected, !.build = build]
    BY <2>1
  <2>3. selected = NoSelection \/ selected \in eligible
    BY <2>2
  <2>4. selected \in eligible => selected \in DOMAIN bReplay.of /\ bReplay.of[selected] = build
    BY DEF ReplayEligible
  <2>5. bReplay.of \in Records
    BY DEF MatrixInv, MatrixStatesOK, ReplayState
  <2>6. DOMAIN bReplay.of \subseteq Profile
    BY <2>5 DEF Records
  <2> HIDE DEF eligible, single
  <2> QED
    BY <2>2, <2>3, <2>4, <2>6
<1> DEFINE r == [IdleReplay EXCEPT !.selected = selected, !.build = build]
<1>3. IdleReplay \in ReplayState /\ ReplayBacked(bStore, IdleReplay)
  BY IdleBacked
<1>4. r \in ReplayState /\ r.of = IdleReplay.of /\ r.selected = selected /\ r.build = build
  BY <1>2, <1>3 DEF ReplayState, Record
<1>5. selected # NoSelection => \E i \in DOMAIN bStore : Speaks(bStore[i], selected, build)
  <2>1. build # NoBuildYet
    BY DEF Builds, NoBuildYet
  <2>2. RecordsBacked(bStore, bReplay.of)
    BY DEF MatrixInv, ReplayBacked
  <2> QED
    BY <1>1, <1>2, <2>1, <2>2 DEF RecordsBacked, Backed
<1> HIDE DEF r
<1>6. ReplayBacked(bStore, r)
  BY <1>3, <1>4, <1>5 DEF ReplayBacked
<1>7. bReplay' = r
  BY <1>2 DEF r
<1> QED
  BY <1>1, <1>4, <1>6, <1>7 DEF MatrixInv, MatrixStatesOK

LEMMA ReplayRaisesStep ==
  ASSUME MatrixInv, ReplayRaises
  PROVE  MatrixInv'
BY IdleBacked DEF ReplayRaises, MatrixInv, MatrixStatesOK

LEMMA MatrixInvInit == MatrixInit => MatrixInv
<1> SUFFICES ASSUME MatrixInit PROVE MatrixInv
  OBVIOUS
<1>1. /\ bBuild = 1 /\ bStore = <<>> /\ bReport = NoFile
      /\ bWriter = [w \in Writers |-> Resting] /\ bReplay = IdleReplay
  BY DEF MatrixInit
<1>2. 1 \in Builds
  BY MatrixAssumption DEF Builds
<1>3. bStore \in Seq(StoreLine) /\ bReport \in Reports
  BY <1>1 DEF Reports
<1>4. RecordsBacked(bStore, bReport.of)
  BY <1>1, NothingBacked DEF NoFile
<1> QED
  BY <1>1, <1>2, <1>3, <1>4, RestingBacked, IdleBacked DEF MatrixInv, MatrixStatesOK

LEMMA MatrixInvStep == MatrixInv /\ [MatrixNext]_matrixVars => MatrixInv'
<1> SUFFICES ASSUME MatrixInv, [MatrixNext]_matrixVars PROVE MatrixInv'
  OBVIOUS
<1>1. CASE \E w \in Writers : MatrixStart(w)
  BY <1>1, StartStep
<1>2. CASE \E w \in Writers : Validate(w)
  BY <1>2, ValidateStep
<1>3. CASE \E w \in Writers : RunOnce(w)
  BY <1>3, RunnerStep
<1>4. CASE \E w \in Writers : ImportStart(w)
  BY <1>4, ImportStartStep
<1>5. CASE \E w \in Writers : ImportAppend(w)
  BY <1>5, ImportAppendStep
<1>6. CASE \E w \in Writers : ImportRead(w)
  BY <1>6, ImportReadStep
<1>7. CASE \E w \in Writers : WriteReport(w)
  BY <1>7, WriteReportStep
<1>8. CASE \E w \in Writers : WriterStops(w)
  BY <1>8, StopStep
<1>9. CASE UNCHANGED matrixVars
  BY <1>9 DEF matrixVars, MatrixInv, MatrixStatesOK
<1> QED
  BY <1>1, <1>2, <1>3, <1>4, <1>5, <1>6, <1>7, <1>8, <1>9,
     ReplaceStep, ReplayReadStep, ReplaySelectStep, ReplayRaisesStep DEF MatrixNext

\* The invariant bounds the types of the benchmark directory.
LEMMA MatrixInvType == MatrixInv => MatrixTypeOK
<1> SUFFICES ASSUME MatrixInv PROVE MatrixTypeOK
  OBVIOUS
<1> DEFINE L == StoreLine
<1>1. bStore \in Seq(L)
  BY DEF MatrixInv, MatrixStatesOK
<1> HIDE DEF L
<1>2. \A i \in DOMAIN bStore : bStore[i] \in L
  BY <1>1
<1>3. \A i \in DOMAIN bStore : bStore[i] = TornLine \/ bStore[i] \in [profile: Profile, build: Builds, good: BOOLEAN]
  BY <1>2 DEF L, StoreLine
<1>4. bReport \in {NoFile, TornFile} \/ (bReport.readable /\ bReport.of \in Records)
  BY DEF MatrixInv, MatrixStatesOK, Reports
<1>5. \A w \in Writers :
        /\ bWriter[w].step \in {"idle", "validate", "run", "append", "read", "write"}
        /\ bWriter[w].record \in Record /\ bWriter[w].records \in Records \cup {<<>>}
  BY DEF MatrixInv, MatrixStatesOK, WriterState
<1>6. bBuild \in Builds /\ bReplay.selected \in Profile \cup {NoSelection}
  BY DEF MatrixInv, MatrixStatesOK, ReplayState
<1> QED
  BY <1>3, <1>4, <1>5, <1>6 DEF MatrixTypeOK

\* For any writers, manifest and imports: whichever of them stop where, a replay
\* selects what the store, as it then is, shows measured under the current build.
THEOREM ReplayIsMeasured == MatrixSpec => []ReplaySelectsMeasured
<1>1. MatrixInv => ReplaySelectsMeasured
  BY DEF MatrixInv, ReplayBacked, ReplaySelectsMeasured, Speaks
<1> QED
  BY MatrixInvInit, MatrixInvStep, <1>1, PTL DEF MatrixSpec

-----------------------------------------------------------------------------
(* The parts of the runtime side together.                                 *)

\* The parts that neither run under the reference run nor hold one behave as
\* their own specifications say: they share no state with it.
THEOREM RuntimeIsItsParts == RuntimeSpec => SchedulingSpec /\ ServerSpec /\ MatrixSpec
<1>1. RuntimeInit => SchedulingInit /\ ServerInit /\ MatrixInit
  BY DEF RuntimeInit
<1>2. [RuntimeNext]_vars => /\ [SchedulingNext]_schedulingVars /\ [ServerNext]_serverVars
                            /\ [MatrixNext]_matrixVars
  <2> SUFFICES ASSUME [RuntimeNext]_vars
               PROVE  /\ SchedulingNext \/ UNCHANGED schedulingVars
                      /\ ServerNext \/ UNCHANGED serverVars
                      /\ MatrixNext \/ UNCHANGED matrixVars
    OBVIOUS
  <2>1. CASE RuntimeNext
    BY <2>1 DEF RuntimeNext
  <2>2. CASE UNCHANGED vars
    BY <2>2 DEF vars
  <2> QED
    BY <2>1, <2>2
<1> QED
  BY <1>1, <1>2, PTL DEF RuntimeSpec, SchedulingSpec, ServerSpec, MatrixSpec

\* The native adapter is called by whoever calls it, or by reference runs only,
\* which then know what they have called.
AdapterInv ==
  /\ NativeInv /\ ReferenceTypeOK
  /\ part # "native" => RunInv /\ ReportInv /\ TypedInv

LEMMA AdapterInvInit == RuntimeInit => AdapterInv
<1> SUFFICES ASSUME RuntimeInit PROVE AdapterInv
  OBVIOUS
<1>1. ReferenceInit
  BY DEF RuntimeInit
<1>2. NativeInv /\ RunInv /\ ReportInv /\ TypedInv
  BY <1>1, NativeInvInit, RunInvInit, ReportInvInit, TypedInvInit DEF ReferenceInit
<1> QED
  BY <1>2 DEF AdapterInv, TypedInv

LEMMA AdapterInvStep == AdapterInv /\ [RuntimeNext]_vars => AdapterInv'
<1> SUFFICES ASSUME AdapterInv, [RuntimeNext]_vars PROVE AdapterInv'
  OBVIOUS
<1>1. part' = part
  BY DEF RuntimeNext, vars
<1>2. \/ part = "native" /\ NativeNext /\ UNCHANGED <<rRun, rStep, rLayers, seen_so_far, files>>
      \/ part # "native" /\ ReferenceNext
      \/ UNCHANGED referenceVars
  BY DEF RuntimeNext, vars
<1>3. CASE part = "native"
  <2>1. NativeInv'
    <3>1. CASE NativeNext
      BY <3>1, CallKeeps, NativeStepKeeps DEF AdapterInv, NativeNext
    <3>2. CASE UNCHANGED referenceVars
      BY <3>2, NativeIdle DEF AdapterInv, referenceVars
    <3> QED
      BY <1>2, <1>3, <3>1, <3>2
  <2>2. UNCHANGED <<rRun, rStep, rLayers, rValidated, rMeasured, rEvents, rBenchmarks, rReport>>
    BY <1>2, <1>3 DEF referenceVars, seen_so_far, files
  <2>3. ReferenceTypeOK'
    BY <2>2 DEF AdapterInv, ReferenceTypeOK
  <2> QED
    BY <1>1, <1>3, <2>1, <2>3 DEF AdapterInv
<1>4. CASE part # "native"
  <2>1. NativeInv /\ RunInv /\ ReportInv /\ TypedInv /\ [ReferenceNext]_referenceVars
    BY <1>2, <1>4 DEF AdapterInv
  <2>2. NativeInv' /\ RunInv' /\ ReportInv'
    BY <2>1, RunInvNext, ReportInvNext
  <2>3. TypedInv'
    BY <2>1, <2>2, TypedInvNext
  <2> QED
    BY <2>2, <2>3 DEF AdapterInv, TypedInv
<1> QED
  BY <1>3, <1>4

\* Every part keeps to its types.
THEOREM RuntimeTyped == RuntimeSpec => []RuntimeTypeOK
<1>1. RuntimeSpec => []AdapterInv
  BY AdapterInvInit, AdapterInvStep, PTL DEF RuntimeSpec
<1>2. SchedulingSpec => []SchedulingTypeOK
  <2>1. SchedulingInv => SchedulingTypeOK
    BY DEF SchedulingInv
  <2> QED
    BY <2>1, SchedulingInvInit, SchedulingInvStep, PTL DEF SchedulingSpec
<1>3. ServerSpec => []ServerTypeOK
  <2>1. ServerInv => ServerTypeOK
    BY DEF ServerInv
  <2> QED
    BY <2>1, ServerInvariant, PTL
<1>4. MatrixSpec => []MatrixTypeOK
  BY MatrixInvInit, MatrixInvStep, MatrixInvType, PTL DEF MatrixSpec
<1>5. AdapterInv /\ SchedulingTypeOK /\ ServerTypeOK /\ MatrixTypeOK => RuntimeTypeOK
  BY DEF AdapterInv, NativeInv, RuntimeTypeOK
<1> QED
  BY <1>1, <1>2, <1>3, <1>4, <1>5, RuntimeIsItsParts, PTL

\* A reference run that is not started has said nothing.
NothingReported == part = "native" => rLayers = <<>> /\ rReport = NoReport

LEMMA NothingReportedNext == NothingReported /\ [RuntimeNext]_vars => NothingReported'
<1> SUFFICES ASSUME NothingReported, [RuntimeNext]_vars, part' = "native"
             PROVE  rLayers' = <<>> /\ rReport' = NoReport
  BY DEF NothingReported
<1>1. part = "native" /\ UNCHANGED <<rLayers, rReport>>
  BY DEF RuntimeNext, vars, files, referenceVars
<1> QED
  BY <1>1 DEF NothingReported

\* All that must never happen on the runtime side, of all its parts together
\* and at once, as they are run: a version probe left behind, a report that is
\* not backed or not of one build, a plan chosen on contradicted or foreign
\* evidence, a server's work disowned or a success out of time, a replay of what
\* was not measured.
THEOREM RuntimeSafe ==
  RuntimeSpec => [](/\ NoProbeLeft /\ OneBuildUnlessRolledBack /\ ReportBacked
                    /\ ChoiceIsMeasured /\ ChoiceIsUncontradicted
                    /\ WorkIsOwnedUp /\ SuccessIsInTime /\ ReplaySelectsMeasured)
<1>1. RuntimeInit => NothingReported
  BY DEF RuntimeInit, ReferenceInit, NothingReported
<1>2. AdapterInv /\ NothingReported => NoProbeLeft /\ OneBuildUnlessRolledBack /\ ReportBacked
  <2> SUFFICES ASSUME AdapterInv, NothingReported
               PROVE  NoProbeLeft /\ OneBuildUnlessRolledBack /\ ReportBacked
    OBVIOUS
  <2>1. NoProbeLeft
    BY ProbeGone DEF AdapterInv
  <2>2. CASE part = "native"
    <3>1. Len(rLayers) = 0 /\ rReport.run = 0
      BY <2>2 DEF NothingReported, NoReport
    <3> QED
      BY <2>1, <3>1 DEF OneBuildUnlessRolledBack, ReportBacked
  <2>3. CASE part # "native"
    <3>1. RunInv /\ ReportInv
      BY <2>3 DEF AdapterInv
    <3>2. OneBuildUnlessRolledBack
      BY <3>1 DEF RunInv, Settled, OneBuild, OneBuildUnlessRolledBack
    <3> QED
      BY <2>1, <3>1, <3>2, ReportInvBacks
  <2> QED
    BY <2>2, <2>3
<1>3. RuntimeSpec => [](NoProbeLeft /\ OneBuildUnlessRolledBack /\ ReportBacked)
  BY <1>1, <1>2, NothingReportedNext, AdapterInvInit, AdapterInvStep, PTL DEF RuntimeSpec
<1> QED
  BY <1>3, RuntimeIsItsParts, ChoiceMeasured, ChoiceUncontradicted, LeftWorkIsTold,
     SuccessInTime, ReplayIsMeasured, PTL
=============================================================================
