----------------------------- MODULE LlamaServer -----------------------------
(***************************************************************************)
(* The adapter of a llama-server that its owner runs                       *)
(* (adapters/llama_server.py).  One request is a call of two HTTP posts,   *)
(* tokenize and completion, under one deadline.  The server serves one     *)
(* completion at a time and queues the others; it goes on with one whose   *)
(* caller has gone, and may answer anything, at work or not, but says that *)
(* a completion has stopped only once it has; and it may die.              *)
(*                                                                         *)
(* Tokens are counted, not listed.  A reply is well formed if its status,  *)
(* type, size and JSON are.  Requests follow one another: callers are      *)
(* required to exclude each other.                                         *)
(***************************************************************************)
EXTENDS Integers

CONSTANTS
  ServerRequests,    \* requests callers make
  MaxServerRequests, \* requests made of one adapter (bound)
  MaxCount           \* largest count in a reply (bound)

ASSUME ServerAssumption ==
  /\ MaxServerRequests \in Nat /\ MaxCount \in Nat
  /\ \A request \in ServerRequests : request.max \in Nat /\ request.context \in Nat

VARIABLES
  lBinding,  \* the owner's binding, NoBinding before the adapter is constructed
  lCount,    \* number of requests made, the last of them under way or answered
  lRequest,  \* that request
  lStep,     \* what it does next
  lLate,     \* whether its deadline has passed
  lPath,     \* the post under way
  lTokens,   \* the count of its prompt's tokens
  lReply,    \* the reply read last
  lWork,     \* completions the server has accepted and not finished
  lOutcome   \* lOutcome[n]: how request n ended, whether late, and whether its
             \* completion was answered by something that is not a finished one

serverVars == <<lBinding, lCount, lRequest, lStep, lLate, lPath, lTokens, lReply, lWork, lOutcome>>

NoBinding == [state |-> "none", measured |-> FALSE]
Binding == [state: {"SUPPORTED", "UNSUPPORTED", "UNKNOWN"}, measured: BOOLEAN]
Counts == 0..MaxCount
\* tokens: those of a vector, or those evaluated; predicted, listed: of a
\* completion; whole: it stopped by itself and was not truncated; kept: it
\* used the settings it was sent.
Reply == [formed: BOOLEAN, tokens: Counts, predicted: Counts, listed: Counts, whole: BOOLEAN,
          kept: BOOLEAN]
NoReplyYet == [formed |-> FALSE, tokens |-> 0, predicted |-> 0, listed |-> 0, whole |-> FALSE,
               kept |-> FALSE]
ServerOutcome == {"none", "success", "declined", "raised", "FAIL_TIMEOUT", "FAIL_RUNTIME",
                  "FAIL_EXECUTION"}
Ending == [as: ServerOutcome, late: BOOLEAN, unfinished: BOOLEAN]
Unanswered == [as |-> "none", late |-> FALSE, unfinished |-> FALSE]

ServerTypeOK ==
  /\ lBinding \in Binding \cup {NoBinding} /\ lCount \in 0..MaxServerRequests
  /\ lRequest \in ServerRequests /\ lLate \in BOOLEAN
  /\ lStep \in {"idle", "post", "wait", "read", "observe", "check"}
  /\ lPath \in {"tokenize", "completion"} /\ lTokens \in Counts /\ lReply \in Reply
  /\ lWork \subseteq 1..lCount
  /\ lOutcome \in [1..MaxServerRequests -> Ending]

ServerInit ==
  /\ lBinding = NoBinding /\ lCount = 0 /\ lRequest \in ServerRequests /\ lStep = "idle"
  /\ lLate = FALSE /\ lPath = "tokenize" /\ lTokens = 0 /\ lReply = NoReplyYet /\ lWork = {}
  /\ lOutcome = [n \in 1..MaxServerRequests |-> Unanswered]

\* Groups of variables that steps leave alone together.
asked == <<lBinding, lCount, lRequest>>

-----------------------------------------------------------------------------

\* The adapter is constructed: a binding that says supported is measured
\* (_owner_binding); it is copied, and never read from the owner again.
Bind ==
  /\ lBinding = NoBinding
  /\ lBinding' \in {b \in Binding : b.state = "SUPPORTED" => b.measured}
  /\ UNCHANGED <<lCount, lRequest, lStep, lLate, lPath, lTokens, lReply, lWork, lOutcome>>

\* validate and _admitted.
ServerAdmits(request) ==
  LET state == IF request.matches THEN lBinding.state ELSE "UNSUPPORTED"
  IN state = "SUPPORTED" \/ (state = "UNKNOWN" /\ request.allowUnknown)

\* _prepared_context.
ContextPrepared(request) ==
  /\ request.rendered /\ request.context > 0 /\ request.asked = request.context
  /\ request.stochastic => request.seeded

\* A reply that says of its completion that it has stopped.
Finished(reply) == reply.formed /\ reply.whole

\* The completion has been answered by something else: an error, what cannot be
\* read, or a part of it.
Unfinished == lPath = "completion" /\ lStep \in {"read", "observe", "check"} /\ ~Finished(lReply)

\* The call under way ends.
Ends(n, outcome) ==
  /\ lStep' = "idle"
  /\ lOutcome' =
       [lOutcome EXCEPT ![n] = [as |-> outcome, late |-> lLate, unfinished |-> Unfinished]]
EndsAs(outcome) == Ends(lCount, outcome)

\* A request that is refused before anything is sent, or goes on to its first post.
Ask(request) ==
  /\ lBinding # NoBinding /\ lStep = "idle" /\ lCount < MaxServerRequests
  /\ lCount' = lCount + 1 /\ lRequest' = request /\ lLate' = FALSE
  /\ lPath' = "tokenize" /\ lTokens' = 0 /\ lReply' = NoReplyYet
  /\ \/ ~ServerAdmits(request) /\ Ends(lCount + 1, "declined")
     \/ ServerAdmits(request) /\ ~ContextPrepared(request) /\ Ends(lCount + 1, "FAIL_EXECUTION")
     \/ ServerAdmits(request) /\ ContextPrepared(request) /\ lStep' = "post" /\ UNCHANGED lOutcome
  /\ UNCHANGED <<lBinding, lWork>>

\* _post, up to the request being sent: a payload that is too large or has no
\* valid schema is refused first; then the deadline counts, then the connection.
\* The server may take up what it is sent or not.
Post ==
  /\ lStep = "post"
  /\ \/ /\ lRequest.sendable /\ ~lLate /\ lStep' = "wait"
        /\ lWork' \in {lWork} \cup (IF lPath = "completion" THEN {lWork \cup {lCount}} ELSE {})
        /\ UNCHANGED lOutcome
     \/ ~lRequest.sendable /\ EndsAs("FAIL_EXECUTION") /\ UNCHANGED lWork
     \/ lRequest.sendable /\ lLate /\ EndsAs("FAIL_TIMEOUT") /\ UNCHANGED lWork
     \/ lRequest.sendable /\ EndsAs("FAIL_RUNTIME") /\ UNCHANGED lWork
  /\ UNCHANGED <<asked, lLate, lPath, lTokens, lReply>>

\* Mutant: a time-out is taken for a reply that breaks the contract.
WaitOverAsContract ==
  /\ lStep = "wait"
  /\ \/ lLate /\ EndsAs("FAIL_EXECUTION")
     \/ EndsAs("FAIL_RUNTIME")
  /\ UNCHANGED <<asked, lLate, lPath, lTokens, lReply, lWork>>

\* The wait for a reply ends by the deadline, or with the connection.  Neither
\* ends the server's work.
WaitOver ==
  /\ lStep = "wait"
  /\ \/ lLate /\ EndsAs("FAIL_TIMEOUT")
     \/ EndsAs("FAIL_RUNTIME")
  /\ UNCHANGED <<asked, lLate, lPath, lTokens, lReply, lWork>>

\* _read_json reads the reply: it counts only if there is time left at the end,
\* but its status, type and size are looked at before that.
Read ==
  /\ lStep = "read"
  /\ \/ lLate /\ EndsAs("FAIL_TIMEOUT")
     \/ ~lReply.formed /\ EndsAs("FAIL_EXECUTION")
     \/ ~lLate /\ lReply.formed /\ lStep' = "observe" /\ UNCHANGED lOutcome
  /\ UNCHANGED <<asked, lLate, lPath, lTokens, lReply, lWork>>

\* The owner's observe is called: it takes its time, fails as the connection
\* may, or raises something else.
Observe ==
  /\ lStep = "observe"
  /\ \/ lStep' = "check" /\ UNCHANGED lOutcome
     \/ EndsAs("FAIL_RUNTIME")
     \/ EndsAs("raised")
  /\ UNCHANGED <<asked, lLate, lPath, lTokens, lReply, lWork>>

\* The input and the output it may have fit the context.
FitsContext == lReply.tokens > 0 /\ lReply.tokens + lRequest.max <= lRequest.context

\* execute, once the prompt has been tokenized.
Tokenized ==
  /\ lStep = "check" /\ lPath = "tokenize"
  /\ IF FitsContext
     THEN /\ lPath' = "completion" /\ lTokens' = lReply.tokens /\ lStep' = "post"
          /\ UNCHANGED lOutcome
     ELSE EndsAs("FAIL_EXECUTION") /\ UNCHANGED <<lPath, lTokens>>
  /\ UNCHANGED <<asked, lLate, lReply, lWork>>

\* _validate_completion.
CompletionValid ==
  /\ lReply.whole /\ lReply.kept
  /\ lReply.tokens = lTokens
  /\ lReply.predicted <= lRequest.max /\ lReply.listed <= lReply.predicted

\* Mutant: the time the checks and the owner's observe took does not count.
CompletedUntimed ==
  /\ lStep = "check" /\ lPath = "completion"
  /\ EndsAs(IF CompletionValid THEN "success" ELSE "FAIL_EXECUTION")
  /\ UNCHANGED <<asked, lLate, lPath, lTokens, lReply, lWork>>

\* The end of execute.
CompletionDone ==
  /\ lStep = "check" /\ lPath = "completion"
  /\ EndsAs(IF ~CompletionValid THEN "FAIL_EXECUTION" ELSE IF lLate THEN "FAIL_TIMEOUT" ELSE "success")
  /\ UNCHANGED <<asked, lLate, lPath, lTokens, lReply, lWork>>

-----------------------------------------------------------------------------
(* The server, and time.                                                   *)

\* The server answers a post.  That a completion has stopped it says when it has
\* finished the work, and earlier work before it; anything else it may say with
\* the work going on, given up, or never taken up.
Answer ==
  /\ lStep = "wait" /\ lStep' = "read"
  /\ lReply' \in {r \in Reply : lPath = "tokenize" => r.predicted = 0 /\ r.listed = 0}
  /\ IF lPath = "completion" /\ Finished(lReply')
     THEN lWork = {lCount} /\ lWork' = {}
     ELSE lWork' \in {lWork, lWork \ {lCount}}
  /\ UNCHANGED <<asked, lLate, lPath, lTokens, lOutcome>>

\* It finishes work nobody waits for, or dies with everything it had.
ServerGoesOn ==
  /\ \/ \E n \in lWork : (n # lCount \/ lStep # "wait") /\ lWork' = lWork \ {n}
     \/ lWork # {} /\ lWork' = {}
  /\ UNCHANGED <<asked, lStep, lLate, lPath, lTokens, lReply, lOutcome>>

DeadlinePasses ==
  /\ lStep # "idle" /\ ~lLate /\ lLate' = TRUE
  /\ UNCHANGED <<asked, lStep, lPath, lTokens, lReply, lWork, lOutcome>>

ServerNext ==
  \/ Bind \/ (\E request \in ServerRequests : Ask(request))
  \/ Post \/ WaitOver \/ Read \/ Observe \/ Tokenized \/ CompletionDone
  \/ Answer \/ ServerGoesOn \/ DeadlinePasses

ServerSpec == ServerInit /\ [][ServerNext]_serverVars

-----------------------------------------------------------------------------
(* Properties.                                                             *)

\* What the server may still be at work for is owned up to: its request is under
\* way, has timed out or lost its connection, the two its owner is told to
\* reconcile, or was answered by something else than a finished completion and
\* failed, in the contract or in the owner's observe.  A success, a request
\* declined, and one that failed before it was sent or after the completion was
\* finished leave none.
WorkIsOwnedUp ==
  \A n \in lWork :
    \/ lOutcome[n].as \in {"none", "FAIL_TIMEOUT", "FAIL_RUNTIME"}
    \/ lOutcome[n].unfinished /\ lOutcome[n].as \in {"FAIL_EXECUTION", "raised"}

\* A request succeeds before its deadline only, though the deadline may pass at
\* any point, in the owner's observe too; and the server accounted for exactly
\* the prompt that was tokenized, within the context the owner bound.
SuccessIsInTime ==
  \A n \in 1..lCount : lOutcome[n].as = "success" =>
    /\ ~lOutcome[n].late
    /\ n = lCount => /\ lBinding.state # "UNSUPPORTED" /\ lReply.tokens = lTokens
                     /\ lTokens + lReply.predicted <= lRequest.context
=============================================================================
