----------------------------- MODULE Evaluation -----------------------------
(***************************************************************************)
(* The independent evaluation of a candidate against a work contract       *)
(* (work/evaluator.py and evaluate_work of work/contracts.py).  The runner *)
(* reads the fingerprint of its target once and then makes one check after *)
(* another, while whoever works on the target may change it; packets of    *)
(* evidence are judged again later, against what the target is by then.    *)
(*                                                                         *)
(* A candidate is identified with its fingerprint, and a check of one      *)
(* candidate always has the same outcome.                                  *)
(***************************************************************************)
EXTENDS Naturals, Sequences, FiniteSets

CONSTANTS
  Candidates,    \* contents of the target
  NoCandidate,   \* stands for no run and for no packet
  Contract,      \* the contract's success predicates, in order
  Artifacts      \* those that ask for an artifact; the others run a command

\* The validated success_predicates: at least one, and their ids differ.
SuccessPredicates ==
  /\ Contract \in Seq(STRING) /\ Len(Contract) > 0
  /\ \A i, k \in DOMAIN Contract : Contract[i] = Contract[k] => i = k

ASSUME ContractAssumption == NoCandidate \notin Candidates /\ SuccessPredicates

VARIABLES
  eOutcome,      \* eOutcome[c][p]: what a check of p on candidate c finds
  eTarget,       \* the candidate the target holds
  eRun,          \* the run under way
  ePacket,       \* the packet of the last run that ended
  eRegressions,  \* regressions of ePacket, as reopen_regressions left them
  eVerdict       \* the last evaluation, and the candidate it is about

evaluationVars == <<eOutcome, eTarget, eRun, ePacket, eRegressions, eVerdict>>

Predicates == {Contract[i] : i \in DOMAIN Contract}
EvidenceState == {"PASS", "FAIL", "UNKNOWN"}
Disposition == {"ACCEPTED", "REJECTED", "INCOMPLETE"}

\* Evidence in the order it was gathered; steady while the target has not
\* changed since the fingerprint was read (read by properties only).
Packet == [candidate: Candidates \cup {NoCandidate},
           checks: Seq([predicate: Predicates, state: EvidenceState]), steady: BOOLEAN]
NoPacket == [candidate |-> NoCandidate, checks |-> <<>>, steady |-> TRUE]
NoVerdict == [disposition |-> "INCOMPLETE", candidate |-> NoCandidate, steady |-> TRUE]

EvaluationTypeOK ==
  /\ eOutcome \in [Candidates -> [Predicates -> EvidenceState]] /\ eTarget \in Candidates
  /\ {eRun, ePacket} \subseteq Packet
  /\ eRegressions \subseteq Predicates
  /\ eVerdict \in [disposition: Disposition, candidate: Candidates \cup {NoCandidate},
                   steady: BOOLEAN]

\* Inspecting an artifact passes or fails; a command may also find nothing out.
EvaluationInit ==
  /\ eOutcome \in [Candidates -> [Predicates -> EvidenceState]]
  /\ \A c \in Candidates, p \in Predicates \cap Artifacts : eOutcome[c][p] # "UNKNOWN"
  /\ eTarget \in Candidates
  /\ eRun = NoPacket /\ ePacket = NoPacket
  /\ eRegressions = {} /\ eVerdict = NoVerdict

-----------------------------------------------------------------------------

With(checks, state) == {c.predicate : c \in {k \in {checks[i] : i \in DOMAIN checks} : k.state = state}}

\* Mutant: only a predicate that was found wanting counts against the candidate.
EvaluateFailures(checks, failure) ==
  IF failure \/ With(checks, "FAIL") # {} THEN "REJECTED" ELSE "ACCEPTED"

\* evaluate_work: the disposition that external evidence, or a failure that
\* ended the attempt, gives.  Predicates of another contract do not count.
\* (Evidence with two observations of one predicate, which no run of this
\* runner gathers, is an error.)
EvaluateWork(checks, failure) ==
  LET failed == Predicates \cap With(checks, "FAIL")
      missing == Predicates \ (With(checks, "PASS") \cup With(checks, "FAIL"))
  IN IF failure \/ failed # {} THEN "REJECTED"
     ELSE IF missing # {} THEN "INCOMPLETE" ELSE "ACCEPTED"

\* evaluate_packet: evidence of another candidate is stale.
EvaluatePacket(packet, candidate) ==
  IF packet.candidate # candidate THEN "INCOMPLETE" ELSE EvaluateWork(packet.checks, FALSE)

\* reopen_regressions: what was verified before, and fails on the new candidate.
Regressions(previous, current) ==
  With(previous.checks, "PASS") \cap With(current.checks, "FAIL")

-----------------------------------------------------------------------------

StartRun ==
  /\ eRun = NoPacket
  /\ eRun' = [NoPacket EXCEPT !.candidate = eTarget]
  /\ UNCHANGED <<eOutcome, eTarget, ePacket, eRegressions, eVerdict>>

\* The next predicate is checked against what the target holds by then.
Check ==
  LET p == Contract[Len(eRun.checks) + 1]
  IN /\ eRun # NoPacket /\ Len(eRun.checks) < Len(Contract)
     /\ eRun' = [eRun EXCEPT !.checks = Append(@, [predicate |-> p, state |-> eOutcome[eTarget][p]])]
     /\ UNCHANGED <<eOutcome, eTarget, ePacket, eRegressions, eVerdict>>

\* A check raises, and the run leaves no packet.
CheckRaises ==
  /\ eRun # NoPacket /\ Len(eRun.checks) < Len(Contract)
  /\ eRun' = NoPacket
  /\ UNCHANGED <<eOutcome, eTarget, ePacket, eRegressions, eVerdict>>

\* The packet is bound to the fingerprint read first, and judged against it;
\* perhaps the predicates it fails are reopened against the packet before it.
EndRun ==
  /\ eRun # NoPacket /\ Len(eRun.checks) = Len(Contract)
  /\ ePacket' = eRun /\ eRun' = NoPacket
  /\ eRegressions' \in {{}, Regressions(ePacket, eRun)}
  /\ eVerdict' = [disposition |-> EvaluatePacket(eRun, eRun.candidate),
                  candidate |-> eRun.candidate, steady |-> eRun.steady]
  /\ UNCHANGED <<eOutcome, eTarget>>

\* A packet is judged again for the candidate the target holds now.
JudgeAgain ==
  /\ ePacket # NoPacket
  /\ eVerdict' = [disposition |-> EvaluatePacket(ePacket, eTarget),
                  candidate |-> eTarget, steady |-> ePacket.steady]
  /\ UNCHANGED <<eOutcome, eTarget, eRun, ePacket, eRegressions>>

\* An attempt is judged on the evidence there is, perhaps as it was ended by a
\* failure of the contract's failure predicates.
JudgeSoFar(failure) ==
  /\ eRun # NoPacket
  /\ eVerdict' = [disposition |-> EvaluateWork(eRun.checks, failure),
                  candidate |-> eRun.candidate, steady |-> eRun.steady]
  /\ UNCHANGED <<eOutcome, eTarget, eRun, ePacket, eRegressions>>

\* Somebody works on the target.
ChangeTarget ==
  /\ eTarget' \in Candidates \ {eTarget}
  /\ eRun' = IF eRun = NoPacket THEN eRun ELSE [eRun EXCEPT !.steady = FALSE]
  /\ UNCHANGED <<eOutcome, ePacket, eRegressions, eVerdict>>

EvaluationNext ==
  \/ StartRun \/ Check \/ CheckRaises \/ EndRun \/ JudgeAgain \/ ChangeTarget
  \/ \E failure \in BOOLEAN : JudgeSoFar(failure)

EvaluationSpec == EvaluationInit /\ [][EvaluationNext]_evaluationVars

-----------------------------------------------------------------------------
(* Properties.                                                             *)

\* A candidate is accepted only if every predicate of the contract holds of
\* it, whichever packet it is judged by and however often the target changed
\* since: provided that it did not change while the checks ran, as the
\* fingerprint is read only before them (EvaluationRunner.evaluate).
AcceptedCandidateHolds ==
  eVerdict.disposition = "ACCEPTED" /\ eVerdict.steady =>
    \A p \in Predicates : eOutcome[eVerdict.candidate][p] = "PASS"

\* "Evidence for an older fingerprint is stale and cannot certify a changed
\* candidate" (docs/architecture.md:75): the same of every accepted candidate,
\* also of one that changed while its checks ran.
AcceptanceIsOfCandidate ==
  eVerdict.disposition = "ACCEPTED" =>
    \A p \in Predicates : eOutcome[eVerdict.candidate][p] = "PASS"
=============================================================================
