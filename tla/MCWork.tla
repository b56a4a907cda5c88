------------------------------- MODULE MCWork -------------------------------
(***************************************************************************)
(* The work side for TLC: the in-memory delivery fixture, the evaluation   *)
(* of a candidate, the progress monitor, checkpoints and the decision      *)
(* engine.  In the code they are called by whoever works on a contract and *)
(* share no state.  A behaviour moves one part only, named when it starts, *)
(* and what is explored is the sum of the parts' states.                   *)
(***************************************************************************)
EXTENDS FlashDelivery, Evaluation, Progress, Checkpoints, Decisions

VARIABLE part   \* the part that moves

vars == <<deliveryVars, evaluationVars, progressVars, cLog, decisionVars, part>>

WorkInit ==
  /\ DeliveryInit /\ EvaluationInit /\ ProgressInit /\ CheckpointInit /\ DecisionInit
  /\ part \in {"delivery", "evaluation", "progress", "checkpoints", "decisions"}
  \* Choices of a part that does not move are made in one way.
  /\ part # "evaluation" =>
       /\ \A c \in Candidates, p \in Predicates : eOutcome[c][p] = "PASS"
       /\ eTarget = CHOOSE c \in Candidates : TRUE
  /\ part # "decisions" =>
       /\ ~rTerms.consequential /\ ~rTerms.excepted /\ rTerms.scope = NoChoice
       /\ \A m \in Members : rTerms.holders[m] = {}

WorkNext ==
  /\ UNCHANGED part
  /\ \/ /\ part = "delivery" /\ DeliveryNext
        /\ UNCHANGED <<evaluationVars, progressVars, cLog, decisionVars>>
     \/ /\ part = "evaluation" /\ EvaluationNext
        /\ UNCHANGED <<deliveryVars, progressVars, cLog, decisionVars>>
     \/ /\ part = "progress" /\ ProgressNext
        /\ UNCHANGED <<deliveryVars, evaluationVars, cLog, decisionVars>>
     \/ /\ part = "checkpoints" /\ CheckpointNext
        /\ UNCHANGED <<deliveryVars, evaluationVars, progressVars, decisionVars>>
     \/ /\ part = "decisions" /\ DecisionNext
        /\ UNCHANGED <<deliveryVars, evaluationVars, progressVars, cLog>>

WorkSpec == WorkInit /\ [][WorkNext]_vars

\* The types of all parts.
WorkTypeOK ==
  DeliveryTypeOK /\ EvaluationTypeOK /\ ProgressTypeOK /\ CheckpointTypeOK /\ DecisionTypeOK

-----------------------------------------------------------------------------
(* The instance: texts and failure ids of one word or two.                 *)

MCContract == <<"command", "artifact">>
MCTexts == {<<"a">>, <<"b">>}
MCFailureIds == {<<"a">>, <<"a", "b">>, <<"b">>}
MCLineSize == [x \in MCTexts \cup MCFailureIds |-> IF x = <<"a">> THEN 1 ELSE 4]
=============================================================================
