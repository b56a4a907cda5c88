----------------------------- MODULE Decisions -----------------------------
(***************************************************************************)
(* The decision engine (decisions/engine.py): one record, the independent  *)
(* initial positions its participants take in any order, and resolutions,  *)
(* which may be asked for at any time, and again after one was given.      *)
(***************************************************************************)
EXTENDS Naturals, FiniteSets

CONSTANTS
  Members,       \* crew members, participants or not
  Participants,  \* the record's participants
  Scopes,        \* scopes of authority
  NoChoice       \* stands for no position, resolution, scope and holder

ASSUME DecisionAssumption ==
  /\ Participants \subseteq Members /\ IsFiniteSet(Participants)
  /\ NoChoice \notin Members \cup Scopes

VARIABLES
  rTerms,       \* fields of the record the engine only reads
  rPositions,   \* rPositions[m]: the initial position captured of m
  rResolution   \* resolution and authority_holder of the record

decisionVars == <<rTerms, rPositions, rResolution>>

\* A block's rationale is not looked at when it is captured; whether a position
\* consents or merely stands aside makes no difference to the engine.
Stances == {"consent", "block"}
Resolutions ==
  {"consensus", "consent", "scoped_authority", "experiment", "escalation", "recorded_disagreement"}
\* What a block leaves open.
PastBlock == {"escalation", "experiment"}

Terms == [consequential: BOOLEAN, excepted: BOOLEAN, scope: Scopes \cup {NoChoice},
          holders: [Members -> SUBSET Scopes]]

DecisionTypeOK ==
  /\ rTerms \in Terms
  /\ rPositions \in [Members -> Stances \cup {NoChoice}]
  /\ rResolution \in [as: Resolutions \cup {NoChoice}, holder: Members \cup {NoChoice}]

DecisionInit ==
  /\ rTerms \in Terms
  /\ rPositions = [m \in Members |-> NoChoice]
  /\ rResolution = [as |-> NoChoice, holder |-> NoChoice]

Heard == {m \in Members : rPositions[m] # NoChoice}
Blocked == \E m \in Members : rPositions[m] = "block"

\* Mutant: whoever speaks is heard.
MayPositionAnyone(m) == rPositions[m] = NoChoice

\* Only participants are heard, and each only once.
MayPosition(m) == m \in Participants /\ rPositions[m] = NoChoice

\* capture_initial; one that may not be captured is refused.
Capture(m, stance) ==
  /\ MayPosition(m)
  /\ rPositions' = [rPositions EXCEPT ![m] = stance]
  /\ UNCHANGED <<rTerms, rResolution>>

\* holder takes part and holds the declared scope.
Entitled(holder) ==
  holder \in Participants /\ rTerms.scope # NoChoice /\ rTerms.scope \in rTerms.holders[holder]

\* The checks of resolve, which counts the positions and not who took them.
Resolvable(as, holder) ==
  /\ rTerms.consequential /\ ~rTerms.excepted => Cardinality(Heard) = Cardinality(Participants)
  /\ Blocked => as \in PastBlock
  /\ as = "scoped_authority" => holder # NoChoice /\ Entitled(holder)

\* resolve: an earlier resolution is replaced.
Resolve(as, holder) ==
  /\ Resolvable(as, holder)
  /\ rResolution' = [as |-> as, holder |-> holder]
  /\ UNCHANGED <<rTerms, rPositions>>

DecisionNext ==
  \/ \E m \in Members, stance \in Stances : Capture(m, stance)
  \/ \E as \in Resolutions, holder \in Members \cup {NoChoice} : Resolve(as, holder)

DecisionSpec == DecisionInit /\ [][DecisionNext]_decisionVars

-----------------------------------------------------------------------------
(* Properties.                                                             *)

\* Once a consequential decision is resolved without an exception, every
\* participant has been heard and no block of theirs is bypassed: not only
\* those known when it was resolved, as nobody is left to take a position
\* (capture_initial, resolve).
EveryoneHeard ==
  rResolution.as # NoChoice /\ rTerms.consequential /\ ~rTerms.excepted =>
    /\ Heard = Participants
    /\ Blocked => rResolution.as \in PastBlock
=============================================================================
