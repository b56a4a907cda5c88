----------------------------- MODULE WorkProofs -----------------------------
(***************************************************************************)
(* The work side, for any crew, candidates, predicates, histories, windows *)
(* and limits: a consequential decision is never resolved without a        *)
(* participant's position, what is accepted passes every predicate, the    *)
(* monitor's bounded windows lose nothing of the whole history, a          *)
(* checkpoint says what its log says, and a digest leaves out nothing it   *)
(* has room for.                                                           *)
(***************************************************************************)
EXTENDS MCWork, FlashDeliveryProofs, FiniteSetTheorems, FunctionTheorems, SequenceTheorems,
        WellFoundedInduction

-----------------------------------------------------------------------------
(* Decisions: no one but participants is heard, so the count of positions   *)
(* that resolve relies on is that of all of them.                          *)

\* The inductive invariant: resolve counts positions, and only because no one
\* but participants is heard does the count tell that all of them were.
DecisionInv == DecisionTypeOK /\ Heard \subseteq Participants /\ EveryoneHeard

LEMMA DecisionInvInit == DecisionInit => DecisionInv
BY DEF DecisionInit, DecisionInv, DecisionTypeOK, Heard, EveryoneHeard

\* A position taken adds its participant to those heard, and leaves nobody to
\* be added where everyone was.
LEMMA CaptureKeeps ==
  ASSUME NEW m \in Members, NEW stance \in Stances, DecisionInv, Capture(m, stance)
  PROVE  DecisionInv'
<1> USE DecisionAssumption DEF DecisionInv, Capture, MayPosition
<1>1. DecisionTypeOK'
  BY DEF DecisionTypeOK
<1>2. Heard' \subseteq Heard \cup {m}
  BY DEF Heard, DecisionTypeOK
<1>3. Heard' \subseteq Participants
  BY <1>2
<1>4. m \notin Heard /\ Heard # Participants
  BY DEF Heard
<1>5. EveryoneHeard'
  BY <1>4 DEF EveryoneHeard
<1> QED BY <1>1, <1>3, <1>5

\* As many positions as participants are those of all participants.
LEMMA ResolveKeeps ==
  ASSUME NEW as \in Resolutions, NEW holder \in Members \cup {NoChoice}, DecisionInv,
         Resolve(as, holder)
  PROVE  DecisionInv'
<1> USE DecisionAssumption DEF DecisionInv, Resolve
<1>1. DecisionTypeOK'
  BY DEF DecisionTypeOK
<1>2. Heard' = Heard /\ Blocked' = Blocked
  BY DEF Heard, Blocked
<1>3. Cardinality(Heard) = Cardinality(Participants) => Heard = Participants
  BY FS_Subset
<1>4. EveryoneHeard'
  BY <1>2, <1>3 DEF EveryoneHeard, Resolvable
<1> QED BY <1>1, <1>2, <1>4

LEMMA DecisionInvNext == DecisionInv /\ [DecisionNext]_decisionVars => DecisionInv'
<1> SUFFICES ASSUME DecisionInv, [DecisionNext]_decisionVars PROVE DecisionInv'
  OBVIOUS
<1>1. CASE \E m \in Members, stance \in Stances : Capture(m, stance)
  BY <1>1, CaptureKeeps
<1>2. CASE \E as \in Resolutions, holder \in Members \cup {NoChoice} : Resolve(as, holder)
  BY <1>2, ResolveKeeps
<1>3. CASE UNCHANGED decisionVars
  BY <1>3 DEF decisionVars, DecisionInv, DecisionTypeOK, Heard, EveryoneHeard, Blocked
<1> QED BY <1>1, <1>2, <1>3 DEF DecisionNext

\* Whatever the order of positions and resolutions (DecisionEngine), every
\* participant of a consequential decision is heard, and no block bypassed.
THEOREM EveryoneIsHeard == DecisionSpec => []EveryoneHeard
<1>1. DecisionInv => EveryoneHeard
  BY DEF DecisionInv
<1> QED BY <1>1, DecisionInvInit, DecisionInvNext, PTL DEF DecisionSpec

-----------------------------------------------------------------------------
(* Evaluation: a candidate that is accepted passes every predicate.        *)

\* While the target has not changed since the fingerprint of a packet was
\* read, each check in it found what holds of the packet's candidate.
ChecksHold(packet) ==
  packet.steady =>
    \A i \in DOMAIN packet.checks :
       packet.checks[i].state = eOutcome[packet.candidate][packet.checks[i].predicate]

\* The inductive invariant of Evaluation: what a verdict rests on.
EvaluationInv ==
  /\ EvaluationTypeOK
  /\ eRun # NoPacket /\ eRun.steady => eRun.candidate = eTarget
  /\ ChecksHold(eRun) /\ ChecksHold(ePacket)
  /\ AcceptedCandidateHolds

\* The elements of a sequence.
LEMMA ItemOfSeq ==
  ASSUME NEW S, NEW q \in Seq(S), NEW i \in DOMAIN q
  PROVE  q[i] \in S
  OBVIOUS

\* The predicate of each check is one of the contract.
LEMMA WithPredicates ==
  ASSUME NEW checks \in Seq([predicate : Predicates, state : EvidenceState]), NEW state
  PROVE  With(checks, state) \subseteq Predicates
  <1> SUFFICES ASSUME NEW p \in With(checks, state) PROVE p \in Predicates
    OBVIOUS
  <1>1. PICK i \in DOMAIN checks : p = checks[i].predicate
    BY DEF With
  <1> DEFINE S == [predicate : Predicates, state : EvidenceState]
  <1>2. checks \in Seq(S)
    OBVIOUS
  <1> HIDE DEF S
  <1>3. checks[i] \in S
    BY <1>1, <1>2, ItemOfSeq
  <1> QED BY <1>1, <1>3 DEF S

\* No run and no packet: nothing was checked.
LEMMA NoPacketFacts ==
  /\ NoPacket \in Packet /\ NoPacket.checks = <<>> /\ NoPacket.steady = TRUE
  /\ \A c \in Candidates :
        LET run == [NoPacket EXCEPT !.candidate = c]
        IN  run \in Packet /\ run.candidate = c /\ run.checks = <<>>
  <1>1. <<>> \in Seq([predicate : Predicates, state : EvidenceState])
    OBVIOUS
  <1>2. NoPacket \in Packet
    <2> DEFINE C == Seq([predicate : Predicates, state : EvidenceState])
    <2>1. <<>> \in C
      BY <1>1
    <2> HIDE DEF C
    <2>2. [candidate |-> NoCandidate, checks |-> <<>>, steady |-> TRUE]
            \in [candidate : Candidates \cup {NoCandidate}, checks : C, steady : BOOLEAN]
      BY <2>1
    <2> QED BY <2>2 DEF C, NoPacket, Packet
  <1>3. NoPacket.checks = <<>> /\ NoPacket.steady = TRUE
    BY DEF NoPacket
  <1>4. ASSUME NEW c \in Candidates
        PROVE  LET run == [NoPacket EXCEPT !.candidate = c]
               IN  run \in Packet /\ run.candidate = c /\ run.checks = <<>>
    BY <1>2, <1>3 DEF Packet
  <1> QED BY <1>2, <1>3, <1>4

\* Evidence accepts a candidate only if it has a passed check of every
\* predicate, so that a packet whose checks hold accepts what passes them all.
LEMMA AcceptedByChecks ==
  ASSUME NEW packet \in Packet, ChecksHold(packet), packet.steady, NEW failure,
         EvaluateWork(packet.checks, failure) = "ACCEPTED"
  PROVE  \A p \in Predicates : eOutcome[packet.candidate][p] = "PASS"
  <1> SUFFICES ASSUME NEW p \in Predicates PROVE eOutcome[packet.candidate][p] = "PASS"
    OBVIOUS
  <1>1. p \in With(packet.checks, "PASS")
    BY DEF EvaluateWork
  <1>2. PICK i \in DOMAIN packet.checks :
          packet.checks[i].predicate = p /\ packet.checks[i].state = "PASS"
    BY <1>1 DEF With
  <1> QED BY <1>2 DEF ChecksHold

LEMMA EvaluationInvInit == EvaluationInit => EvaluationInv
  <1> SUFFICES ASSUME EvaluationInit PROVE EvaluationInv
    OBVIOUS
  <1>1. EvaluationTypeOK
    BY NoPacketFacts DEF EvaluationInit, EvaluationTypeOK, NoVerdict, Disposition
  <1>2. ChecksHold(NoPacket)
    BY NoPacketFacts DEF ChecksHold
  <1>3. AcceptedCandidateHolds
    BY DEF EvaluationInit, AcceptedCandidateHolds, NoVerdict
  <1> QED BY <1>1, <1>2, <1>3 DEF EvaluationInit, EvaluationInv

\* A check on a target that has not changed finds what holds of the candidate.
LEMMA CheckKeeps ==
  ASSUME EvaluationInv, Check
  PROVE  EvaluationInv'
  <1> DEFINE p == Contract[Len(eRun.checks) + 1]
             c == [predicate |-> p, state |-> eOutcome[eTarget][p]]
             checks == Append(eRun.checks, c)
  <1>1. /\ eRun \in Packet /\ eRun.candidate \in Candidates \cup {NoCandidate}
        /\ eRun.checks \in Seq([predicate : Predicates, state : EvidenceState])
        /\ eRun.steady \in BOOLEAN
    BY DEF EvaluationInv, EvaluationTypeOK, Packet
  <1>2. Len(eRun.checks) + 1 \in DOMAIN Contract
    BY <1>1, ContractAssumption DEF Check, SuccessPredicates
  <1>3. c \in [predicate : Predicates, state : EvidenceState]
    <2>1. p \in Predicates
      BY <1>2 DEF Predicates
    <2>2. eOutcome[eTarget] \in [Predicates -> EvidenceState]
      BY DEF EvaluationInv, EvaluationTypeOK
    <2> QED BY <2>1, <2>2
  <1>4. /\ checks \in Seq([predicate : Predicates, state : EvidenceState])
        /\ DOMAIN checks = 1..(Len(eRun.checks) + 1) /\ checks[Len(eRun.checks) + 1] = c
        /\ \A i \in DOMAIN eRun.checks : checks[i] = eRun.checks[i]
    BY <1>1, <1>3
  <1>5. /\ eRun' \in Packet /\ eRun'.checks = checks /\ eRun'.candidate = eRun.candidate
        /\ eRun'.steady = eRun.steady
    BY <1>1, <1>4 DEF Check, Packet
  <1>6. EvaluationTypeOK'
    BY <1>5 DEF Check, EvaluationInv, EvaluationTypeOK
  <1>7. ChecksHold(eRun)'
    <2> SUFFICES ASSUME eRun.steady, NEW i \in 1..(Len(eRun.checks) + 1)
                 PROVE  checks[i].state = eOutcome[eRun.candidate][checks[i].predicate]
      BY <1>4, <1>5 DEF Check, ChecksHold
    <2>1. CASE i = Len(eRun.checks) + 1
      BY <1>4, <2>1 DEF EvaluationInv, Check
    <2>2. CASE i \in DOMAIN eRun.checks
      BY <1>4, <2>2 DEF EvaluationInv, ChecksHold
    <2> QED BY <1>1, <2>1, <2>2
  <1>8. ChecksHold(ePacket)' /\ AcceptedCandidateHolds'
    BY DEF Check, EvaluationInv, ChecksHold, AcceptedCandidateHolds
  <1>9. (eRun # NoPacket /\ eRun.steady => eRun.candidate = eTarget)'
    BY <1>5 DEF Check, EvaluationInv
  <1> QED BY <1>6, <1>7, <1>8, <1>9 DEF EvaluationInv

\* A packet is judged as its run ends, or a verdict is passed on what there is.
LEMMA JudgeKeeps ==
  ASSUME EvaluationInv, EndRun \/ JudgeAgain \/ \E failure \in BOOLEAN : JudgeSoFar(failure)
  PROVE  EvaluationInv'
  <1>1. /\ eRun \in Packet /\ ePacket \in Packet /\ eTarget \in Candidates
        /\ eRun.candidate \in Candidates \cup {NoCandidate}
        /\ eRun.steady \in BOOLEAN /\ ePacket.steady \in BOOLEAN
        /\ eRun.checks \in Seq([predicate : Predicates, state : EvidenceState])
    BY DEF EvaluationInv, EvaluationTypeOK, Packet
  <1>2. \A checks, failure : EvaluateWork(checks, failure) \in Disposition
    BY DEF EvaluateWork, Disposition
  <1>3. \A packet, candidate : EvaluatePacket(packet, candidate) \in Disposition
    BY <1>2 DEF EvaluatePacket, Disposition
  <1>4. Regressions(ePacket, eRun) \subseteq Predicates
    BY <1>1, WithPredicates DEF Regressions
  <1>5. EvaluationTypeOK'
    <2>1. CASE EndRun
      BY <1>1, <1>3, <1>4, <2>1, NoPacketFacts DEF EndRun, EvaluationInv, EvaluationTypeOK
    <2>2. CASE JudgeAgain
      BY <1>1, <1>3, <2>2 DEF JudgeAgain, EvaluationInv, EvaluationTypeOK
    <2>3. ASSUME NEW failure \in BOOLEAN, JudgeSoFar(failure) PROVE EvaluationTypeOK'
      BY <1>1, <1>2, <2>3 DEF JudgeSoFar, EvaluationInv, EvaluationTypeOK
    <2> QED BY <2>1, <2>2, <2>3
  <1>6. AcceptedCandidateHolds'
    <2>1. eOutcome' = eOutcome
      BY DEF EndRun, JudgeAgain, JudgeSoFar
    <2>2. PICK packet \in {eRun, ePacket}, failure \in BOOLEAN :
            /\ eVerdict'.steady = packet.steady
            /\ eVerdict'.disposition = "ACCEPTED" =>
                 /\ EvaluateWork(packet.checks, failure) = "ACCEPTED"
                 /\ eVerdict'.candidate = packet.candidate
      <3> DEFINE Verdict(packet, failure) ==
            /\ eVerdict'.steady = packet.steady
            /\ eVerdict'.disposition = "ACCEPTED" =>
                 /\ EvaluateWork(packet.checks, failure) = "ACCEPTED"
                 /\ eVerdict'.candidate = packet.candidate
      <3>1. CASE EndRun
        <4>1. Verdict(eRun, FALSE)
          BY <3>1 DEF EndRun, EvaluatePacket
        <4> QED BY <4>1
      <3>2. CASE JudgeAgain
        <4>1. Verdict(ePacket, FALSE)
          BY <3>2 DEF JudgeAgain, EvaluatePacket
        <4> QED BY <4>1
      <3>3. ASSUME NEW failure \in BOOLEAN, JudgeSoFar(failure) PROVE Verdict(eRun, failure)
        BY <3>3 DEF JudgeSoFar
      <3> QED BY <3>1, <3>2, <3>3
    <2>3. ChecksHold(packet) /\ packet \in Packet
      BY <1>1 DEF EvaluationInv
    <2> QED BY <2>1, <2>2, <2>3, AcceptedByChecks DEF AcceptedCandidateHolds
  <1>7. ChecksHold(eRun)' /\ ChecksHold(ePacket)'
    BY NoPacketFacts DEF EndRun, JudgeAgain, JudgeSoFar, EvaluationInv, ChecksHold
  <1>8. (eRun # NoPacket /\ eRun.steady => eRun.candidate = eTarget)'
    BY DEF EndRun, JudgeAgain, JudgeSoFar, EvaluationInv
  <1> QED BY <1>5, <1>6, <1>7, <1>8 DEF EvaluationInv

\* Reading the fingerprint, giving a run up, and work on the target.
LEMMA RunKeeps ==
  ASSUME EvaluationInv, StartRun \/ CheckRaises \/ ChangeTarget
  PROVE  EvaluationInv'
  <1>1. AcceptedCandidateHolds' /\ ChecksHold(ePacket)'
    BY DEF StartRun, CheckRaises, ChangeTarget, EvaluationInv, AcceptedCandidateHolds, ChecksHold
  <1>2. CASE StartRun
    <2>1. eRun' \in Packet /\ eRun'.candidate = eTarget /\ eRun'.checks = <<>>
      BY <1>2, NoPacketFacts DEF StartRun, EvaluationInv, EvaluationTypeOK
    <2>2. ChecksHold(eRun)'
      BY <2>1 DEF ChecksHold
    <2> QED BY <1>1, <1>2, <2>1, <2>2 DEF StartRun, EvaluationInv, EvaluationTypeOK
  <1>3. CASE CheckRaises
    BY <1>1, <1>3, NoPacketFacts DEF CheckRaises, EvaluationInv, EvaluationTypeOK, ChecksHold
  <1>4. CASE ChangeTarget
    <2>1. eRun \in Packet
      BY DEF EvaluationInv, EvaluationTypeOK
    <2>2. eRun' \in Packet /\ (eRun' # NoPacket => ~eRun'.steady) /\ (eRun' = eRun \/ ~eRun'.steady)
      BY <1>4, <2>1, NoPacketFacts DEF ChangeTarget, Packet
    <2>3. ChecksHold(eRun)'
      BY <1>4, <2>2 DEF ChangeTarget, EvaluationInv, ChecksHold
    <2> QED BY <1>1, <1>4, <2>2, <2>3 DEF ChangeTarget, EvaluationInv, EvaluationTypeOK
  <1> QED BY <1>2, <1>3, <1>4

LEMMA EvaluationInvStep == EvaluationInv /\ [EvaluationNext]_evaluationVars => EvaluationInv'
  <1> SUFFICES ASSUME EvaluationInv, [EvaluationNext]_evaluationVars PROVE EvaluationInv'
    OBVIOUS
  <1>1. CASE UNCHANGED evaluationVars
    BY <1>1 DEF evaluationVars, EvaluationInv, EvaluationTypeOK, ChecksHold, AcceptedCandidateHolds
  <1> QED BY <1>1, CheckKeeps, JudgeKeeps, RunKeeps DEF EvaluationNext

\* However often the target changes and packets are judged again: a candidate
\* is accepted only if every predicate of the contract holds of it.
THEOREM AcceptanceHolds == EvaluationSpec => []AcceptedCandidateHolds
  <1>1. EvaluationInv => AcceptedCandidateHolds
    BY DEF EvaluationInv
  <1> QED BY <1>1, EvaluationInvInit, EvaluationInvStep, PTL DEF EvaluationSpec

-----------------------------------------------------------------------------
(* Progress: the monitor's windows against the whole history.              *)

\* f places the window q among the positions I of a history: it keeps their
\* order, and leaves out earlier ones only, when the window is full.
IsWindow(q, I, f) ==
  /\ Len(q) <= RecentWindow
  /\ f \in [1..Len(q) -> I]
  /\ \A j, k \in 1..Len(q) : j < k => f[j] < f[k]
  /\ \A i \in I : \/ \E j \in 1..Len(q) : f[j] = i
                  \/ Len(q) = RecentWindow /\ \A j \in 1..Len(q) : i < f[j]

Positions == 1..Len(pSteps)
FailedPositions == {i \in Positions : pSteps[i].failed}

\* signatures, and failure_pairs, are the last of the history.
SignaturesAreLast ==
  LET n == Len(pSteps)
      k == Len(pSignatures)
  IN /\ k = IF n <= RecentWindow THEN n ELSE RecentWindow
     /\ \A j \in 1..k : pSignatures[j] = pSteps[n - k + j].action
FailuresAreLast ==
  \E f \in [1..Len(pFailures) -> FailedPositions] :
    /\ IsWindow(pFailures, FailedPositions, f)
    /\ \A j \in 1..Len(pFailures) :
         pFailures[j] = <<pSteps[f[j]].action, pSteps[f[j]].fingerprint>>

\* The history h ends with a run of exactly c equal calls.
EndsRun(h, c) ==
  LET n == Len(h)
  IN /\ c \in 1..n
     /\ \A i \in 1..n : i > n - c => h[i].action = h[n].action
     /\ n - c \in 1..n => h[n - c].action # h[n].action

\* The history h ends with exactly c steps that do not advance.
EndsIdle(h, c) ==
  LET n == Len(h)
  IN /\ c \in 0..n
     /\ \A i \in 1..n : i > n - c => ~Advances(h[i])
     /\ n - c \in 1..n => Advances(h[n - c])

\* The inductive invariant of Progress.
ProgressInv ==
  /\ ProgressTypeOK /\ SignaturesAreLast /\ FailuresAreLast
  /\ pSteps # <<>> => EndsRun(pSteps, pConsecutive)
  /\ EndsIdle(pSteps, pNoProgress)
  /\ MonitorSeesHistory

\* How many elements a window loses when another is added.
Cut(q) == IF Len(q) < RecentWindow THEN 0 ELSE 1

\* A window after x was added: it moves up by one where it was full.
LEMMA WindowAdded ==
  ASSUME NEW S, NEW q \in Seq(S), NEW x \in S, Len(q) <= RecentWindow
  PROVE  LET r == Window(q, x)
         IN /\ r \in Seq(S) /\ Len(r) = Len(q) + 1 - Cut(q) /\ r[Len(r)] = x
            /\ \A j \in 1..(Len(r) - 1) : r[j] = q[j + Cut(q)]
            /\ Len(q) \in Nat /\ Cut(q) \in {0, 1}
  <1> USE DEF Cut
  <1> DEFINE a == Append(q, x)
  <1>1. /\ a \in Seq(S) /\ Len(a) = Len(q) + 1 /\ Len(q) \in Nat /\ a[Len(q) + 1] = x
        /\ \A j \in 1..Len(q) : a[j] = q[j]
    OBVIOUS
  <1>2. RecentWindow \in Nat \ {0}
    BY PolicyAssumption DEF ProgressPolicy
  <1> HIDE DEF a
  <1>3. CASE Len(q) < RecentWindow
    <2>1. LastOf(a, RecentWindow) = a
      BY <1>1, <1>2, <1>3 DEF LastOf
    <2> QED BY <1>1, <1>2, <1>3, <2>1 DEF Window, a
  <1>4. CASE Len(q) = RecentWindow
    <2>1. LastOf(a, RecentWindow) = SubSeq(a, 2, Len(q) + 1)
      BY <1>1, <1>2, <1>4 DEF LastOf
    <2> DEFINE r == SubSeq(a, 2, Len(q) + 1)
    <2>2. r \in Seq(S) /\ Len(r) = Len(q) /\ \A j \in 1..Len(q) : r[j] = a[j + 1]
      BY <1>1, <1>2, <1>4
    <2> HIDE DEF r
    <2>3. r[Len(r)] = x /\ \A j \in 1..(Len(r) - 1) : r[j] = q[j + 1]
      BY <1>1, <1>2, <1>4, <2>2
    <2>4. Window(q, x) = r
      BY <2>1 DEF Window, a, r
    <2> QED BY <1>1, <1>2, <1>4, <2>2, <2>3, <2>4
  <1> QED BY <1>1, <1>2, <1>3, <1>4

\* Where the elements x of the window q come from.
Sources(q, x, f) == {f[j] : j \in {i \in 1..Len(q) : q[i] = x}}

\* Counting in a sequence is counting where its elements come from.
LEMMA CountElsewhere ==
  ASSUME NEW S, NEW q \in Seq(S), NEW x, NEW I, NEW f \in [1..Len(q) -> I],
         \A j, k \in 1..Len(q) : j < k => f[j] # f[k]
  PROVE  IsFiniteSet(Sources(q, x, f)) /\ Cardinality(Sources(q, x, f)) = CountOf(q, x)
  <1> DEFINE J == {i \in 1..Len(q) : q[i] = x}
             T == Sources(q, x, f)
             g == [j \in J |-> f[j]]
  <1>1. Len(q) \in Nat /\ DOMAIN q = 1..Len(q)
    OBVIOUS
  <1>2. IsFiniteSet(J)
    <2>1. IsFiniteSet(1..Len(q))
      BY <1>1, FS_Interval
    <2> QED BY <2>1, FS_Subset
  <1>3. g \in Bijection(J, T)
    <2>1. g \in [J -> T] /\ \A t \in T : \E j \in J : g[j] = t
      BY DEF Sources
    <2>2. \A j, k \in J : g[j] = g[k] => j = k
      BY <1>1
    <2> QED BY <2>1, <2>2, Fun_IsBij DEF IsInjective
  <1>4. IsFiniteSet(T) /\ Cardinality(T) = Cardinality(J)
    BY <1>2, <1>3, FS_Bijection DEF ExistsBijection
  <1> QED BY <1>1, <1>4 DEF CountOf

Later(I, i) == {k \in I : k > i}

\* The positions of a window are those with fewer than RecentWindow after them.
LEMMA LastByCardinality ==
  ASSUME NEW S, NEW q \in Seq(S), NEW n \in Nat, NEW I \in SUBSET (1..n), NEW f, IsWindow(q, I, f),
         NEW i \in I
  PROVE  (\E j \in 1..Len(q) : f[j] = i) <=> Cardinality(Later(I, i)) < RecentWindow
  <1> DEFINE later == Later(I, i)
  <1> USE DEF Later
  <1>1. RecentWindow \in Nat \ {0} /\ Len(q) \in Nat
    BY PolicyAssumption DEF ProgressPolicy
  <1>2. IsFiniteSet(later) /\ Cardinality(later) \in Nat
    <2>1. IsFiniteSet(1..n)
      BY FS_Interval
    <2>2. IsFiniteSet(later)
      BY <2>1, FS_Subset
    <2> QED BY <2>2, FS_CardinalityType
  <1>3. ASSUME NEW j \in 1..Len(q), f[j] = i PROVE Cardinality(later) < RecentWindow
    <2> DEFINE J == (j + 1)..Len(q)
               g == [l \in J |-> f[l]]
               T == {f[l] : l \in J}
    <2>1. later \subseteq T
      <3> SUFFICES ASSUME NEW k \in I, k > i PROVE k \in T
        OBVIOUS
      <3>1. PICK l \in 1..Len(q) : f[l] = k
        BY <1>3 DEF IsWindow
      <3>2. ~(l < j) /\ l # j
        BY <1>3, <3>1 DEF IsWindow
      <3> QED BY <1>1, <3>1, <3>2
    <2>2. IsFiniteSet(J) /\ Cardinality(J) = Len(q) - j
      BY <1>1, FS_Interval
    <2>3. g \in Surjection(J, T)
      BY DEF Surjection
    <2>4. IsFiniteSet(T) /\ Cardinality(T) <= Cardinality(J)
      BY <2>2, <2>3, FS_Surjection
    <2>5. Cardinality(later) <= Cardinality(T) /\ Cardinality(T) \in Nat
      BY <2>1, <2>4, FS_Subset, FS_CardinalityType
    <2> QED BY <1>1, <1>2, <2>2, <2>4, <2>5 DEF IsWindow
  <1>4. ASSUME \A j \in 1..Len(q) : f[j] # i PROVE ~(Cardinality(later) < RecentWindow)
    <2> DEFINE J == 1..Len(q)
               T == {f[l] : l \in J}
    <2>1. Len(q) = RecentWindow /\ \A j \in J : i < f[j]
      BY <1>4 DEF IsWindow
    <2>2. T \subseteq later
      BY <2>1 DEF IsWindow
    <2>3. IsFiniteSet(J) /\ Cardinality(J) = Len(q)
      <3>1. 1 \in Int /\ Len(q) \in Int /\ ~(1 > Len(q)) /\ Len(q) - 1 + 1 = Len(q)
        BY <1>1, <2>1
      <3> QED BY <3>1, FS_Interval
    <2>4. f \in Bijection(J, T)
      <3>1. f \in [J -> T] /\ \A t \in T : \E j \in J : f[j] = t
        BY DEF IsWindow
      <3>2. \A j, k \in J : f[j] = f[k] => j = k
        <4> SUFFICES ASSUME NEW j \in J, NEW k \in J, j < k PROVE f[j] # f[k]
          BY <1>1
        <4>1. f[j] < f[k] /\ f[j] \in I /\ f[k] \in I
          BY DEF IsWindow
        <4>2. I \subseteq Int
          OBVIOUS
        <4>3. \A a, b \in Int : a < b => a # b
          OBVIOUS
        <4> QED BY <4>1, <4>2, <4>3
      <3> QED BY <3>1, <3>2, Fun_IsBij
    <2>5. Cardinality(T) = Cardinality(J)
      BY <2>3, <2>4, FS_Bijection DEF ExistsBijection
    <2>6. Cardinality(T) <= Cardinality(later)
      BY <1>2, <2>2, FS_Subset
    <2> QED BY <1>1, <1>2, <2>1, <2>3, <2>5, <2>6
  <1> QED BY <1>3, <1>4

\* Where the elements of the window r come from after position n + 1 was added.
Shifted(q, r, f, n) == [j \in 1..Len(r) |-> IF j = Len(r) THEN n + 1 ELSE f[j + Cut(q)]]

\* A window of a history that another position was added to.
LEMMA WindowOfMore ==
  ASSUME NEW S, NEW q \in Seq(S), NEW x \in S, NEW n \in Nat, NEW I \in SUBSET (1..n),
         NEW f, IsWindow(q, I, f)
  PROVE  IsWindow(Window(q, x), I \cup {n + 1}, Shifted(q, Window(q, x), f, n))
  <1> DEFINE r == Window(q, x)
             cut == IF Len(q) < RecentWindow THEN 0 ELSE 1
             g == [j \in 1..Len(r) |-> IF j = Len(r) THEN n + 1 ELSE f[j + cut]]
  <1>1. RecentWindow \in Nat \ {0} /\ Len(q) \in Nat /\ Len(q) <= RecentWindow
    BY PolicyAssumption DEF ProgressPolicy, IsWindow
  <1>2. Len(r) = Len(q) + 1 - cut
    BY <1>1, WindowAdded DEF Cut
  <1> HIDE DEF r
  <1>3. /\ cut \in {0, 1} /\ Len(r) \in Nat \ {0} /\ Len(r) <= RecentWindow
        /\ \A j \in 1..(Len(r) - 1) : j + cut \in 1..Len(q)
        /\ cut = 1 => Len(q) = RecentWindow /\ Len(r) = RecentWindow
        /\ cut = 0 => Len(r) = Len(q) + 1
    BY <1>1, <1>2
  <1>4. f \in [1..Len(q) -> I] /\ \A j, k \in 1..Len(q) : j < k => f[j] < f[k]
    BY DEF IsWindow
  <1> HIDE DEF cut
  <1>5. g \in [1..Len(r) -> I \cup {n + 1}]
    BY <1>3, <1>4
  <1>6. \A j, k \in 1..Len(r) : j < k => g[j] < g[k]
    <2> SUFFICES ASSUME NEW j \in 1..Len(r), NEW k \in 1..Len(r), j < k PROVE g[j] < g[k]
      OBVIOUS
    <2>1. j \in 1..(Len(r) - 1) /\ j # Len(r)
      BY <1>3
    <2>2. g[j] = f[j + cut] /\ j + cut \in 1..Len(q)
      BY <1>3, <2>1
    <2>3. CASE k = Len(r)
      <3>1. f[j + cut] \in 1..n /\ g[k] = n + 1
        BY <1>4, <2>2, <2>3
      <3> QED BY <2>2, <3>1
    <2>4. CASE k # Len(r)
      <3>1. g[k] = f[k + cut] /\ k + cut \in 1..Len(q) /\ j + cut < k + cut
        BY <1>3, <2>4
      <3> QED BY <1>4, <2>2, <3>1
    <2> QED BY <2>3, <2>4
  <1>7. ASSUME NEW i \in I \cup {n + 1}, \A j \in 1..Len(r) : g[j] # i
        PROVE  Len(r) = RecentWindow /\ \A j \in 1..Len(r) : i < g[j]
    <2>1. i \in I /\ i # n + 1 /\ i \in 1..n
      BY <1>3, <1>7
    <2>2. CASE cut = 0
      <3>1. \A j \in 1..Len(q) : f[j] # i
        <4> SUFFICES ASSUME NEW j \in 1..Len(q) PROVE f[j] # i
          OBVIOUS
        <4>1. j \in 1..Len(r) /\ j # Len(r) /\ j + cut = j
          BY <1>3, <2>2
        <4> QED BY <4>1, <1>7
      <3>2. Len(q) = RecentWindow
        BY <2>1, <3>1 DEF IsWindow
      <3> QED BY <1>3, <2>2, <3>2
    <2>3. CASE cut = 1
      <3>1. \A j \in 2..Len(q) : f[j] # i
        <4> SUFFICES ASSUME NEW j \in 2..Len(q) PROVE f[j] # i
          OBVIOUS
        <4>1. j - 1 \in 1..Len(r) /\ j - 1 # Len(r) /\ (j - 1) + cut = j
          BY <1>1, <1>2, <1>3, <2>3
        <4>2. g[j - 1] = f[j]
          BY <4>1
        <4> QED BY <4>1, <4>2, <1>7
      <3>2. \A j \in 2..Len(q) : i < f[j]
        <4>1. CASE f[1] = i
          BY <1>3, <1>4, <2>3, <4>1
        <4>2. CASE f[1] # i
          <5>1. \A j \in 1..Len(q) : f[j] # i
            BY <1>1, <3>1, <4>2
          <5> QED BY <2>1, <5>1 DEF IsWindow
        <4> QED BY <4>1, <4>2
      <3>3. \A j \in 1..Len(r) : i < g[j]
        <4> SUFFICES ASSUME NEW j \in 1..Len(r), j # Len(r) PROVE i < f[j + cut]
          BY <2>1
        <4>1. j + cut \in 2..Len(q)
          BY <1>3, <2>3
        <4> QED BY <3>2, <4>1
      <3> QED BY <1>3, <2>3, <3>3
    <2> QED BY <1>3, <2>2, <2>3
  <1>8. IsWindow(r, I \cup {n + 1}, g)
    BY <1>3, <1>5, <1>6, <1>7 DEF IsWindow
  <1> QED BY <1>8 DEF r, cut, Shifted, Cut

\* The idle steps go on, or end with a step that advances.
LEMMA IdleGoesOn ==
  ASSUME NEW h \in Seq(Step), NEW s \in Step, NEW c, EndsIdle(h, c)
  PROVE  EndsIdle(Append(h, s), IF Advances(s) THEN 0 ELSE c + 1)
  <1> DEFINE n == Len(h)
             r == Append(h, s)
  <1>1. n \in Nat /\ Len(r) = n + 1 /\ r[n + 1] = s /\ \A i \in 1..n : r[i] = h[i]
    OBVIOUS
  <1>2. /\ c \in 0..n
        /\ \A i \in 1..n : i > n - c => ~Advances(h[i])
        /\ n - c \in 1..n => Advances(h[n - c])
    BY DEF EndsIdle
  <1> HIDE DEF n, r
  <1>3. CASE Advances(s)
    <2>1. EndsIdle(r, 0)
      BY <1>1, <1>3 DEF EndsIdle
    <2> QED BY <1>3, <2>1 DEF r
  <1>4. CASE ~Advances(s)
    <2>1. c + 1 \in 0..(n + 1) /\ (n + 1) - (c + 1) = n - c
      BY <1>1, <1>2
    <2>2. \A i \in 1..(n + 1) : i > n - c => ~Advances(r[i])
      BY <1>1, <1>2, <1>4
    <2>3. n - c \in 1..(n + 1) => Advances(r[n - c])
      BY <1>1, <1>2
    <2>4. EndsIdle(r, c + 1)
      BY <1>1, <2>1, <2>2, <2>3 DEF EndsIdle
    <2> QED BY <1>4, <2>4 DEF r
  <1> QED BY <1>3, <1>4

\* The run of equal calls goes on, or a new one begins.
LEMMA RunGoesOn ==
  ASSUME NEW h \in Seq(Step), NEW s \in Step, NEW c, h # <<>> => EndsRun(h, c)
  PROVE  EndsRun(Append(h, s),
                 IF h # <<>> /\ h[Len(h)].action = s.action THEN c + 1 ELSE 1)
  <1> DEFINE n == Len(h)
             r == Append(h, s)
  <1>1. /\ n \in Nat /\ Len(r) = n + 1 /\ r[n + 1] = s /\ \A i \in 1..n : r[i] = h[i]
        /\ h # <<>> <=> n # 0
    OBVIOUS
  <1>2. n # 0 => /\ c \in 1..n
                 /\ \A i \in 1..n : i > n - c => h[i].action = h[n].action
                 /\ n - c \in 1..n => h[n - c].action # h[n].action
    BY <1>1 DEF EndsRun
  <1> HIDE DEF n, r
  <1>3. CASE n # 0 /\ h[n].action = s.action
    <2>1. c + 1 \in 1..(n + 1) /\ (n + 1) - (c + 1) = n - c
      BY <1>1, <1>2, <1>3
    <2>2. \A i \in 1..(n + 1) : i > n - c => r[i].action = s.action
      BY <1>1, <1>2, <1>3
    <2>3. n - c \in 1..(n + 1) => r[n - c].action # s.action
      BY <1>1, <1>2, <1>3
    <2>4. EndsRun(r, c + 1)
      BY <1>1, <2>1, <2>2, <2>3 DEF EndsRun
    <2> QED BY <1>1, <1>3, <2>4 DEF n, r
  <1>4. CASE ~(n # 0 /\ h[n].action = s.action)
    <2>1. (n + 1) - 1 = n /\ 1 \in 1..(n + 1)
      BY <1>1
    <2>2. n \in 1..(n + 1) => r[n].action # s.action
      BY <1>1, <1>4
    <2>3. \A i \in 1..(n + 1) : i > n => r[i].action = s.action
      BY <1>1
    <2>4. EndsRun(r, 1)
      BY <1>1, <2>1, <2>2, <2>3 DEF EndsRun
    <2> QED BY <1>1, <1>4, <2>4 DEF n, r
  <1> QED BY <1>3, <1>4

LEMMA ProgressInvInit == ProgressInit => ProgressInv
  <1> SUFFICES ASSUME ProgressInit PROVE ProgressInv
    OBVIOUS
  <1>1. ProgressTypeOK
    BY DEF ProgressInit, ProgressTypeOK, NoIntervention
  <1>2. RecentWindow \in Nat
    BY PolicyAssumption DEF ProgressPolicy
  <1>3. SignaturesAreLast
    BY <1>2 DEF ProgressInit, SignaturesAreLast
  <1>4. FailuresAreLast
    <2> DEFINE k == Len(pFailures)
               f == [j \in 1..k |-> 0]
    <2>1. k = 0 /\ FailedPositions = {}
      BY DEF ProgressInit, FailedPositions, Positions
    <2>2. \A j \in 1..k : FALSE
      BY <2>1
    <2> HIDE DEF k
    <2>3. f \in [1..k -> FailedPositions]
      BY <2>2
    <2> HIDE DEF f
    <2>4. IsWindow(pFailures, FailedPositions, f)
      BY <1>2, <2>1, <2>2, <2>3 DEF IsWindow, k
    <2> QED BY <2>2, <2>3, <2>4 DEF FailuresAreLast, k
  <1>5. pSteps = <<>> /\ EndsIdle(pSteps, pNoProgress) /\ MonitorSeesHistory
    BY DEF ProgressInit, EndsIdle, MonitorSeesHistory
  <1> QED BY <1>1, <1>3, <1>4, <1>5 DEF ProgressInv

\* The history after a step.
LEMMA StepAdded ==
  ASSUME ProgressTypeOK, NEW step \in Step, Observe(step)
  PROVE  /\ pSteps' \in Seq(Step) /\ Len(pSteps) \in Nat /\ Len(pSteps') = Len(pSteps) + 1
         /\ pSteps'[Len(pSteps) + 1] = step
         /\ \A i \in Positions : pSteps'[i] = pSteps[i]
         /\ Positions' = Positions \cup {Len(pSteps) + 1}
         /\ pSteps' # <<>> /\ (pSteps = <<>> <=> Len(pSteps) = 0)
         /\ FailedPositions' = FailedPositions \cup (IF step.failed THEN {Len(pSteps) + 1} ELSE {})
  <1>1. pSteps \in Seq(Step) /\ pSteps' = Append(pSteps, step)
    BY DEF ProgressTypeOK, Observe
  <1>2. /\ pSteps' \in Seq(Step) /\ Len(pSteps) \in Nat /\ Len(pSteps') = Len(pSteps) + 1
        /\ pSteps'[Len(pSteps) + 1] = step
        /\ \A i \in 1..Len(pSteps) : pSteps'[i] = pSteps[i]
        /\ pSteps' # <<>> /\ (pSteps = <<>> <=> Len(pSteps) = 0)
    BY <1>1
  <1>3. 1..(Len(pSteps) + 1) = 1..Len(pSteps) \cup {Len(pSteps) + 1}
    BY <1>2
  <1>4. Positions' = Positions \cup {Len(pSteps) + 1}
    BY <1>2, <1>3 DEF Positions
  <1>5. FailedPositions' = FailedPositions \cup (IF step.failed THEN {Len(pSteps) + 1} ELSE {})
    BY <1>2, <1>4 DEF FailedPositions, Positions
  <1> QED BY <1>2, <1>4, <1>5 DEF Positions

LEMMA ProgressTypeStep ==
  ASSUME ProgressInv, NEW step \in Step, Observe(step)
  PROVE  ProgressTypeOK'
  <1>1. step.action \in Tools /\ <<step.action, step.fingerprint>> \in Tools \X Fingerprints
    BY DEF Step
  <1>2. Len(pSignatures) <= RecentWindow
    BY PolicyAssumption DEF ProgressInv, SignaturesAreLast, ProgressTypeOK, ProgressPolicy
  <1>3. Len(pFailures) <= RecentWindow
    BY DEF ProgressInv, FailuresAreLast, IsWindow
  <1>4. pSignatures' \in Seq(Tools)
    BY <1>1, <1>2, WindowAdded DEF ProgressInv, ProgressTypeOK, Observe
  <1>5. pFailures' \in Seq(Tools \X Fingerprints)
    BY <1>1, <1>3, WindowAdded DEF ProgressInv, ProgressTypeOK, Observe
  <1>6. \A a, b, c, d, e : Intervene(a, b, c, d, e) \in [reason : Reasons \cup {"none"}, terminate : BOOLEAN]
    BY DEF Intervene, Reasons
  <1>7. pSteps' \in Seq(Step) /\ pConsecutive' \in Nat /\ pNoProgress' \in Nat
    BY StepAdded DEF ProgressInv, ProgressTypeOK, Observe
  <1> QED BY <1>4, <1>5, <1>6, <1>7 DEF ProgressTypeOK, Observe

LEMMA SignaturesStep ==
  ASSUME ProgressInv, NEW step \in Step, Observe(step)
  PROVE  SignaturesAreLast'
  <1> DEFINE n == Len(pSteps)
             k == Len(pSignatures)
             w == RecentWindow
             r == Window(pSignatures, step.action)
             cut == Cut(pSignatures)
  <1>1. /\ n \in Nat /\ k \in Nat /\ w \in Nat \ {0}
        /\ k = IF n <= w THEN n ELSE w
        /\ \A j \in 1..k : pSignatures[j] = pSteps[n - k + j].action
    BY PolicyAssumption DEF ProgressInv, SignaturesAreLast, ProgressTypeOK, ProgressPolicy
  <1>2. /\ Len(r) = k + 1 - cut /\ r[Len(r)] = step.action
        /\ \A j \in 1..(Len(r) - 1) : r[j] = pSignatures[j + cut]
    <2>1. pSignatures \in Seq(Tools) /\ step.action \in Tools /\ k <= w
      BY <1>1 DEF ProgressInv, ProgressTypeOK, Step
    <2> HIDE DEF r, cut, n, k, w
    <2>2. LET q == Window(pSignatures, step.action)
              lost == Cut(pSignatures)
          IN  /\ Len(q) = Len(pSignatures) + 1 - lost /\ q[Len(q)] = step.action
              /\ \A j \in 1..(Len(q) - 1) : q[j] = pSignatures[j + lost]
      BY <2>1, WindowAdded DEF k, w
    <2> QED BY <2>2 DEF r, cut, k
  <1>3. Len(pSteps') = n + 1 /\ pSteps'[n + 1] = step /\ \A i \in 1..n : pSteps'[i] = pSteps[i]
    BY StepAdded DEF ProgressInv, Positions
  <1>4. pSignatures' = r
    BY DEF Observe
  <1>5. cut \in {0, 1} /\ (cut = 0 <=> k < w)
    BY DEF Cut
  <1> HIDE DEF r, n, k, w, cut
  <1>6. Len(r) = IF n + 1 <= w THEN n + 1 ELSE w
    BY <1>1, <1>2, <1>5
  <1>7. ASSUME NEW j \in 1..Len(r) PROVE r[j] = pSteps'[n + 1 - Len(r) + j].action
    <2>1. CASE j = Len(r)
      BY <1>1, <1>2, <1>3, <1>6, <2>1
    <2>2. CASE j # Len(r)
      <3>1. j \in 1..(Len(r) - 1) /\ j + cut \in 1..k /\ n - k + (j + cut) = n + 1 - Len(r) + j
        BY <1>1, <1>2, <1>6, <1>5, <2>2
      <3>2. n - k + (j + cut) \in 1..n
        BY <1>1, <3>1
      <3>3. r[j] = pSignatures[j + cut]
        BY <1>2, <3>1
      <3>4. pSignatures[j + cut] = pSteps[n - k + (j + cut)].action
        BY <1>1, <3>1
      <3>5. pSteps'[n - k + (j + cut)] = pSteps[n - k + (j + cut)]
        BY <1>3, <3>2
      <3> QED BY <3>1, <3>3, <3>4, <3>5
    <2> QED BY <2>1, <2>2
  <1>8. Len(pSignatures') = (IF Len(pSteps') <= RecentWindow THEN Len(pSteps') ELSE RecentWindow)
    BY <1>3, <1>4, <1>6 DEF w
  <1>9. \A j \in 1..Len(pSignatures') :
          pSignatures'[j] = pSteps'[Len(pSteps') - Len(pSignatures') + j].action
    <2>1. Len(pSteps') - Len(pSignatures') = n + 1 - Len(r)
      BY <1>1, <1>3, <1>4, <1>6
    <2>2. \A j \in 1..Len(r) : r[j] = pSteps'[n + 1 - Len(r) + j].action
      BY <1>7
    <2> QED BY <1>4, <2>1, <2>2
  <1> QED BY <1>8, <1>9 DEF SignaturesAreLast

\* What recent counts: the calls of the same kind among the last RecentWindow
\* steps.
LEMMA RecentCount ==
  ASSUME ProgressInv, NEW step \in Step, Observe(step)
  PROVE  CountOf(pSignatures, step.action) + 1
           = Cardinality({i \in 1..(Len(pSteps) + 1) : /\ pSteps'[i].action = step.action
                                                       /\ i >= (Len(pSteps) + 1) - RecentWindow})
  <1> DEFINE n == Len(pSteps)
             k == Len(pSignatures)
             w == RecentWindow
             a == step.action
             f == [j \in 1..k |-> n - k + j]
             T == {i \in 1..n : pSteps[i].action = a /\ i >= (n + 1) - w}
             U == {i \in 1..(n + 1) : pSteps'[i].action = a /\ i >= (n + 1) - w}
  <1>1. /\ n \in Nat /\ k \in Nat /\ w \in Nat \ {0}
        /\ k = IF n <= w THEN n ELSE w
        /\ \A j \in 1..k : pSignatures[j] = pSteps[n - k + j].action
    BY PolicyAssumption DEF ProgressInv, SignaturesAreLast, ProgressTypeOK, ProgressPolicy
  <1>2. pSteps'[n + 1] = step /\ \A i \in 1..n : pSteps'[i] = pSteps[i]
    BY StepAdded DEF ProgressInv, Positions
  <1>3. pSignatures \in Seq(Tools)
    BY DEF ProgressInv, ProgressTypeOK
  <1> HIDE DEF n, k, w, a
  <1>4. f \in [1..k -> 1..n] /\ \A j, l \in 1..k : j < l => f[j] # f[l]
    BY <1>1
  <1>5. T = Sources(pSignatures, a, f)
    <2>1. ASSUME NEW i \in T PROVE \E j \in 1..k : pSignatures[j] = a /\ f[j] = i
      <3>1. i - n + k \in 1..k /\ n - k + (i - n + k) = i
        BY <1>1, <2>1
      <3> QED BY <1>1, <2>1, <3>1
    <2>2. ASSUME NEW j \in 1..k, pSignatures[j] = a PROVE f[j] \in T
      <3>1. f[j] = n - k + j /\ f[j] \in 1..n /\ f[j] >= (n + 1) - w
        BY <1>1
      <3> QED BY <1>1, <2>2, <3>1
    <2> QED BY <2>1, <2>2 DEF Sources, k
  <1>6. IsFiniteSet(T) /\ Cardinality(T) = CountOf(pSignatures, a)
    <2> HIDE DEF f, T
    <2>1. f \in [1..Len(pSignatures) -> 1..n]
      BY <1>4 DEF k
    <2>2. \A j, l \in 1..Len(pSignatures) : j < l => f[j] # f[l]
      BY <1>4 DEF k
    <2> QED BY <1>3, <1>5, <2>1, <2>2, CountElsewhere
  <1>7. U = T \cup {n + 1} /\ n + 1 \notin T
    <2>1. step.action = a
      BY DEF a
    <2> QED BY <1>1, <1>2, <2>1
  <1>8. Cardinality(U) = Cardinality(T) + 1
    BY <1>6, <1>7, FS_AddElement
  <1> QED BY <1>6, <1>8 DEF n, w, a

LEMMA FailuresStep ==
  ASSUME ProgressInv, NEW step \in Step, Observe(step)
  PROVE  FailuresAreLast'
  <1> DEFINE n == Len(pSteps)
             I == FailedPositions
             Pair(h, i) == <<h[i].action, h[i].fingerprint>>
             pair == <<step.action, step.fingerprint>>
  <1>1. PICK f \in [1..Len(pFailures) -> I] :
          /\ IsWindow(pFailures, I, f)
          /\ \A j \in 1..Len(pFailures) : pFailures[j] = Pair(pSteps, f[j])
    BY DEF ProgressInv, FailuresAreLast
  <1>2. /\ n \in Nat /\ I \in SUBSET (1..n) /\ pSteps'[n + 1] = step
        /\ \A i \in I : pSteps'[i] = pSteps[i]
        /\ I' = I \cup (IF step.failed THEN {n + 1} ELSE {})
    BY StepAdded DEF ProgressInv, FailedPositions, Positions
  <1> HIDE DEF n
  <1>3. \A i \in I : Pair(pSteps', i) = Pair(pSteps, i)
    BY <1>2
  <1>4. CASE ~step.failed
    <2>1. pFailures' = pFailures /\ I' = I
      BY <1>2, <1>4 DEF Observe
    <2>2. \A j \in 1..Len(pFailures) : pFailures[j] = Pair(pSteps', f[j])
      BY <1>1, <1>3
    <2> HIDE DEF Pair
    <2>3. \E g \in [1..Len(pFailures') -> FailedPositions'] :
             /\ IsWindow(pFailures', FailedPositions', g)
             /\ \A j \in 1..Len(pFailures') : pFailures'[j] = Pair(pSteps', g[j])
      BY <1>1, <2>1, <2>2
    <2> QED BY <2>3 DEF FailuresAreLast, Pair
  <1>5. CASE step.failed
    <2> DEFINE r == Window(pFailures, pair)
               cut == Cut(pFailures)
               g == Shifted(pFailures, r, f, n)
    <2>1. pFailures' = r /\ I' = I \cup {n + 1}
      BY <1>2, <1>5 DEF Observe
    <2>2. pFailures \in Seq(Tools \X Fingerprints) /\ pair \in Tools \X Fingerprints
      BY DEF ProgressInv, ProgressTypeOK, Step
    <2> HIDE DEF pair
    <2>3. /\ Len(r) = Len(pFailures) + 1 - cut /\ r[Len(r)] = pair /\ Len(pFailures) \in Nat
          /\ \A j \in 1..(Len(r) - 1) : r[j] = pFailures[j + cut]
      <3>1. Len(pFailures) <= RecentWindow
        BY <1>1 DEF IsWindow
      <3> DEFINE S == Tools \X Fingerprints
      <3>2. pFailures \in Seq(S) /\ pair \in S
        BY <2>2
      <3> HIDE DEF S, r, cut, g, I
      <3>3. LET w == Window(pFailures, pair)
                lost == Cut(pFailures)
            IN  /\ Len(w) = Len(pFailures) + 1 - lost /\ w[Len(w)] = pair /\ Len(pFailures) \in Nat
                /\ \A j \in 1..(Len(w) - 1) : w[j] = pFailures[j + lost]
        BY <3>1, <3>2, WindowAdded
      <3> QED BY <3>3 DEF r, cut
    <2>4. IsWindow(r, I \cup {n + 1}, g)
      <3> DEFINE S == Tools \X Fingerprints
      <3>1. pFailures \in Seq(S) /\ pair \in S
        BY <2>2
      <3> HIDE DEF S
      <3> QED BY <1>1, <1>2, <3>1, WindowOfMore
    <2>5. cut \in {0, 1} /\ g = [j \in 1..Len(r) |-> IF j = Len(r) THEN n + 1 ELSE f[j + cut]]
      BY DEF Cut, Shifted
    <2> HIDE DEF r, cut, g
    <2>6. \A j \in 1..Len(r) : r[j] = Pair(pSteps', g[j])
      <3> SUFFICES ASSUME NEW j \in 1..Len(r) PROVE r[j] = Pair(pSteps', g[j])
        OBVIOUS
      <3>1. CASE j = Len(r)
        BY <1>2, <2>3, <2>5, <3>1 DEF pair
      <3>2. CASE j # Len(r)
        <4>1. j \in 1..(Len(r) - 1) /\ j + cut \in 1..Len(pFailures)
          BY <2>3, <2>5, <3>2
        <4>2. g[j] = f[j + cut] /\ f[j + cut] \in I
          BY <2>5, <3>2, <4>1
        <4>3. r[j] = pFailures[j + cut] /\ pFailures[j + cut] = Pair(pSteps, f[j + cut])
          BY <1>1, <2>3, <4>1
        <4> HIDE DEF Pair
        <4> QED BY <1>3, <4>2, <4>3
      <3> QED BY <3>1, <3>2
    <2> HIDE DEF Pair
    <2>7. g \in [1..Len(r) -> I \cup {n + 1}]
      BY <2>4 DEF IsWindow
    <2>8. \E h \in [1..Len(pFailures') -> FailedPositions'] :
             /\ IsWindow(pFailures', FailedPositions', h)
             /\ \A j \in 1..Len(pFailures') : pFailures'[j] = Pair(pSteps', h[j])
      BY <2>1, <2>4, <2>6, <2>7
    <2> QED BY <2>8 DEF FailuresAreLast, Pair
  <1> QED BY <1>4, <1>5

\* The failures of h like its last step, among the last RecentWindow.
SameFailures(h) ==
  LET n == Len(h)
      failures == {i \in 1..n : h[i].failed}
  IN {i \in failures : /\ h[i].action = h[n].action /\ h[i].fingerprint = h[n].fingerprint
                       /\ Cardinality(Later(failures, i)) < RecentWindow}

\* What failure_pairs counts: the same failure among the last RecentWindow.
LEMMA FailureCount ==
  ASSUME NEW q \in Seq(Tools \X Fingerprints), NEW h \in Seq(Step),
         NEW f, IsWindow(q, {i \in 1..Len(h) : h[i].failed}, f),
         \A j \in 1..Len(q) : q[j] = <<h[f[j]].action, h[f[j]].fingerprint>>
  PROVE  CountOf(q, <<h[Len(h)].action, h[Len(h)].fingerprint>>) = Cardinality(SameFailures(h))
  <1> DEFINE I == {i \in 1..Len(h) : h[i].failed}
             a == h[Len(h)].action
             p == h[Len(h)].fingerprint
  <1>1. Len(h) \in Nat /\ I \in SUBSET (1..Len(h))
    OBVIOUS
  <1>2. SameFailures(h) = {i \in I : /\ h[i].action = a /\ h[i].fingerprint = p
                                     /\ Cardinality(Later(I, i)) < RecentWindow}
    BY DEF SameFailures
  <1> HIDE DEF I, a, p
  <1>3. IsWindow(q, I, f)
    BY DEF I
  <1>4. \A i \in I : (\E j \in 1..Len(q) : f[j] = i) <=> Cardinality(Later(I, i)) < RecentWindow
    BY <1>1, <1>3, LastByCardinality
  <1>5. f \in [1..Len(q) -> I] /\ \A j, k \in 1..Len(q) : j < k => f[j] # f[k]
    <2> SUFFICES ASSUME NEW j \in 1..Len(q), NEW k \in 1..Len(q), j < k
                 PROVE  f[j] # f[k]
      BY <1>3 DEF IsWindow
    <2>1. f[j] < f[k] /\ f[j] \in 1..Len(h) /\ f[k] \in 1..Len(h)
      BY <1>1, <1>3 DEF IsWindow
    <2> QED BY <1>1, <2>1
  <1>6. SameFailures(h) = Sources(q, <<a, p>>, f)
    <2>1. ASSUME NEW i \in SameFailures(h) PROVE i \in Sources(q, <<a, p>>, f)
      <3>1. PICK j \in 1..Len(q) : f[j] = i
        BY <1>2, <1>4, <2>1
      <3>2. q[j] = <<a, p>>
        BY <1>2, <2>1, <3>1
      <3> QED BY <3>1, <3>2 DEF Sources
    <2>2. ASSUME NEW i \in Sources(q, <<a, p>>, f) PROVE i \in SameFailures(h)
      <3>1. PICK j \in 1..Len(q) : f[j] = i /\ q[j] = <<a, p>>
        BY <2>2 DEF Sources
      <3>2. i \in I /\ h[i].action = a /\ h[i].fingerprint = p
        BY <1>5, <3>1
      <3>3. Cardinality(Later(I, i)) < RecentWindow
        BY <1>4, <3>1, <3>2
      <3> QED BY <1>2, <3>2, <3>3
    <2> QED BY <2>1, <2>2
  <1>7. Cardinality(Sources(q, <<a, p>>, f)) = CountOf(q, <<a, p>>)
    BY <1>5, CountElsewhere
  <1> QED BY <1>6, <1>7 DEF a, p

\* consecutive_count and no_progress_steps keep counting.
LEMMA CountersStep ==
  ASSUME ProgressInv, NEW step \in Step, Observe(step)
  PROVE  EndsRun(pSteps', pConsecutive') /\ EndsIdle(pSteps', pNoProgress')
  <1>1. pSteps \in Seq(Step) /\ pSteps' = Append(pSteps, step)
    BY DEF ProgressInv, ProgressTypeOK, Observe
  <1>2. EndsIdle(pSteps', pNoProgress')
    BY <1>1, IdleGoesOn DEF ProgressInv, Observe
  <1>3. pSignatures # <<>> /\ pSignatures[Len(pSignatures)] = step.action
          <=> pSteps # <<>> /\ pSteps[Len(pSteps)].action = step.action
    <2> DEFINE n == Len(pSteps)
    <2>1. /\ Len(pSignatures) = IF n <= RecentWindow THEN n ELSE RecentWindow
          /\ \A j \in 1..Len(pSignatures) : pSignatures[j] = pSteps[n - Len(pSignatures) + j].action
          /\ RecentWindow \in Nat \ {0} /\ pSignatures \in Seq(Tools)
      BY PolicyAssumption DEF ProgressInv, SignaturesAreLast, ProgressTypeOK, ProgressPolicy
    <2>2. n \in Nat /\ (pSteps = <<>> <=> n = 0)
      BY <1>1
    <2>3. pSignatures # <<>> <=> pSteps # <<>>
      BY <2>1, <2>2
    <2>4. pSteps # <<>> => pSignatures[Len(pSignatures)] = pSteps[n].action
      <3> SUFFICES ASSUME pSteps # <<>> PROVE pSignatures[Len(pSignatures)] = pSteps[n].action
        OBVIOUS
      <3>1. /\ Len(pSignatures) \in 1..Len(pSignatures)
            /\ n - Len(pSignatures) + Len(pSignatures) = n
        BY <2>1, <2>2
      <3> QED BY <2>1, <3>1
    <2> QED BY <2>3, <2>4
  <1>4. pConsecutive' = IF pSteps # <<>> /\ pSteps[Len(pSteps)].action = step.action
                        THEN pConsecutive + 1 ELSE 1
    BY <1>3 DEF Observe
  <1>5. EndsRun(pSteps', pConsecutive')
    BY <1>1, <1>4, RunGoesOn DEF ProgressInv
  <1> QED BY <1>2, <1>5

\* The calls of h like its last step, among the last RecentWindow before it.
SameCalls(h) ==
  LET n == Len(h)
  IN {i \in 1..n : h[i].action = h[n].action /\ i >= n - RecentWindow}

\* Expected in terms of the runs a history ends with.
LEMMA ExpectedIs ==
  ASSUME NEW h \in Seq(Step), h # <<>>, NEW c, EndsRun(h, c), NEW d, EndsIdle(h, d)
  PROVE  Expected(h)
           = Intervene(IF h[Len(h)].failed THEN Cardinality(SameFailures(h)) ELSE 0, c,
                       Cardinality(SameCalls(h)), d, h[Len(h)].progress)
  <1> DEFINE n == Len(h)
             step == h[n]
             like == {i \in 1..n : h[i].action = step.action}
             run == {i \in 1..n : i..n \subseteq like}
             idle == {i \in 1..n : \A k \in i..n : ~Advances(h[k])}
             failures == {i \in 1..n : h[i].failed}
  <1>1. n \in Nat \ {0}
    OBVIOUS
  <1>2. Cardinality(run) = c
    <2>1. /\ c \in 1..n
          /\ \A i \in 1..n : i > n - c => h[i].action = step.action
          /\ n - c \in 1..n => h[n - c].action # step.action
      BY DEF EndsRun
    <2>2. run = (n - c + 1)..n
      <3>1. ASSUME NEW i \in (n - c + 1)..n PROVE i \in run
        BY <1>1, <2>1, <3>1
      <3>2. ASSUME NEW i \in run PROVE i \in (n - c + 1)..n
        <4>1. i \in 1..n /\ (i <= n - c => n - c \in i..n)
          BY <1>1, <2>1, <3>2
        <4>2. n - c \in i..n => n - c \in 1..n /\ h[n - c].action = step.action
          BY <1>1, <3>2
        <4> QED BY <1>1, <2>1, <4>1, <4>2
      <3> QED BY <3>1, <3>2
    <2>3. n - c + 1 \in Int /\ n \in Int /\ ~(n - c + 1 > n) /\ n - (n - c + 1) + 1 = c
      BY <1>1, <2>1
    <2> QED BY <2>2, <2>3, FS_Interval
  <1>3. Cardinality(idle) = d
    <2>1. /\ d \in 0..n
          /\ \A i \in 1..n : i > n - d => ~Advances(h[i])
          /\ n - d \in 1..n => Advances(h[n - d])
      BY DEF EndsIdle
    <2>2. idle = (n - d + 1)..n
      <3>1. ASSUME NEW i \in (n - d + 1)..n PROVE i \in idle
        BY <1>1, <2>1, <3>1
      <3>2. ASSUME NEW i \in idle PROVE i \in (n - d + 1)..n
        <4>1. i \in 1..n /\ (i <= n - d => n - d \in i..n)
          BY <1>1, <2>1, <3>2
        <4>2. n - d \in i..n => n - d \in 1..n /\ ~Advances(h[n - d])
          BY <1>1, <3>2
        <4> QED BY <1>1, <2>1, <4>1, <4>2
      <3> QED BY <3>1, <3>2
    <2>3. /\ n - d + 1 \in Int /\ n \in Int
          /\ (IF n - d + 1 > n THEN 0 ELSE n - (n - d + 1) + 1) = d
      BY <1>1, <2>1
    <2> QED BY <2>2, <2>3, FS_Interval
  <1>4. {i \in like : i >= n - RecentWindow} = SameCalls(h)
    BY DEF SameCalls
  <1>5. {i \in failures \cap like : /\ h[i].fingerprint = step.fingerprint
                                   /\ Cardinality({k \in failures : k > i}) < RecentWindow}
          = SameFailures(h)
    BY DEF SameFailures, Later
  <1> QED BY <1>2, <1>3, <1>4, <1>5 DEF Expected

\* What observe returns is what the whole history says.
LEMMA MonitorStep ==
  ASSUME ProgressInv, NEW step \in Step, Observe(step)
  PROVE  MonitorSeesHistory'
  <1> DEFINE n == Len(pSteps) + 1
             pair == <<step.action, step.fingerprint>>
             h == pSteps'
  <1>1. h \in Seq(Step) /\ Len(h) = n /\ h[n] = step /\ h # <<>>
    BY StepAdded DEF ProgressInv
  <1>2. EndsRun(h, pConsecutive') /\ EndsIdle(h, pNoProgress')
    BY CountersStep
  <1>3. CountOf(pSignatures, step.action) + 1 = Cardinality(SameCalls(h))
    BY <1>1, RecentCount DEF SameCalls
  <1>4. CountOf(pFailures', pair) = Cardinality(SameFailures(h))
    <2>1. pFailures' \in Seq(Tools \X Fingerprints)
      BY ProgressTypeStep DEF ProgressTypeOK
    <2>2. PICK f : /\ IsWindow(pFailures', FailedPositions', f)
                   /\ \A j \in 1..Len(pFailures') :
                        pFailures'[j] = <<h[f[j]].action, h[f[j]].fingerprint>>
      BY FailuresStep DEF FailuresAreLast
    <2>3. FailedPositions' = {i \in 1..Len(h) : h[i].failed}
      BY DEF FailedPositions, Positions
    <2> HIDE DEF h
    <2>4. CountOf(pFailures', <<h[Len(h)].action, h[Len(h)].fingerprint>>)
            = Cardinality(SameFailures(h))
      BY <1>1, <2>1, <2>2, <2>3, FailureCount
    <2> QED BY <1>1, <2>4
  <1>5. pIntervention'
          = Intervene(IF step.failed THEN CountOf(pFailures', pair) ELSE 0, pConsecutive',
                      CountOf(pSignatures, step.action) + 1, pNoProgress', step.progress)
    BY DEF Observe
  <1>6. Expected(h)
          = Intervene(IF h[Len(h)].failed THEN Cardinality(SameFailures(h)) ELSE 0, pConsecutive',
                      Cardinality(SameCalls(h)), pNoProgress', h[Len(h)].progress)
    BY <1>1, <1>2, ExpectedIs
  <1> HIDE DEF n, h, pair
  <1>7. pIntervention' = Expected(h)
    BY <1>1, <1>3, <1>4, <1>5, <1>6
  <1> QED BY <1>7 DEF MonitorSeesHistory, h

LEMMA ProgressInvStep == ProgressInv /\ [ProgressNext]_progressVars => ProgressInv'
  <1> SUFFICES ASSUME ProgressInv, [ProgressNext]_progressVars PROVE ProgressInv'
    OBVIOUS
  <1>1. ASSUME NEW step \in Step, Observe(step) PROVE ProgressInv'
    BY <1>1, ProgressTypeStep, SignaturesStep, FailuresStep, CountersStep, MonitorStep
       DEF ProgressInv
  <1>2. CASE ProgressNext
    <2>1. PICK tool \in Tools, failed \in BOOLEAN, fingerprint \in Fingerprints :
             Observe([action |-> tool, failed |-> failed, fingerprint |-> fingerprint,
                      progress |-> ProgressOf(tool)])
      BY <1>2 DEF ProgressNext
    <2>2. ProgressOf(tool) \in ProgressKind
      BY DEF ProgressOf, ProgressKind
    <2>3. [action |-> tool, failed |-> failed, fingerprint |-> fingerprint,
           progress |-> ProgressOf(tool)] \in Step
      BY <2>2 DEF Step
    <2> QED BY <1>1, <2>1, <2>3
  <1>3. CASE UNCHANGED progressVars
    <2>1. ProgressTypeOK'
      BY <1>3 DEF progressVars, ProgressInv, ProgressTypeOK
    <2>2. SignaturesAreLast'
      BY <1>3 DEF progressVars, ProgressInv, SignaturesAreLast
    <2>3. FailuresAreLast'
      BY <1>3 DEF progressVars, ProgressInv, FailuresAreLast, Positions, FailedPositions
    <2>4. MonitorSeesHistory'
      BY <1>3 DEF progressVars, ProgressInv, MonitorSeesHistory
    <2>5. /\ pSteps' # <<>> => EndsRun(pSteps', pConsecutive')
          /\ EndsIdle(pSteps', pNoProgress')
      BY <1>3 DEF progressVars, ProgressInv
    <2> QED BY <2>1, <2>2, <2>3, <2>4, <2>5 DEF ProgressInv
  <1> QED BY <1>2, <1>3

\* However long the attempt and whatever the policy: the monitor intervenes
\* exactly when, and as, the whole history of the attempt says.
THEOREM MonitorLosesNothing == ProgressSpec => []MonitorSeesHistory
  <1>1. ProgressInv => MonitorSeesHistory
    BY DEF ProgressInv
  <1> QED BY <1>1, ProgressInvInit, ProgressInvStep, PTL DEF ProgressSpec

-----------------------------------------------------------------------------
(* Checkpoints: what the recursive functions compute.  The prover has no    *)
(* induction over an operator; sets of natural numbers, and functions that  *)
(* say what to do at each step, take its place.                             *)

\* What holds at 0, and goes on from one number to the next, holds up to N.
LEMMA UpTo ==
  ASSUME NEW N \in Nat, NEW S, 0 \in S, \A n \in 1..N : n - 1 \in S => n \in S
  PROVE  \A n \in 0..N : n \in S
<1> DEFINE R == OpToRel(<, Nat)
           T == {n \in 0..N : n \notin S}
<1> SUFFICES ASSUME T # {} PROVE FALSE
  OBVIOUS
<1>1. T \subseteq Nat
  OBVIOUS
<1>2. IsWellFoundedOn(R, Nat)
  BY NatLessThanWellFounded
<1>3. \A x, y \in Nat : x < y => <<x, y>> \in R
  BY DEF OpToRel
<1> HIDE DEF R
<1>4. PICK n \in T : \A y \in T : ~(<<y, n>> \in R)
  BY <1>1, <1>2, WFMin
<1>5. n # 0
  OBVIOUS
<1>6. n \in 1..N /\ n - 1 \in 0..N /\ n - 1 < n /\ n - 1 \in Nat /\ n \in Nat
  BY <1>5
<1>7. n - 1 \notin T
  BY <1>3, <1>4, <1>6
<1> QED
  BY <1>4, <1>6, <1>7

\* f starts at base and goes on by step, n times.
Goes(f, base, step, n) == f[0] = base /\ \A k \in 1..n : f[k] = step[k][f[k - 1]]

\* A step after the other leads somewhere.
LEMMA StepByStep ==
  ASSUME NEW N \in Nat, NEW X, NEW base \in X, NEW step \in [1..N -> [X -> X]]
  PROVE  \E f \in [0..N -> X] : Goes(f, base, step, N)
<1> DEFINE Leads(f, n) == f[0] = base /\ \A k \in 1..n : f[k] = step[k][f[k - 1]]
           S == {n \in 0..N : \E f \in [0..n -> X] : Leads(f, n)}
<1>1. 0 \in S
  <2>1. [n \in 0..0 |-> base] \in [0..0 -> X] /\ Leads([n \in 0..0 |-> base], 0)
    OBVIOUS
  <2>2. \E f \in [0..0 -> X] : Leads(f, 0)
    BY <2>1
  <2> HIDE DEF Leads
  <2>3. 0 \in 0..N
    OBVIOUS
  <2> QED
    BY <2>2, <2>3
<1>2. ASSUME NEW n \in 1..N, n - 1 \in S PROVE n \in S
  <2>1. PICK f \in [0..(n - 1) -> X] : Leads(f, n - 1)
    BY <1>2
  <2> DEFINE g == [k \in 0..n |-> IF k = n THEN step[n][f[n - 1]] ELSE f[k]]
  <2>2. \A k \in 0..n : k # n => k \in 0..(n - 1)
    OBVIOUS
  <2>3. f[n - 1] \in X /\ step[n][f[n - 1]] \in X
    OBVIOUS
  <2>4. g \in [0..n -> X]
    BY <2>2, <2>3
  <2>5. g[n] = step[n][f[n - 1]] /\ \A k \in 0..(n - 1) : g[k] = f[k]
    OBVIOUS
  <2> HIDE DEF g
  <2>6. g[0] = base
    BY <2>1, <2>5
  <2>7. ASSUME NEW k \in 1..n PROVE g[k] = step[k][g[k - 1]]
    <3>1. k - 1 \in 0..(n - 1) /\ (k = n \/ k \in 1..(n - 1))
      OBVIOUS
    <3>2. CASE k = n
      BY <2>5, <3>1, <3>2
    <3>3. CASE k \in 1..(n - 1)
      BY <2>1, <2>5, <3>1, <3>3
    <3> QED
      BY <3>1, <3>2, <3>3
  <2>8. Leads(g, n)
    BY <2>6, <2>7
  <2> HIDE DEF Leads
  <2>9. n \in 0..N
    OBVIOUS
  <2> QED
    BY <2>4, <2>8, <2>9
<1>3. N \in S
  <2> HIDE DEF S
  <2>1. \A n \in 0..N : n \in S
    BY <1>1, <1>2, UpTo
  <2> QED
    BY <2>1
<1> QED
  BY <1>3 DEF Goes

\* The values of a list, each once.
Lists(values, set) ==
  ToSet(values) = set /\ \A i, j \in DOMAIN values : values[i] = values[j] => i = j

LEMMA ListsCount ==
  ASSUME NEW X, NEW values \in Seq(X), NEW set, Lists(values, set)
  PROVE  ToSet(values) = set /\ Len(values) = Cardinality(set)
<1>1. DOMAIN values = 1..Len(values) /\ Len(values) \in Nat
  OBVIOUS
<1> DEFINE f == [i \in 1..Len(values) |-> values[i]]
<1>2. f \in [1..Len(values) -> set] /\ \A x \in set : \E i \in 1..Len(values) : f[i] = x
  BY <1>1 DEF Lists, ToSet
<1>3. \A i, j \in 1..Len(values) : f[i] = f[j] => i = j
  BY <1>1 DEF Lists
<1> HIDE DEF f
<1>4. ExistsBijection(1..Len(values), set)
  BY <1>2, <1>3, Fun_IsBij DEF ExistsBijection
<1>5. IsFiniteSet(1..Len(values)) /\ Cardinality(1..Len(values)) = Len(values)
  <2>1. 1 \in Int /\ Len(values) \in Int /\ (IF 1 > Len(values) THEN 0 ELSE Len(values) - 1 + 1) = Len(values)
    BY <1>1
  <2> QED
    BY <2>1, FS_Interval
<1> QED
  BY <1>4, <1>5, FS_Bijection DEF Lists

LEMMA AppendLists ==
  ASSUME NEW X, NEW values \in Seq(X), NEW x \in X, NEW set, Lists(values, set), x \notin set
  PROVE  Append(values, x) \in Seq(X) /\ Lists(Append(values, x), set \cup {x})
<1> DEFINE more == Append(values, x)
           last == Len(values) + 1
<1>1. /\ more \in Seq(X) /\ DOMAIN more = 1..last /\ more[last] = x /\ last \in 1..last
      /\ DOMAIN values = 1..Len(values) /\ Len(values) \in Nat
      /\ \A i \in 1..Len(values) : i \in 1..last /\ more[i] = values[i]
  OBVIOUS
<1>2. \A i \in 1..last : i = last \/ i \in 1..Len(values)
  BY <1>1
<1>3. \A i \in 1..Len(values) : values[i] \in set
  BY <1>1 DEF Lists, ToSet
<1> HIDE DEF more, last
<1>4. ToSet(more) = set \cup {x}
  <2>1. ToSet(more) \subseteq set \cup {x}
    BY <1>1, <1>2, <1>3 DEF ToSet
  <2>2. x \in ToSet(more)
    BY <1>1 DEF ToSet
  <2>3. \A y \in set : y \in ToSet(more)
    BY <1>1 DEF Lists, ToSet
  <2> QED
    BY <2>1, <2>2, <2>3
<1>5. ASSUME NEW i \in 1..last, NEW j \in 1..last, more[i] = more[j] PROVE i = j
  <2>1. CASE i = last
    BY <1>1, <1>2, <1>3, <1>5, <2>1
  <2>2. CASE j = last
    BY <1>1, <1>2, <1>3, <1>5, <2>2
  <2>3. CASE i \in 1..Len(values) /\ j \in 1..Len(values)
    BY <1>1, <1>5, <2>3 DEF Lists
  <2> QED
    BY <1>2, <2>1, <2>2, <2>3
<1> QED
  BY <1>1, <1>4, <1>5 DEF Lists, more

\* Dropping values, step by step.
IsKept(values, those, kept) ==
  kept = [n \in 0..Len(values) |->
            IF n = 0 THEN <<>>
            ELSE IF values[n] \in those THEN kept[n - 1] ELSE Append(kept[n - 1], values[n])]

LEMMA DroppedIs ==
  ASSUME NEW X, NEW values \in Seq(X), NEW those
  PROVE  \E kept : /\ Dropped(values, those) = kept[Len(values)] /\ kept[0] = <<>>
                   /\ \A n \in 1..Len(values) :
                        kept[n] = IF values[n] \in those THEN kept[n - 1] ELSE Append(kept[n - 1], values[n])
<1> DEFINE Q == Seq(X)
           N == Len(values)
           step == [n \in 1..N |-> [q \in Q |-> IF values[n] \in those THEN q ELSE Append(q, values[n])]]
<1>1. N \in Nat /\ \A n \in 1..N : values[n] \in X
  OBVIOUS
<1>2. <<>> \in Q /\ \A q \in Q, x \in X : Append(q, x) \in Q
  OBVIOUS
<1> HIDE DEF Q, N
<1>3. step \in [1..N -> [Q -> Q]]
  BY <1>1, <1>2
<1>4. \A n \in 1..N, q \in Q : step[n][q] = IF values[n] \in those THEN q ELSE Append(q, values[n])
  OBVIOUS
<1> HIDE DEF step
<1>5. PICK f \in [0..N -> Q] : f[0] = <<>> /\ \A n \in 1..N : f[n] = step[n][f[n - 1]]
  <2>1. \E f \in [0..N -> Q] : Goes(f, <<>>, step, N)
    BY <1>1, <1>2, <1>3, StepByStep
  <2> QED
    BY <2>1 DEF Goes
<1>6. \A n \in 1..N : f[n] = IF values[n] \in those THEN f[n - 1] ELSE Append(f[n - 1], values[n])
  <2> SUFFICES ASSUME NEW n \in 1..N
               PROVE  f[n] = IF values[n] \in those THEN f[n - 1] ELSE Append(f[n - 1], values[n])
    OBVIOUS
  <2>1. n - 1 \in 0..N
    BY <1>1
  <2>2. f[n - 1] \in Q
    BY <2>1
  <2> QED
    BY <1>4, <1>5, <2>2
<1>7. IsKept(values, those, f)
  <2>1. \A n \in 0..N : n = 0 \/ n \in 1..N
    BY <1>1
  <2>2. \A n \in 0..N : f[n] = IF n = 0 THEN <<>>
                               ELSE IF values[n] \in those THEN f[n - 1] ELSE Append(f[n - 1], values[n])
    BY <1>5, <1>6, <2>1
  <2>3. f = [n \in 0..N |-> f[n]]
    OBVIOUS
  <2> QED
    BY <2>2, <2>3 DEF IsKept, N
<1>8. Dropped(values, those) = (CHOOSE kept : IsKept(values, those, kept))[N]
  BY DEF Dropped, IsKept, N
<1>9. PICK kept : IsKept(values, those, kept) /\ Dropped(values, those) = kept[N]
  BY <1>7, <1>8
<1>10. kept[0] = <<>>
  BY <1>1, <1>9 DEF IsKept, N
<1>11. ASSUME NEW n \in 1..N
       PROVE  kept[n] = IF values[n] \in those THEN kept[n - 1] ELSE Append(kept[n - 1], values[n])
  <2>1. n \in 0..N /\ n # 0
    BY <1>1
  <2> QED
    BY <1>9, <2>1 DEF IsKept, N
<1> QED
  BY <1>9, <1>10, <1>11 DEF N

\* Values that are dropped are no longer listed, and others still are.
LEMMA DroppedType ==
  ASSUME NEW X, NEW values \in Seq(X), NEW those
  PROVE  Dropped(values, those) \in Seq(X)
<1> DEFINE N == Len(values)
           Q == Seq(X)
<1>1. PICK kept : /\ Dropped(values, those) = kept[N] /\ kept[0] = <<>>
                  /\ \A n \in 1..N :
                       kept[n] = IF values[n] \in those THEN kept[n - 1] ELSE Append(kept[n - 1], values[n])
  BY DroppedIs
<1>2. N \in Nat /\ <<>> \in Q /\ \A n \in 1..N : \A q \in Q : Append(q, values[n]) \in Q
  OBVIOUS
<1> DEFINE S == {n \in 0..N : kept[n] \in Q}
<1> HIDE DEF N, Q
<1>3. 0 \in S
  BY <1>1, <1>2
<1>4. ASSUME NEW n \in 1..N, n - 1 \in S PROVE n \in S
  <2>1. kept[n - 1] \in Q /\ n \in 0..N
    BY <1>2, <1>4
  <2>2. kept[n] \in Q
    BY <1>1, <1>2, <2>1
  <2> QED
    BY <2>1, <2>2
<1> HIDE DEF S
<1>5. \A n \in 0..N : n \in S
  BY <1>2, <1>3, <1>4, UpTo
<1>6. N \in S
  BY <1>2, <1>5
<1> QED
  BY <1>1, <1>6 DEF S, Q

LEMMA DroppedLists ==
  ASSUME NEW X, NEW values \in Seq(X), NEW those, NEW set, Lists(values, set)
  PROVE  Lists(Dropped(values, those), set \ those)
<1> DEFINE N == Len(values)
           Q == Seq(X)
           first(n) == {values[i] : i \in 1..n}
<1>1. PICK kept : /\ Dropped(values, those) = kept[N] /\ kept[0] = <<>>
                  /\ \A n \in 1..N :
                       kept[n] = IF values[n] \in those THEN kept[n - 1] ELSE Append(kept[n - 1], values[n])
  BY DroppedIs
<1>2. N \in Nat /\ DOMAIN values = 1..N /\ <<>> \in Q /\ \A n \in 1..N : values[n] \in X
  OBVIOUS
<1> DEFINE S == {n \in 0..N : kept[n] \in Q /\ Lists(kept[n], first(n) \ those)}
<1>3. 0 \in S
  <2>1. Lists(<<>>, {})
    BY DEF Lists, ToSet
  <2>2. first(0) \ those = {}
    OBVIOUS
  <2> HIDE DEF first
  <2>3. Lists(kept[0], {}) /\ kept[0] \in Q /\ 0 \in 0..N
    BY <1>1, <1>2, <2>1
  <2>4. Lists(kept[0], first(0) \ those)
    BY <2>2, <2>3
  <2> QED
    BY <2>3, <2>4
<1>4. ASSUME NEW n \in 1..N, n - 1 \in S PROVE n \in S
  <2>1. first(n) = first(n - 1) \cup {values[n]}
    <3>1. \A i \in 1..n : i = n \/ i \in 1..(n - 1)
      BY <1>2
    <3>2. n \in 1..n /\ \A i \in 1..(n - 1) : i \in 1..n
      BY <1>2
    <3> QED
      BY <3>1, <3>2
  <2>2. values[n] \notin first(n - 1)
    <3> SUFFICES ASSUME NEW i \in 1..(n - 1), values[i] = values[n] PROVE FALSE
      OBVIOUS
    <3>1. i \in 1..N /\ i # n
      BY <1>2
    <3> QED
      BY <1>2, <3>1 DEF Lists
  <2> HIDE DEF first
  <2>3. kept[n - 1] \in Q /\ Lists(kept[n - 1], first(n - 1) \ those) /\ n \in 0..N
    BY <1>2, <1>4
  <2>4. CASE values[n] \in those
    <3>1. first(n) \ those = first(n - 1) \ those /\ kept[n] = kept[n - 1]
      BY <1>1, <2>1, <2>4
    <3> QED
      BY <2>3, <3>1
  <2>5. CASE values[n] \notin those
    <3>1. first(n) \ those = (first(n - 1) \ those) \cup {values[n]}
      BY <2>1, <2>5
    <3>2. kept[n] = Append(kept[n - 1], values[n]) /\ values[n] \in X
      BY <1>1, <1>2, <2>5
    <3>3. kept[n - 1] \in Seq(X) /\ values[n] \notin first(n - 1) \ those
      BY <2>2, <2>3
    <3>4. /\ Append(kept[n - 1], values[n]) \in Seq(X)
          /\ Lists(Append(kept[n - 1], values[n]), (first(n - 1) \ those) \cup {values[n]})
      BY <2>3, <3>2, <3>3, AppendLists
    <3>5. kept[n] \in Q /\ Lists(kept[n], first(n) \ those)
      BY <3>1, <3>2, <3>4
    <3> QED
      BY <2>3, <3>5
  <2> QED
    BY <2>4, <2>5
<1>5. first(N) = set
  BY <1>2 DEF Lists, ToSet
<1> HIDE DEF S
<1>6. \A n \in 0..N : n \in S
  BY <1>2, <1>3, <1>4, UpTo
<1>7. N \in S
  BY <1>2, <1>6
<1> HIDE DEF first
<1>8. Lists(kept[N], first(N) \ those)
  BY <1>7 DEF S
<1> QED
  BY <1>1, <1>5, <1>8

-----------------------------------------------------------------------------
(* Checkpoints.                                                            *)

LEMMA AppendUniqueLists ==
  ASSUME NEW X, <<>> \notin X, NEW values \in Seq(X), NEW text \in X \cup {<<>>},
         NEW set, Lists(values, set)
  PROVE  AppendUnique(values, text) \in Seq(X) /\ Lists(AppendUnique(values, text), set \cup ({text} \ {<<>>}))
<1>1. ToSet(values) = set
  BY DEF Lists
<1>2. ToSet(values) \subseteq X
  BY DEF ToSet
<1>3. CASE text = <<>> \/ text \in set
  <2>1. AppendUnique(values, text) = values
    BY <1>1, <1>3 DEF AppendUnique
  <2>2. set \cup ({text} \ {<<>>}) = set
    BY <1>3
  <2> QED
    BY <2>1, <2>2
<1>4. CASE text # <<>> /\ text \notin set
  <2>1. AppendUnique(values, text) = Append(values, text)
    BY <1>1, <1>4 DEF AppendUnique
  <2>2. set \cup ({text} \ {<<>>}) = set \cup {text}
    BY <1>4
  <2>3. Append(values, text) \in Seq(X) /\ Lists(Append(values, text), set \cup {text})
    BY <1>4, AppendLists
  <2> QED
    BY <2>1, <2>2, <2>3
<1> QED
  BY <1>3, <1>4

LEMMA TextsAreFull == <<>> \notin Texts /\ FailureIds \subseteq Seq(STRING)
BY CheckpointAssumption

LEMMA EventCases ==
  ASSUME NEW e \in WorkEvent
  PROVE  \/ /\ e.kind \in {"fact", "constraint", "remaining", "completed", "artifact"}
            /\ e.text \in Texts \cup {<<>>}
         \/ e.kind \in {"failure", "resolved"} /\ e.failure \in FailureIds
         \/ e.kind = "foreign"
BY DEF WorkEvent

CheckpointRecord ==
  [facts: Seq(Texts), constraints: Seq(Texts), completed: Seq(Texts), remaining: Seq(Texts),
   failures: Seq(FailureIds), artifact: Seq(Texts), through: Nat]

\* What the first n events say.
SaidBy(log, kind, n) == {log[i].text : i \in {k \in 1..n : log[k].kind = kind}} \ {<<>>}
FailingAfter(log, n) ==
  {id \in FailureIds :
     \E i \in 1..n :
       /\ log[i].kind = "failure" /\ log[i].failure = id
       /\ \A k \in (i + 1)..n :
            log[k].kind \in {"failure", "resolved"} => ~IsPrefix(log[k].failure, id)}

LEMMA SaidGrows ==
  ASSUME NEW log, NEW kind, NEW n \in Nat \ {0}
  PROVE  SaidBy(log, kind, n) =
           SaidBy(log, kind, n - 1) \cup (IF log[n].kind = kind THEN {log[n].text} \ {<<>>} ELSE {})
<1>1. \A i \in 1..n : i = n \/ i \in 1..(n - 1)
  OBVIOUS
<1>2. n \in 1..n /\ \A i \in 1..(n - 1) : i \in 1..n
  OBVIOUS
<1> QED
  BY <1>1, <1>2 DEF SaidBy

LEMMA FailingGrows ==
  ASSUME NEW log, NEW n \in Nat \ {0}
  PROVE  /\ log[n].kind \notin {"failure", "resolved"} => FailingAfter(log, n) = FailingAfter(log, n - 1)
         /\ log[n].kind = "resolved" =>
              FailingAfter(log, n) = {f \in FailingAfter(log, n - 1) : ~IsPrefix(log[n].failure, f)}
         /\ log[n].kind = "failure" /\ log[n].failure \in FailureIds =>
              FailingAfter(log, n) =
                {f \in FailingAfter(log, n - 1) : ~IsPrefix(log[n].failure, f)} \cup {log[n].failure}
<1> DEFINE Since(id, i, m) == \A k \in (i + 1)..m :
             log[k].kind \in {"failure", "resolved"} => ~IsPrefix(log[k].failure, id)
           Clear(id) == log[n].kind \in {"failure", "resolved"} => ~IsPrefix(log[n].failure, id)
           Fails(id, i) == log[i].kind = "failure" /\ log[i].failure = id
<1>1. \A m : FailingAfter(log, m) = {id \in FailureIds : \E i \in 1..m : Fails(id, i) /\ Since(id, i, m)}
  BY DEF FailingAfter
<1>2. \A i \in 1..n : i = n \/ i \in 1..(n - 1)
  OBVIOUS
<1>3. n \in 1..n /\ \A i \in 1..(n - 1) : i \in 1..n
  OBVIOUS
<1>4. ASSUME NEW id, NEW i \in 1..(n - 1) PROVE Since(id, i, n) <=> Since(id, i, n - 1) /\ Clear(id)
  <2>1. \A k \in (i + 1)..n : k = n \/ k \in (i + 1)..(n - 1)
    OBVIOUS
  <2>2. n \in (i + 1)..n /\ \A k \in (i + 1)..(n - 1) : k \in (i + 1)..n
    OBVIOUS
  <2> QED
    BY <2>1, <2>2
<1>5. \A id : Since(id, n, n)
  OBVIOUS
<1> HIDE DEF Since
<1>6. ASSUME NEW id \in FailureIds
      PROVE  id \in FailingAfter(log, n) <=> (id \in FailingAfter(log, n - 1) /\ Clear(id)) \/ Fails(id, n)
  <2>1. id \in FailingAfter(log, n) <=> \E i \in 1..n : Fails(id, i) /\ Since(id, i, n)
    BY <1>1
  <2>2. id \in FailingAfter(log, n - 1) <=> \E i \in 1..(n - 1) : Fails(id, i) /\ Since(id, i, n - 1)
    BY <1>1
  <2> HIDE DEF Clear, Fails
  <2> QED
    BY <1>2, <1>3, <1>4, <1>5, <2>1, <2>2
<1>7. FailingAfter(log, n) \subseteq FailureIds /\ FailingAfter(log, n - 1) \subseteq FailureIds
  BY DEF FailingAfter
<1> QED
  BY <1>6, <1>7

\* The checkpoint after the next event.
AfterEvent(cp, n, e) == IF e.kind = "foreign" THEN cp ELSE ApplyEvent([cp EXCEPT !.through = n], e)

LEMMA AfterEventType ==
  ASSUME NEW cp \in CheckpointRecord, NEW n \in Nat, NEW e \in WorkEvent
  PROVE  AfterEvent(cp, n, e) \in CheckpointRecord
<1> DEFINE d == [cp EXCEPT !.through = n]
<1>1. d \in CheckpointRecord
  BY DEF CheckpointRecord
<1> HIDE DEF d
<1>2. ASSUME NEW values \in Seq(Texts), NEW text \in Texts \cup {<<>>}
      PROVE  AppendUnique(values, text) \in Seq(Texts)
  BY DEF AppendUnique
<1>3. ASSUME NEW values \in Seq(Texts), NEW text PROVE Without(values, text) \in Seq(Texts)
  BY DroppedType DEF Without
<1>4. ASSUME NEW values \in Seq(FailureIds), NEW id \in FailureIds
      PROVE  DropFailure(values, id) \in Seq(FailureIds) /\ Append(DropFailure(values, id), id) \in Seq(FailureIds)
  <2>1. DropFailure(values, id) \in Seq(FailureIds)
    BY DroppedType DEF DropFailure
  <2> HIDE DEF DropFailure
  <2> QED
    BY <2>1
<1>5. /\ d.facts \in Seq(Texts) /\ d.constraints \in Seq(Texts) /\ d.completed \in Seq(Texts)
      /\ d.remaining \in Seq(Texts) /\ d.failures \in Seq(FailureIds)
  BY <1>1 DEF CheckpointRecord
<1>6. ApplyEvent(d, e) \in CheckpointRecord \/ e.kind = "foreign"
  <2>1. CASE e.kind = "fact" /\ e.text \in Texts \cup {<<>>}
    <3>1. ApplyEvent(d, e) = [d EXCEPT !.facts = AppendUnique(@, e.text)]
      BY <2>1 DEF ApplyEvent
    <3>2. AppendUnique(d.facts, e.text) \in Seq(Texts)
      BY <1>2, <1>5, <2>1
    <3> QED
      BY <1>1, <3>1, <3>2 DEF CheckpointRecord
  <2>2. CASE e.kind = "constraint" /\ e.text \in Texts \cup {<<>>}
    <3>1. ApplyEvent(d, e) = [d EXCEPT !.constraints = AppendUnique(@, e.text)]
      BY <2>2 DEF ApplyEvent
    <3>2. AppendUnique(d.constraints, e.text) \in Seq(Texts)
      BY <1>2, <1>5, <2>2
    <3> QED
      BY <1>1, <3>1, <3>2 DEF CheckpointRecord
  <2>3. CASE e.kind = "completed" /\ e.text \in Texts \cup {<<>>}
    <3>1. ApplyEvent(d, e) = [d EXCEPT !.completed = AppendUnique(@, e.text), !.remaining = Without(@, e.text)]
      BY <2>3 DEF ApplyEvent
    <3>2. AppendUnique(d.completed, e.text) \in Seq(Texts) /\ Without(d.remaining, e.text) \in Seq(Texts)
      BY <1>2, <1>3, <1>5, <2>3
    <3> QED
      BY <1>1, <3>1, <3>2 DEF CheckpointRecord
  <2>4. CASE e.kind = "remaining" /\ e.text \in Texts \cup {<<>>}
    <3>1. ApplyEvent(d, e) = IF e.text \in ToSet(d.completed) THEN d
                             ELSE [d EXCEPT !.remaining = AppendUnique(@, e.text)]
      BY <2>4 DEF ApplyEvent
    <3>2. AppendUnique(d.remaining, e.text) \in Seq(Texts)
      BY <1>2, <1>5, <2>4
    <3> QED
      BY <1>1, <3>1, <3>2 DEF CheckpointRecord
  <2>5. CASE e.kind = "failure" /\ e.failure \in FailureIds
    <3>1. ApplyEvent(d, e) = [d EXCEPT !.failures = Append(DropFailure(@, e.failure), e.failure)]
      BY <2>5 DEF ApplyEvent
    <3>2. Append(DropFailure(d.failures, e.failure), e.failure) \in Seq(FailureIds)
      BY <1>4, <1>5, <2>5
    <3> QED
      BY <1>1, <3>1, <3>2 DEF CheckpointRecord
  <2>6. CASE e.kind = "resolved" /\ e.failure \in FailureIds
    <3>1. ApplyEvent(d, e) = [d EXCEPT !.failures = DropFailure(@, e.failure)]
      BY <2>6 DEF ApplyEvent
    <3>2. DropFailure(d.failures, e.failure) \in Seq(FailureIds)
      BY <1>4, <1>5, <2>6
    <3> QED
      BY <1>1, <3>1, <3>2 DEF CheckpointRecord
  <2>7. CASE e.kind = "artifact" /\ e.text \in Texts \cup {<<>>}
    <3>1. ApplyEvent(d, e) = IF e.text = <<>> THEN d ELSE [d EXCEPT !.artifact = <<e.text>>]
      BY <2>7 DEF ApplyEvent
    <3>2. CASE e.text = <<>>
      BY <1>1, <3>1, <3>2
    <3>3. CASE e.text \in Texts
      <4>1. <<e.text>> \in Seq(Texts)
        BY <3>3
      <4> QED
        BY <1>1, <3>1, <4>1 DEF CheckpointRecord
    <3> QED
      BY <2>7, <3>2, <3>3
  <2> QED
    BY <2>1, <2>2, <2>3, <2>4, <2>5, <2>6, <2>7, EventCases
<1> QED
  BY <1>6 DEF AfterEvent, d

\* The checkpoint says what the first n events say.
Says(cp, log, n) ==
  /\ Lists(cp.facts, SaidBy(log, "fact", n)) /\ Lists(cp.constraints, SaidBy(log, "constraint", n))
  /\ Lists(cp.completed, SaidBy(log, "completed", n))
  /\ Lists(cp.remaining, SaidBy(log, "remaining", n) \ SaidBy(log, "completed", n))
  /\ Lists(cp.failures, FailingAfter(log, n))

LEMMA AfterEventSays ==
  ASSUME NEW cp \in CheckpointRecord, NEW log, NEW n \in Nat \ {0}, log[n] \in WorkEvent,
         Says(cp, log, n - 1)
  PROVE  Says(AfterEvent(cp, n, log[n]), log, n)
<1> DEFINE d == [cp EXCEPT !.through = n]
           e == log[n]
           fact(m) == SaidBy(log, "fact", m)
           constraint(m) == SaidBy(log, "constraint", m)
           completed(m) == SaidBy(log, "completed", m)
           remaining(m) == SaidBy(log, "remaining", m)
           failing(m) == FailingAfter(log, m)
           grown(kind) == IF e.kind = kind THEN {e.text} \ {<<>>} ELSE {}
<1>1. /\ d \in CheckpointRecord /\ d.facts = cp.facts /\ d.constraints = cp.constraints
      /\ d.completed = cp.completed /\ d.remaining = cp.remaining /\ d.failures = cp.failures
  BY DEF CheckpointRecord
<1>2. Says(d, log, n - 1)
  BY <1>1 DEF Says
<1>3. /\ fact(n) = fact(n - 1) \cup grown("fact") /\ constraint(n) = constraint(n - 1) \cup grown("constraint")
      /\ completed(n) = completed(n - 1) \cup grown("completed")
      /\ remaining(n) = remaining(n - 1) \cup grown("remaining")
  BY SaidGrows
<1>4. /\ e.kind \notin {"failure", "resolved"} => failing(n) = failing(n - 1)
      /\ e.kind = "resolved" => failing(n) = {f \in failing(n - 1) : ~IsPrefix(e.failure, f)}
      /\ e.kind = "failure" /\ e.failure \in FailureIds =>
           failing(n) = {f \in failing(n - 1) : ~IsPrefix(e.failure, f)} \cup {e.failure}
  BY FailingGrows
<1>5. /\ d.facts \in Seq(Texts) /\ d.constraints \in Seq(Texts) /\ d.completed \in Seq(Texts)
      /\ d.remaining \in Seq(Texts) /\ d.failures \in Seq(FailureIds)
  BY <1>1 DEF CheckpointRecord
<1>6. /\ Lists(d.facts, fact(n - 1)) /\ Lists(d.constraints, constraint(n - 1))
      /\ Lists(d.completed, completed(n - 1)) /\ Lists(d.remaining, remaining(n - 1) \ completed(n - 1))
      /\ Lists(d.failures, failing(n - 1))
  BY <1>2 DEF Says
<1>7. \A next : /\ Lists(next.facts, fact(n)) /\ Lists(next.constraints, constraint(n))
                /\ Lists(next.completed, completed(n)) /\ Lists(next.remaining, remaining(n) \ completed(n))
                /\ Lists(next.failures, failing(n))
                => Says(next, log, n)
  BY DEF Says
<1>8. <<>> \notin completed(n - 1) /\ <<>> \notin remaining(n - 1)
  BY DEF SaidBy
<1>9. AfterEvent(cp, n, e) = IF e.kind = "foreign" THEN cp ELSE ApplyEvent(d, e)
  BY DEF AfterEvent
<1>10. \A kind : e.kind # kind => grown(kind) = {}
  OBVIOUS
<1>11. \A kind : e.kind = kind => grown(kind) = {e.text} \ {<<>>}
  OBVIOUS
<1>12. e \in WorkEvent
  OBVIOUS
<1> HIDE DEF d, e, fact, constraint, completed, remaining, failing, grown
<1>13. CASE e.kind = "foreign"
  <2>1. fact(n) = fact(n - 1) /\ constraint(n) = constraint(n - 1) /\ completed(n) = completed(n - 1)
        /\ remaining(n) = remaining(n - 1) /\ failing(n) = failing(n - 1)
    BY <1>3, <1>4, <1>10, <1>13
  <2>2. AfterEvent(cp, n, e) = cp
    BY <1>9, <1>13
  <2> QED
    BY <1>1, <1>6, <1>7, <2>1, <2>2 DEF e
<1>14. CASE e.kind = "fact" /\ e.text \in Texts \cup {<<>>}
  <2>1. fact(n) = fact(n - 1) \cup ({e.text} \ {<<>>}) /\ constraint(n) = constraint(n - 1)
        /\ completed(n) = completed(n - 1) /\ remaining(n) = remaining(n - 1) /\ failing(n) = failing(n - 1)
    BY <1>3, <1>4, <1>10, <1>11, <1>14
  <2> DEFINE next == AfterEvent(cp, n, e)
  <2>2. next = [d EXCEPT !.facts = AppendUnique(@, e.text)]
    BY <1>9, <1>14 DEF ApplyEvent
  <2>3. /\ next.facts = AppendUnique(d.facts, e.text) /\ next.constraints = d.constraints
        /\ next.completed = d.completed /\ next.remaining = d.remaining /\ next.failures = d.failures
    BY <1>1, <2>2 DEF CheckpointRecord
  <2>4. Lists(AppendUnique(d.facts, e.text), fact(n - 1) \cup ({e.text} \ {<<>>}))
    BY <1>5, <1>6, <1>14, AppendUniqueLists, TextsAreFull
  <2> HIDE DEF next
  <2>5. Says(next, log, n)
    BY <1>6, <1>7, <2>1, <2>3, <2>4
  <2> QED
    BY <2>5 DEF next, e
<1>15. CASE e.kind = "constraint" /\ e.text \in Texts \cup {<<>>}
  <2>1. constraint(n) = constraint(n - 1) \cup ({e.text} \ {<<>>}) /\ fact(n) = fact(n - 1)
        /\ completed(n) = completed(n - 1) /\ remaining(n) = remaining(n - 1) /\ failing(n) = failing(n - 1)
    BY <1>3, <1>4, <1>10, <1>11, <1>15
  <2> DEFINE next == AfterEvent(cp, n, e)
  <2>2. next = [d EXCEPT !.constraints = AppendUnique(@, e.text)]
    BY <1>9, <1>15 DEF ApplyEvent
  <2>3. /\ next.constraints = AppendUnique(d.constraints, e.text) /\ next.facts = d.facts
        /\ next.completed = d.completed /\ next.remaining = d.remaining /\ next.failures = d.failures
    BY <1>1, <2>2 DEF CheckpointRecord
  <2>4. Lists(AppendUnique(d.constraints, e.text), constraint(n - 1) \cup ({e.text} \ {<<>>}))
    BY <1>5, <1>6, <1>15, AppendUniqueLists, TextsAreFull
  <2> HIDE DEF next
  <2>5. Says(next, log, n)
    BY <1>6, <1>7, <2>1, <2>3, <2>4
  <2> QED
    BY <2>5 DEF next, e
<1>16. CASE e.kind = "completed" /\ e.text \in Texts \cup {<<>>}
  <2>1. completed(n) = completed(n - 1) \cup ({e.text} \ {<<>>}) /\ fact(n) = fact(n - 1)
        /\ constraint(n) = constraint(n - 1) /\ remaining(n) = remaining(n - 1) /\ failing(n) = failing(n - 1)
    BY <1>3, <1>4, <1>10, <1>11, <1>16
  <2> DEFINE next == AfterEvent(cp, n, e)
  <2>2. next = [d EXCEPT !.completed = AppendUnique(@, e.text), !.remaining = Without(@, e.text)]
    BY <1>9, <1>16 DEF ApplyEvent
  <2>3. /\ next.completed = AppendUnique(d.completed, e.text) /\ next.remaining = Without(d.remaining, e.text)
        /\ next.facts = d.facts /\ next.constraints = d.constraints /\ next.failures = d.failures
    BY <1>1, <2>2 DEF CheckpointRecord
  <2>4. Lists(AppendUnique(d.completed, e.text), completed(n - 1) \cup ({e.text} \ {<<>>}))
    BY <1>5, <1>6, <1>16, AppendUniqueLists, TextsAreFull
  <2>5. (remaining(n - 1) \ completed(n - 1)) \ {e.text} = remaining(n) \ completed(n)
    BY <1>8, <2>1
  <2>6. Lists(Without(d.remaining, e.text), (remaining(n - 1) \ completed(n - 1)) \ {e.text})
    BY <1>5, <1>6, DroppedLists DEF Without
  <2> HIDE DEF next
  <2>7. Says(next, log, n)
    BY <1>6, <1>7, <2>1, <2>3, <2>4, <2>5, <2>6
  <2> QED
    BY <2>7 DEF next, e
<1>17. CASE e.kind = "remaining" /\ e.text \in Texts \cup {<<>>}
  <2>1. remaining(n) = remaining(n - 1) \cup ({e.text} \ {<<>>}) /\ fact(n) = fact(n - 1)
        /\ constraint(n) = constraint(n - 1) /\ completed(n) = completed(n - 1) /\ failing(n) = failing(n - 1)
    BY <1>3, <1>4, <1>10, <1>11, <1>17
  <2> DEFINE next == AfterEvent(cp, n, e)
  <2> SUFFICES Says(next, log, n)
    BY DEF next, e
  <2>2. ToSet(d.completed) = completed(n - 1)
    BY <1>6 DEF Lists
  <2>3. next = IF e.text \in completed(n - 1) THEN d ELSE [d EXCEPT !.remaining = AppendUnique(@, e.text)]
    BY <1>9, <1>17, <2>2 DEF ApplyEvent
  <2>4. CASE e.text \in completed(n - 1)
    <3>1. next = d
      BY <2>3, <2>4
    <3>2. remaining(n) \ completed(n) = remaining(n - 1) \ completed(n - 1)
      BY <2>1, <2>4
    <3> HIDE DEF next
    <3> QED
      BY <1>6, <1>7, <2>1, <3>1, <3>2
  <2>5. CASE e.text \notin completed(n - 1)
    <3>1. next = [d EXCEPT !.remaining = AppendUnique(@, e.text)]
      BY <2>3, <2>5
    <3>2. /\ next.remaining = AppendUnique(d.remaining, e.text) /\ next.facts = d.facts
          /\ next.constraints = d.constraints /\ next.completed = d.completed /\ next.failures = d.failures
      BY <1>1, <3>1 DEF CheckpointRecord
    <3>3. (remaining(n - 1) \ completed(n - 1)) \cup ({e.text} \ {<<>>}) = remaining(n) \ completed(n)
      BY <2>1, <2>5
    <3>4. Lists(AppendUnique(d.remaining, e.text), (remaining(n - 1) \ completed(n - 1)) \cup ({e.text} \ {<<>>}))
      BY <1>5, <1>6, <1>17, AppendUniqueLists, TextsAreFull
    <3> HIDE DEF next
    <3> QED
      BY <1>6, <1>7, <2>1, <3>2, <3>3, <3>4
  <2> QED
    BY <2>4, <2>5
<1>18. CASE e.kind \in {"failure", "resolved"} /\ e.failure \in FailureIds
  <2>1. fact(n) = fact(n - 1) /\ constraint(n) = constraint(n - 1) /\ completed(n) = completed(n - 1)
        /\ remaining(n) = remaining(n - 1)
    BY <1>3, <1>10, <1>18
  <2> DEFINE next == AfterEvent(cp, n, e)
             those == {f \in failing(n - 1) : IsPrefix(e.failure, f)}
             left == DropFailure(d.failures, e.failure)
  <2> SUFFICES Says(next, log, n)
    BY DEF next, e
  <2>2. failing(n - 1) \ those = {f \in failing(n - 1) : ~IsPrefix(e.failure, f)}
    OBVIOUS
  <2>3. left \in Seq(FailureIds) /\ Lists(left, failing(n - 1) \ those)
    <3>1. ToSet(d.failures) = failing(n - 1)
      BY <1>6 DEF Lists
    <3>2. left = Dropped(d.failures, those)
      BY <3>1 DEF DropFailure
    <3> HIDE DEF those, left
    <3> QED
      BY <1>5, <1>6, <3>2, DroppedType, DroppedLists
  <2>4. CASE e.kind = "resolved"
    <3>1. next = [d EXCEPT !.failures = DropFailure(@, e.failure)]
      BY <1>9, <2>4 DEF ApplyEvent
    <3>2. /\ next.failures = left /\ next.facts = d.facts /\ next.constraints = d.constraints
          /\ next.completed = d.completed /\ next.remaining = d.remaining
      BY <1>1, <3>1 DEF CheckpointRecord
    <3>3. failing(n) = failing(n - 1) \ those
      BY <1>4, <2>2, <2>4
    <3> HIDE DEF next, those, left
    <3> QED
      BY <1>6, <1>7, <2>1, <2>3, <3>2, <3>3
  <2>5. CASE e.kind = "failure"
    <3>1. next = [d EXCEPT !.failures = Append(DropFailure(@, e.failure), e.failure)]
      BY <1>9, <2>5 DEF ApplyEvent
    <3>2. /\ next.failures = Append(left, e.failure) /\ next.facts = d.facts /\ next.constraints = d.constraints
          /\ next.completed = d.completed /\ next.remaining = d.remaining
      BY <1>1, <3>1 DEF CheckpointRecord
    <3>3. failing(n) = (failing(n - 1) \ those) \cup {e.failure}
      BY <1>4, <1>18, <2>2, <2>5
    <3>4. IsPrefix(e.failure, e.failure)
      <4>1. e.failure \in Seq(STRING)
        BY <1>18, TextsAreFull
      <4>2. Len(e.failure) \in Nat
        BY <4>1
      <4> QED
        BY <4>2 DEF IsPrefix
    <3>5. e.failure \notin failing(n - 1) \ those
      BY <3>4
    <3> HIDE DEF next, those, left
    <3>6. Lists(Append(left, e.failure), (failing(n - 1) \ those) \cup {e.failure})
      BY <1>18, <2>3, <3>5, AppendLists
    <3> QED
      BY <1>6, <1>7, <2>1, <3>2, <3>3, <3>6
  <2> QED
    BY <1>18, <2>4, <2>5
<1>19. CASE e.kind = "artifact" /\ e.text \in Texts \cup {<<>>}
  <2>1. fact(n) = fact(n - 1) /\ constraint(n) = constraint(n - 1) /\ completed(n) = completed(n - 1)
        /\ remaining(n) = remaining(n - 1) /\ failing(n) = failing(n - 1)
    BY <1>3, <1>4, <1>10, <1>19
  <2> DEFINE next == AfterEvent(cp, n, e)
  <2>2. next = IF e.text = <<>> THEN d ELSE [d EXCEPT !.artifact = <<e.text>>]
    BY <1>9, <1>19 DEF ApplyEvent
  <2>3. /\ next.facts = d.facts /\ next.constraints = d.constraints /\ next.completed = d.completed
        /\ next.remaining = d.remaining /\ next.failures = d.failures
    BY <1>1, <2>2 DEF CheckpointRecord
  <2> HIDE DEF next
  <2>4. Says(next, log, n)
    BY <1>6, <1>7, <2>1, <2>3
  <2> QED
    BY <2>4 DEF next, e
<1>20. Says(AfterEvent(cp, n, e), log, n)
  BY <1>12, <1>13, <1>14, <1>15, <1>16, <1>17, <1>18, <1>19, EventCases DEF e
<1> QED
  BY <1>20 DEF e

\* The checkpoints after each of the events.
IsMaterialized(log, after) ==
  after = [n \in 0..Len(log) |->
             IF n = 0 THEN Empty
             ELSE IF log[n].kind = "foreign" THEN after[n - 1]
             ELSE ApplyEvent([after[n - 1] EXCEPT !.through = n], log[n])]

LEMMA MaterializeIs ==
  ASSUME NEW log \in Seq(WorkEvent)
  PROVE  \E after : /\ Materialize(log) = after[Len(log)] /\ after[0] = Empty
                    /\ \A n \in 1..Len(log) : after[n] = AfterEvent(after[n - 1], n, log[n])
<1> DEFINE N == Len(log)
           X == CheckpointRecord
           step == [n \in 1..N |-> [cp \in X |-> AfterEvent(cp, n, log[n])]]
<1>1. N \in Nat /\ \A n \in 1..N : n \in Nat /\ log[n] \in WorkEvent
  OBVIOUS
<1>2. Empty \in X
  <2>1. <<>> \in Seq(Texts) /\ <<>> \in Seq(FailureIds)
    OBVIOUS
  <2> QED
    BY <2>1 DEF Empty, CheckpointRecord
<1>3. step \in [1..N -> [X -> X]]
  <2>1. ASSUME NEW n \in 1..N, NEW cp \in X PROVE AfterEvent(cp, n, log[n]) \in X
    BY <1>1, AfterEventType
  <2> HIDE DEF X
  <2> QED
    BY <2>1
<1>4. \A n \in 1..N, cp \in X : step[n][cp] = AfterEvent(cp, n, log[n])
  OBVIOUS
<1> HIDE DEF step, N, X
<1>5. PICK f \in [0..N -> X] : f[0] = Empty /\ \A n \in 1..N : f[n] = step[n][f[n - 1]]
  <2>1. \E f \in [0..N -> X] : Goes(f, Empty, step, N)
    BY <1>1, <1>2, <1>3, StepByStep
  <2> QED
    BY <2>1 DEF Goes
<1>6. ASSUME NEW n \in 1..N PROVE f[n] = AfterEvent(f[n - 1], n, log[n])
  <2>1. n - 1 \in 0..N
    BY <1>1
  <2>2. f[n - 1] \in X
    BY <2>1
  <2> QED
    BY <1>4, <1>5, <2>2
<1>7. IsMaterialized(log, f)
  <2>1. \A n \in 0..N : n = 0 \/ n \in 1..N
    BY <1>1
  <2>2. \A n \in 0..N : f[n] = IF n = 0 THEN Empty
                               ELSE IF log[n].kind = "foreign" THEN f[n - 1]
                               ELSE ApplyEvent([f[n - 1] EXCEPT !.through = n], log[n])
    BY <1>5, <1>6, <2>1 DEF AfterEvent
  <2>3. f = [n \in 0..N |-> f[n]]
    OBVIOUS
  <2> QED
    BY <2>2, <2>3 DEF IsMaterialized, N
<1>8. Materialize(log) = (CHOOSE after : IsMaterialized(log, after))[N]
  BY DEF Materialize, IsMaterialized, N
<1>9. PICK after : IsMaterialized(log, after) /\ Materialize(log) = after[N]
  BY <1>7, <1>8
<1>10. after[0] = Empty
  BY <1>1, <1>9 DEF IsMaterialized, N
<1>11. ASSUME NEW n \in 1..N PROVE after[n] = AfterEvent(after[n - 1], n, log[n])
  <2>1. n \in 0..N /\ n # 0
    BY <1>1
  <2> QED
    BY <1>9, <2>1 DEF IsMaterialized, N, AfterEvent
<1> QED
  BY <1>9, <1>10, <1>11 DEF N

LEMMA MaterializeSays ==
  ASSUME NEW log \in Seq(WorkEvent)
  PROVE  Materialize(log) \in CheckpointRecord /\ Says(Materialize(log), log, Len(log))
<1> DEFINE N == Len(log)
<1>1. PICK after : /\ Materialize(log) = after[N] /\ after[0] = Empty
                   /\ \A n \in 1..N : after[n] = AfterEvent(after[n - 1], n, log[n])
  BY MaterializeIs
<1>2. N \in Nat /\ \A n \in 1..N : n \in Nat \ {0} /\ log[n] \in WorkEvent
  OBVIOUS
<1> DEFINE S == {n \in 0..N : after[n] \in CheckpointRecord /\ Says(after[n], log, n)}
<1> HIDE DEF N
<1>3. 0 \in S
  <2>1. <<>> \in Seq(Texts) /\ <<>> \in Seq(FailureIds)
    OBVIOUS
  <2>2. Empty \in CheckpointRecord
    BY <2>1 DEF Empty, CheckpointRecord
  <2>3. \A kind : SaidBy(log, kind, 0) = {}
    BY DEF SaidBy
  <2>4. FailingAfter(log, 0) = {}
    BY DEF FailingAfter
  <2>5. Lists(<<>>, {})
    BY DEF Lists, ToSet
  <2>6. Says(Empty, log, 0)
    BY <2>3, <2>4, <2>5 DEF Says, Empty
  <2>7. 0 \in 0..N
    BY <1>2
  <2> QED
    BY <1>1, <2>2, <2>6, <2>7
<1>4. ASSUME NEW n \in 1..N, n - 1 \in S PROVE n \in S
  <2>1. after[n - 1] \in CheckpointRecord /\ Says(after[n - 1], log, n - 1) /\ n \in 0..N
    BY <1>2, <1>4
  <2>2. AfterEvent(after[n - 1], n, log[n]) \in CheckpointRecord
    BY <1>2, <2>1, AfterEventType
  <2>3. Says(AfterEvent(after[n - 1], n, log[n]), log, n)
    BY <1>2, <2>1, AfterEventSays
  <2> QED
    BY <1>1, <2>1, <2>2, <2>3
<1> HIDE DEF S
<1>5. \A n \in 0..N : n \in S
  BY <1>2, <1>3, <1>4, UpTo
<1>6. N \in S
  BY <1>2, <1>5
<1>7. after[N] \in CheckpointRecord /\ Says(after[N], log, N)
  BY <1>6 DEF S
<1> QED
  BY <1>1, <1>7 DEF N

\* The event log holds events (append_event).
THEOREM CheckpointTyped == CheckpointSpec => []CheckpointTypeOK
<1>1. CheckpointInit => CheckpointTypeOK
  BY DEF CheckpointInit, CheckpointTypeOK
<1>2. CheckpointTypeOK /\ [CheckpointNext]_cLog => CheckpointTypeOK'
  <2> SUFFICES ASSUME CheckpointTypeOK, [CheckpointNext]_cLog PROVE CheckpointTypeOK'
    OBVIOUS
  <2> DEFINE E == WorkEvent
  <2>1. cLog \in Seq(E)
    BY DEF CheckpointTypeOK
  <2>2. cLog' = cLog \/ \E e \in E : cLog' = Append(cLog, e)
    BY DEF CheckpointNext
  <2> HIDE DEF E
  <2>3. cLog' \in Seq(E)
    BY <2>1, <2>2
  <2> QED
    BY <2>3 DEF E, CheckpointTypeOK
<1> QED
  BY <1>1, <1>2, PTL DEF CheckpointSpec

\* Some numbers, not above a bound: one of them is the last.
LEMMA GreatestOf ==
  ASSUME NEW N \in Nat, NEW T \in SUBSET (1..N), T # {}
  PROVE  \E i \in T : \A k \in T : k <= i
<1> DEFINE Top(n) == \E i \in T : i <= n /\ \A k \in T : k <= n => k <= i
           S == {n \in 0..N : (\E t \in T : t <= n) => Top(n)}
<1>1. 0 \in S
  OBVIOUS
<1>2. ASSUME NEW n \in 1..N, n - 1 \in S PROVE n \in S
  <2> SUFFICES ASSUME \E t \in T : t <= n PROVE Top(n)
    OBVIOUS
  <2>1. CASE n \in T
    BY <2>1
  <2>2. CASE n \notin T
    <3>1. \A k \in T : k <= n => k <= n - 1
      BY <2>2
    <3>2. Top(n - 1)
      BY <1>2, <3>1
    <3> QED
      BY <3>1, <3>2
  <2> QED
    BY <2>1, <2>2
<1> HIDE DEF S
<1>3. N \in S
  BY <1>1, <1>2, UpTo
<1>4. \E t \in T : t <= N
  <2>1. PICK t : t \in T
    OBVIOUS
  <2>2. t \in 1..N
    BY <2>1
  <2> QED
    BY <2>1, <2>2
<1>5. Top(N)
  BY <1>3, <1>4 DEF S
<1> QED
  BY <1>5

\* What a checkpoint lists as failing is unresolved, and is all that is where
\* no failure's id continues another one.
LEMMA FailingIsUnresolved ==
  ASSUME CheckpointTypeOK
  PROVE  /\ FailingAfter(cLog, Len(cLog)) \subseteq Unresolved
         /\ FailuresApart => FailingAfter(cLog, Len(cLog)) = Unresolved
<1> DEFINE N == Len(cLog)
           Fails(id, i) == cLog[i].kind = "failure" /\ cLog[i].failure = id
<1>1. N \in Nat /\ DOMAIN cLog = 1..N
  BY DEF CheckpointTypeOK
<1>2. \A id : IsPrefix(id, id) <=> Len(id) <= Len(id)
  BY DEF IsPrefix
<1>3. \A id \in FailureIds : IsPrefix(id, id)
  BY <1>2, CheckpointAssumption
<1> HIDE DEF N
<1>4. ASSUME NEW id \in FailingAfter(cLog, N) PROVE id \in Unresolved
  <2>1. PICK i \in 1..N :
          /\ Fails(id, i)
          /\ \A k \in (i + 1)..N : cLog[k].kind \in {"failure", "resolved"} => ~IsPrefix(cLog[k].failure, id)
    BY DEF FailingAfter
  <2>2. id \in FailureIds
    BY DEF FailingAfter
  <2>3. \A k \in (i + 1)..N : cLog[k].kind = "resolved" => cLog[k].failure # id
    BY <1>3, <2>1, <2>2
  <2> QED
    BY <1>1, <2>1, <2>2, <2>3 DEF Unresolved, N
<1>5. ASSUME FailuresApart, NEW id \in Unresolved PROVE id \in FailingAfter(cLog, N)
  <2>1. PICK i0 \in 1..N :
          Fails(id, i0) /\ \A k \in (i0 + 1)..N : cLog[k].kind = "resolved" => cLog[k].failure # id
    BY <1>1 DEF Unresolved, N
  <2> DEFINE T == {i \in 1..N : Fails(id, i)}
  <2>6. T \in SUBSET (1..N) /\ T # {}
    BY <2>1
  <2>2. PICK i \in T : \A k \in T : k <= i
    BY <1>1, <2>1, <2>6, GreatestOf
  <2>3. i0 <= i /\ i \in 1..N /\ Fails(id, i)
    BY <2>1, <2>2
  <2>4. ASSUME NEW k \in (i + 1)..N, cLog[k].kind \in {"failure", "resolved"},
               IsPrefix(cLog[k].failure, id)
        PROVE  FALSE
    <3>1. k \in 1..N /\ k > i /\ k \in (i0 + 1)..N
      BY <1>1, <2>3
    <3>2. cLog[k].failure = id
      BY <1>1, <1>5, <2>3, <2>4, <3>1 DEF FailuresApart, Reported
    <3>3. CASE cLog[k].kind = "failure"
      BY <2>2, <2>3, <3>1, <3>2, <3>3
    <3>4. CASE cLog[k].kind = "resolved"
      BY <2>1, <3>1, <3>2, <3>4
    <3> QED
      BY <2>4, <3>3, <3>4
  <2>5. id \in FailureIds
    BY DEF Unresolved
  <2> QED
    BY <2>3, <2>4, <2>5 DEF FailingAfter
<1> QED
  BY <1>4, <1>5 DEF N

\* A checkpoint says what its log says, for every log: each text once, a
\* subgoal until it was completed, only failures that are unresolved, and all
\* of those where no id continues another one (materialize_checkpoint).
THEOREM CheckpointsSayLog == CheckpointSpec => []CheckpointSaysLog
<1>1. CheckpointTypeOK => CheckpointSaysLog
  <2> SUFFICES ASSUME CheckpointTypeOK PROVE CheckpointSaysLog
    OBVIOUS
  <2> DEFINE N == Len(cLog)
             cp == Materialize(cLog)
  <2>1. cp \in CheckpointRecord /\ Says(cp, cLog, N)
    BY MaterializeSays DEF CheckpointTypeOK
  <2>2. DOMAIN cLog = 1..N
    BY DEF CheckpointTypeOK
  <2>3. \A kind : Said(kind) = SaidBy(cLog, kind, N)
    BY <2>2 DEF Said, SaidBy
  <2> DEFINE failing == FailingAfter(cLog, N)
  <2>4. failing \subseteq Unresolved /\ (FailuresApart => failing = Unresolved)
    BY FailingIsUnresolved
  <2>5. /\ cp.facts \in Seq(Texts) /\ cp.constraints \in Seq(Texts) /\ cp.completed \in Seq(Texts)
        /\ cp.remaining \in Seq(Texts) /\ cp.failures \in Seq(FailureIds)
    BY <2>1 DEF CheckpointRecord
  <2>6. /\ Lists(cp.facts, Said("fact")) /\ Lists(cp.constraints, Said("constraint"))
        /\ Lists(cp.completed, Said("completed"))
        /\ Lists(cp.remaining, Said("remaining") \ Said("completed"))
        /\ Lists(cp.failures, failing)
    BY <2>1, <2>3 DEF Says
  <2> DEFINE counted(values, set) == ToSet(values) = set /\ Len(values) = Cardinality(set)
  <2>7. /\ counted(cp.facts, Said("fact")) /\ counted(cp.constraints, Said("constraint"))
        /\ counted(cp.completed, Said("completed"))
        /\ counted(cp.remaining, Said("remaining") \ Said("completed"))
        /\ counted(cp.failures, failing)
    <3> HIDE DEF cp
    <3> QED
      BY <2>5, <2>6, ListsCount
  <2> HIDE DEF failing
  <2> QED
    BY <2>4, <2>7 DEF CheckpointSaysLog
<1> QED
  BY <1>1, CheckpointTyped, PTL

-----------------------------------------------------------------------------
(* Digests.                                                                *)

Titles == {"Verified artifact", "Active constraints", "Unresolved failures", "Remaining subgoals",
           "Completed subgoals", "Facts"}
Line == [title: Titles, item: Texts \cup FailureIds]
Digest == [size: Nat, titles: SUBSET Titles, omitted: SUBSET Line]

LEMMA SectionType ==
  ASSUME NEW title \in Titles, NEW X \in SUBSET (Texts \cup FailureIds), NEW items \in Seq(X)
  PROVE  Section(title, items) \in Seq(Line)
<1> DEFINE N == Len(items)
           back == Reverse(items)
<1>1. N \in Nat /\ DOMAIN items = 1..N /\ \A i \in 1..N : items[i] \in X
  OBVIOUS
<1>2. \A i \in 1..N : (N - i) + 1 \in 1..N
  BY <1>1
<1>3. \A i \in 1..N : back[i] \in Texts \cup FailureIds
  BY <1>1, <1>2 DEF Reverse
<1> HIDE DEF N, back
<1>4. Section(title, items) = [i \in 1..N |-> [title |-> title, item |-> back[i]]]
  BY <1>1 DEF Section, back
<1>5. \A i \in 1..N : [title |-> title, item |-> back[i]] \in Line
  BY <1>3 DEF Line
<1> DEFINE L == Line
<1>6. \A i \in 1..N : [title |-> title, item |-> back[i]] \in L
  BY <1>5
<1> HIDE DEF L
<1>7. Section(title, items) \in [1..N -> L]
  BY <1>4, <1>6
<1>8. Section(title, items) \in Seq(L)
  BY <1>1, <1>7, SeqDef
<1> QED
  BY <1>8 DEF L

LEMMA DigestLinesType ==
  ASSUME NEW cp \in CheckpointRecord
  PROVE  DigestLines(cp) \in Seq(Line)
<1>1. /\ cp.facts \in Seq(Texts) /\ cp.constraints \in Seq(Texts) /\ cp.completed \in Seq(Texts)
      /\ cp.remaining \in Seq(Texts) /\ cp.failures \in Seq(FailureIds) /\ cp.artifact \in Seq(Texts)
  BY DEF CheckpointRecord
<1> DEFINE L == Line
<1>2. Texts \in SUBSET (Texts \cup FailureIds) /\ FailureIds \in SUBSET (Texts \cup FailureIds)
  OBVIOUS
<1>3. \A title \in Titles : \A items \in Seq(Texts) : Section(title, items) \in Seq(L)
  BY <1>2, SectionType
<1>4. \A title \in Titles : \A items \in Seq(FailureIds) : Section(title, items) \in Seq(L)
  BY <1>2, SectionType
<1>5. /\ Section("Verified artifact", cp.artifact) \in Seq(L)
      /\ Section("Active constraints", cp.constraints) \in Seq(L)
      /\ Section("Unresolved failures", cp.failures) \in Seq(L)
      /\ Section("Remaining subgoals", cp.remaining) \in Seq(L)
      /\ Section("Completed subgoals", cp.completed) \in Seq(L)
      /\ Section("Facts", cp.facts) \in Seq(L)
  BY <1>1, <1>3, <1>4 DEF Titles
<1> HIDE DEF L
<1>6. \A s, t \in Seq(L) : s \o t \in Seq(L)
  OBVIOUS
<1>7. DigestLines(cp) \in Seq(L)
  BY <1>5, <1>6 DEF DigestLines
<1> QED
  BY <1>7 DEF L

LEMMA CostType ==
  ASSUME NEW digest \in Digest, NEW l \in Line
  PROVE  Cost(digest, l) \in Nat \ {0}
<1>1. LineSize[l.item] \in Nat \ {0} /\ TitleSize \in Nat
  BY CheckpointAssumption DEF Line
<1> QED
  BY <1>1 DEF Cost

\* The digest after the next line.
AfterLine(digest, l, max) ==
  IF Fits(digest, Cost(digest, l), max)
  THEN [digest EXCEPT !.size = @ + Cost(digest, l), !.titles = @ \cup {l.title}]
  ELSE [digest EXCEPT !.omitted = @ \cup {l}]

\* No line left out fits.
Full(digest, max) == \A l \in digest.omitted : digest.size + Cost(digest, l) > max

LEMMA AfterLineType ==
  ASSUME NEW digest \in Digest, NEW l \in Line, NEW max
  PROVE  AfterLine(digest, l, max) \in Digest
<1>1. Cost(digest, l) \in Nat
  BY CostType
<1>2. digest.size + Cost(digest, l) \in Nat /\ l.title \in Titles
  BY <1>1 DEF Digest, Line
<1> DEFINE c == Cost(digest, l)
<1> HIDE DEF c
<1>3. digest.size + c \in Nat
  BY <1>2 DEF c
<1>4. [digest EXCEPT !.size = @ + c, !.titles = @ \cup {l.title}] \in Digest
  BY <1>2, <1>3 DEF Digest
<1>5. [digest EXCEPT !.omitted = @ \cup {l}] \in Digest
  BY DEF Digest
<1> QED
  BY <1>4, <1>5 DEF AfterLine, c

\* A line that fits makes the digest longer by at least the title that others
\* of its section then no longer need.
LEMMA AfterLineFull ==
  ASSUME NEW digest \in Digest, NEW l \in Line, NEW max \in Nat, Full(digest, max)
  PROVE  Full(AfterLine(digest, l, max), max)
<1> DEFINE next == AfterLine(digest, l, max)
           c == Cost(digest, l)
<1>1. c \in Nat /\ digest.size \in Nat /\ TitleSize \in Nat /\ digest.omitted \in SUBSET Line
  BY CostType, CheckpointAssumption DEF Digest
<1>2. CASE Fits(digest, c, max)
  <2>1. next.size = digest.size + c /\ next.titles = digest.titles \cup {l.title}
        /\ next.omitted = digest.omitted
    BY <1>2 DEF AfterLine, Digest
  <2> SUFFICES ASSUME NEW m \in digest.omitted PROVE next.size + Cost(next, m) > max
    BY <2>1 DEF Full
  <2>2. digest.size + Cost(digest, m) > max
    BY DEF Full
  <2>3. LineSize[m.item] \in Nat /\ LineSize[l.item] \in Nat
    <3>1. m \in Line
      BY <1>1
    <3> QED
      BY <3>1, CheckpointAssumption DEF Line
  <2>4. c = LineSize[l.item] + IF l.title \in digest.titles THEN 0 ELSE TitleSize
    BY DEF Cost
  <2>5. Cost(digest, m) = LineSize[m.item] + IF m.title \in digest.titles THEN 0 ELSE TitleSize
    BY DEF Cost
  <2>6. Cost(next, m) = LineSize[m.item] + IF m.title \in digest.titles \cup {l.title} THEN 0 ELSE TitleSize
    BY <2>1 DEF Cost
  <2> HIDE DEF c, next
  <2>7. CASE m.title \in digest.titles
    <3>1. Cost(next, m) = Cost(digest, m) /\ Cost(digest, m) \in Nat
      BY <2>3, <2>5, <2>6, <2>7
    <3> QED
      BY <1>1, <2>1, <2>2, <3>1
  <2>8. CASE m.title \notin digest.titles /\ m.title = l.title
    <3>1. Cost(next, m) = LineSize[m.item] /\ Cost(digest, m) = LineSize[m.item] + TitleSize
      BY <2>3, <2>5, <2>6, <2>8
    <3>2. c = LineSize[l.item] + TitleSize
      BY <2>4, <2>8
    <3> QED
      BY <1>1, <2>1, <2>2, <2>3, <3>1, <3>2
  <2>9. CASE m.title \notin digest.titles /\ m.title # l.title
    <3>1. Cost(next, m) = Cost(digest, m) /\ Cost(digest, m) \in Nat
      BY <1>1, <2>3, <2>5, <2>6, <2>9
    <3> QED
      BY <1>1, <2>1, <2>2, <3>1
  <2> QED
    BY <2>7, <2>8, <2>9
<1>3. CASE ~Fits(digest, c, max)
  <2>1. next.size = digest.size /\ next.titles = digest.titles /\ next.omitted = digest.omitted \cup {l}
    BY <1>3 DEF AfterLine, Digest
  <2>2. \A m : Cost(next, m) = Cost(digest, m)
    BY <2>1 DEF Cost
  <2>3. digest.size + c > max
    BY <1>1, <1>3 DEF Fits
  <2> HIDE DEF next
  <2>4. \A m \in next.omitted : next.size + Cost(next, m) > max
    BY <2>1, <2>2, <2>3 DEF Full
  <2> QED
    BY <2>4 DEF Full, next
<1> QED
  BY <1>2, <1>3

\* The digests after each of the lines.
Header == [size |-> HeaderSize, titles |-> {}, omitted |-> {}]
IsRendered(lines, max, after) ==
  after = [n \in 0..Len(lines) |->
             IF n = 0 THEN [size |-> HeaderSize, titles |-> {}, omitted |-> {}]
             ELSE LET digest == after[n - 1]
                      l == lines[n]
                  IN IF Fits(digest, Cost(digest, l), max)
                     THEN [digest EXCEPT !.size = @ + Cost(digest, l), !.titles = @ \cup {l.title}]
                     ELSE [digest EXCEPT !.omitted = @ \cup {l}]]

CutOff(digest, max) == [digest EXCEPT !.size = IF @ > max THEN max ELSE @]

LEMMA RenderIs ==
  ASSUME NEW cp \in CheckpointRecord, NEW max \in Nat
  PROVE  LET lines == DigestLines(cp)
         IN \E after : /\ RenderDigest(cp, max) = CutOff(after[Len(lines)], max) /\ after[0] = Header
                       /\ \A n \in 1..Len(lines) : after[n] = AfterLine(after[n - 1], lines[n], max)
<1> DEFINE lines == DigestLines(cp)
           N == Len(lines)
           X == Digest
           step == [n \in 1..N |-> [d \in X |-> AfterLine(d, lines[n], max)]]
<1>1. N \in Nat /\ \A n \in 1..N : lines[n] \in Line
  <2>1. lines \in Seq(Line)
    BY DigestLinesType
  <2> DEFINE L == Line
  <2>2. lines \in Seq(L)
    BY <2>1
  <2> HIDE DEF L, lines
  <2>3. N \in Nat /\ \A n \in 1..N : lines[n] \in L
    BY <2>2
  <2> QED
    BY <2>3 DEF L
<1> HIDE DEF lines
<1>2. Header \in X
  BY CheckpointAssumption DEF Header, Digest
<1>3. step \in [1..N -> [X -> X]]
  <2>1. ASSUME NEW n \in 1..N, NEW d \in X PROVE AfterLine(d, lines[n], max) \in X
    BY <1>1, AfterLineType
  <2> HIDE DEF X
  <2> QED
    BY <2>1
<1>4. \A n \in 1..N, d \in X : step[n][d] = AfterLine(d, lines[n], max)
  OBVIOUS
<1> HIDE DEF step, N, X
<1>5. PICK f \in [0..N -> X] : f[0] = Header /\ \A n \in 1..N : f[n] = step[n][f[n - 1]]
  <2>1. \E f \in [0..N -> X] : Goes(f, Header, step, N)
    BY <1>1, <1>2, <1>3, StepByStep
  <2> QED
    BY <2>1 DEF Goes
<1>6. ASSUME NEW n \in 1..N PROVE f[n] = AfterLine(f[n - 1], lines[n], max)
  <2>1. n - 1 \in 0..N
    BY <1>1
  <2>2. f[n - 1] \in X
    BY <2>1
  <2> QED
    BY <1>4, <1>5, <2>2
<1>7. \A after : IsRendered(lines, max, after) <=>
        after = [n \in 0..N |-> IF n = 0 THEN Header ELSE AfterLine(after[n - 1], lines[n], max)]
  BY DEF IsRendered, Header, N, AfterLine
<1>8. IsRendered(lines, max, f)
  <2>1. \A n \in 0..N : n = 0 \/ n \in 1..N
    BY <1>1
  <2>2. \A n \in 0..N : f[n] = IF n = 0 THEN Header ELSE AfterLine(f[n - 1], lines[n], max)
    BY <1>5, <1>6, <2>1
  <2>3. f = [n \in 0..N |-> f[n]]
    OBVIOUS
  <2> QED
    BY <1>7, <2>2, <2>3
<1>9. RenderDigest(cp, max) = CutOff((CHOOSE after : IsRendered(lines, max, after))[N], max)
  BY DEF RenderDigest, IsRendered, CutOff, N, lines
<1>10. PICK after : IsRendered(lines, max, after) /\ RenderDigest(cp, max) = CutOff(after[N], max)
  BY <1>8, <1>9
<1>11. after[0] = Header /\ \A n \in 1..N : after[n] = AfterLine(after[n - 1], lines[n], max)
  <2>1. \A n \in 1..N : n \in 0..N /\ n # 0
    BY <1>1
  <2>2. 0 \in 0..N
    BY <1>1
  <2> QED
    BY <1>7, <1>10, <2>1, <2>2
<1> QED
  BY <1>10, <1>11 DEF N, lines

LEMMA RenderedFull ==
  ASSUME NEW cp \in CheckpointRecord, NEW max \in Nat \ {0}
  PROVE  RenderDigest(cp, max).size <= max /\ Full(RenderDigest(cp, max), max)
<1> DEFINE lines == DigestLines(cp)
           N == Len(lines)
<1>1. N \in Nat /\ \A n \in 1..N : lines[n] \in Line
  <2>1. lines \in Seq(Line)
    BY DigestLinesType
  <2> DEFINE L == Line
  <2>2. lines \in Seq(L)
    BY <2>1
  <2> HIDE DEF L, lines
  <2>3. N \in Nat /\ \A n \in 1..N : lines[n] \in L
    BY <2>2
  <2> QED
    BY <2>3 DEF L
<1>2. PICK after : /\ RenderDigest(cp, max) = CutOff(after[N], max) /\ after[0] = Header
                   /\ \A n \in 1..N : after[n] = AfterLine(after[n - 1], lines[n], max)
  BY RenderIs
<1> DEFINE S == {n \in 0..N : after[n] \in Digest /\ Full(after[n], max)}
<1> HIDE DEF N, lines
<1>3. 0 \in S
  <2>1. Header \in Digest /\ Full(Header, max)
    BY CheckpointAssumption DEF Header, Digest, Full
  <2>2. 0 \in 0..N
    BY <1>1
  <2> QED
    BY <1>2, <2>1, <2>2
<1>4. ASSUME NEW n \in 1..N, n - 1 \in S PROVE n \in S
  <2>1. after[n - 1] \in Digest /\ Full(after[n - 1], max) /\ n \in 0..N
    BY <1>1, <1>4
  <2>2. AfterLine(after[n - 1], lines[n], max) \in Digest /\ Full(AfterLine(after[n - 1], lines[n], max), max)
    BY <1>1, <2>1, AfterLineType, AfterLineFull
  <2> QED
    BY <1>2, <2>1, <2>2
<1> HIDE DEF S
<1>5. \A n \in 0..N : n \in S
  BY <1>1, <1>3, <1>4, UpTo
<1>6. N \in S
  BY <1>1, <1>5
<1>7. PICK last : last = after[N]
  OBVIOUS
<1>8. last \in Digest /\ Full(last, max)
  BY <1>6, <1>7 DEF S
<1> DEFINE digest == CutOff(last, max)
<1>9. /\ digest.size = (IF last.size > max THEN max ELSE last.size)
      /\ digest.titles = last.titles /\ digest.omitted = last.omitted /\ last.size \in Nat
      /\ last.omitted \in SUBSET Line
  BY <1>8 DEF CutOff, Digest
<1>10. \A l : Cost(digest, l) = Cost(last, l)
  BY <1>9 DEF Cost
<1>11. \A l \in last.omitted : Cost(last, l) \in Nat \ {0}
  BY <1>8, <1>9, CostType
<1> HIDE DEF digest
<1>12. digest.size <= max
  BY <1>9
<1>13. ASSUME NEW l \in digest.omitted PROVE digest.size + Cost(digest, l) > max
  <2>1. last.size + Cost(last, l) > max
    BY <1>8, <1>9 DEF Full
  <2>2. Cost(last, l) \in Nat \ {0}
    BY <1>9, <1>11
  <2>3. CASE last.size > max
    <3>1. digest.size = max
      BY <1>9, <2>3
    <3> QED
      BY <1>10, <2>2, <3>1
  <2>4. CASE ~(last.size > max)
    <3>1. digest.size = last.size
      BY <1>9, <2>4
    <3> QED
      BY <1>10, <2>1, <3>1
  <2> QED
    BY <2>3, <2>4
<1>14. digest.size <= max /\ Full(digest, max)
  BY <1>12, <1>13 DEF Full
<1> QED
  BY <1>2, <1>7, <1>14 DEF digest

\* A digest keeps to its limit and leaves out no line that would still fit at
\* its end, for every log and every limit (render_digest).
THEOREM DigestsAreFull == CheckpointSpec => []DigestIsFull
<1>1. CheckpointTypeOK => DigestIsFull
  <2> SUFFICES ASSUME CheckpointTypeOK, NEW max \in DigestSizes
               PROVE  LET digest == RenderDigest(Materialize(cLog), max)
                      IN digest.size <= max /\ \A l \in digest.omitted : digest.size + Cost(digest, l) > max
    BY DEF DigestIsFull
  <2>1. max \in Nat \ {0}
    BY CheckpointAssumption
  <2>2. Materialize(cLog) \in CheckpointRecord
    BY MaterializeSays DEF CheckpointTypeOK
  <2> QED
    BY <2>1, <2>2, RenderedFull DEF Full
<1> QED
  BY <1>1, CheckpointTyped, PTL

-----------------------------------------------------------------------------
(* The parts together.                                                     *)

\* Each part of the work side, seen alone, behaves as its own specification
\* says, whatever the others do: they share no state.
THEOREM WorkIsItsParts ==
  WorkSpec => DeliverySpec /\ EvaluationSpec /\ ProgressSpec /\ CheckpointSpec /\ DecisionSpec
<1>1. WorkInit => DeliveryInit /\ EvaluationInit /\ ProgressInit /\ CheckpointInit /\ DecisionInit
  BY DEF WorkInit
<1>2. [WorkNext]_vars => /\ [DeliveryNext]_deliveryVars /\ [EvaluationNext]_evaluationVars
                         /\ [ProgressNext]_progressVars /\ [CheckpointNext]_cLog
                         /\ [DecisionNext]_decisionVars
  <2> SUFFICES ASSUME [WorkNext]_vars
               PROVE  /\ DeliveryNext \/ UNCHANGED deliveryVars
                      /\ EvaluationNext \/ UNCHANGED evaluationVars
                      /\ ProgressNext \/ UNCHANGED progressVars
                      /\ CheckpointNext \/ UNCHANGED cLog
                      /\ DecisionNext \/ UNCHANGED decisionVars
    OBVIOUS
  <2>1. CASE WorkNext
    BY <2>1 DEF WorkNext
  <2>2. CASE UNCHANGED vars
    BY <2>2 DEF vars
  <2> QED
    BY <2>1, <2>2
<1> QED
  BY <1>1, <1>2, PTL DEF WorkSpec, DeliverySpec, EvaluationSpec, ProgressSpec, CheckpointSpec, DecisionSpec

\* Every part keeps to its types.
THEOREM WorkTyped == WorkSpec => []WorkTypeOK
<1>1. DeliveryInv => DeliveryTypeOK
  BY DEF DeliveryInv
<1>2. EvaluationSpec => []EvaluationTypeOK
  <2>1. EvaluationInv => EvaluationTypeOK
    BY DEF EvaluationInv
  <2> QED
    BY <2>1, EvaluationInvInit, EvaluationInvStep, PTL DEF EvaluationSpec
<1>3. ProgressSpec => []ProgressTypeOK
  <2>1. ProgressInv => ProgressTypeOK
    BY DEF ProgressInv
  <2> QED
    BY <2>1, ProgressInvInit, ProgressInvStep, PTL DEF ProgressSpec
<1>4. DecisionSpec => []DecisionTypeOK
  <2>1. DecisionInv => DecisionTypeOK
    BY DEF DecisionInv
  <2> QED
    BY <2>1, DecisionInvInit, DecisionInvNext, PTL DEF DecisionSpec
<1>5. DeliverySpec => []DeliveryTypeOK
  BY <1>1, DeliveryInvariant, PTL
<1>6. DeliveryTypeOK /\ EvaluationTypeOK /\ ProgressTypeOK /\ CheckpointTypeOK /\ DecisionTypeOK => WorkTypeOK
  BY DEF WorkTypeOK
<1> QED
  BY <1>2, <1>3, <1>4, <1>5, <1>6, CheckpointTyped, WorkIsItsParts, PTL

\* All that the work side promises, of all its parts together, as they are run:
\* the fixture delivers as promised and within its budget, only candidates that
\* pass are accepted, the monitor, the checkpoints and the digests lose nothing,
\* and everyone is heard.
THEOREM WorkSafe ==
  WorkSpec => /\ [](/\ AcceptedLeaseStays /\ AcceptedCandidateHolds /\ MonitorSeesHistory
                    /\ CheckpointSaysLog /\ DigestIsFull /\ EveryoneHeard)
              /\ AcceptedWithinBudget /\ FixtureKeepsPromise
BY WorkIsItsParts, AcceptedLeaseKept, AcceptanceHolds, MonitorLosesNothing, CheckpointsSayLog,
   DigestsAreFull, EveryoneIsHeard, WithinBudget, FixturePromise, PTL
=============================================================================
