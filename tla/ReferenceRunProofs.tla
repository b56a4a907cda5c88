------------------------- MODULE ReferenceRunProofs -------------------------
(***************************************************************************)
(* The native adapter and the reference run, for any number of binaries    *)
(* that replace one another and any number of runs: no version probe is    *)
(* left behind, what a run validates, measures and schedules is one build  *)
(* unless a new one was rolled back meanwhile, and a report that can be    *)
(* read is backed by the log and the store, wherever this run and the      *)
(* others were stopped.                                                    *)
(***************************************************************************)
EXTENDS ReferenceRun, SequenceTheorems, FiniteSetTheorems, FunctionTheorems, TLAPS

-----------------------------------------------------------------------------
(* The native adapter.                                                     *)

\* All that was seen of the binary is one file, which is or was at its path.
OneFile(seen) ==
  /\ seen.stat >= 1 /\ seen.hash = seen.stat /\ seen.probe = seen.stat
  /\ seen.stat <= nFile.number

\* Steps between the start of the version probe and the last look at the file.
Probing == {"read", "wait", "drain", "cleanup", "stat again"}

\* Later looks at the file see later files: the stat that ends an identification
\* can agree with the first one only if nothing came between.
SeenInOrder ==
  /\ nStep \in {"hash", "start"} \cup Probing => nSeen.stat >= 1 /\ nSeen.stat <= nFile.number
  /\ nStep \in {"start"} \cup Probing => nSeen.stat <= nSeen.hash /\ nSeen.hash <= nFile.number
  /\ nStep \in Probing => nSeen.hash <= nSeen.probe /\ nSeen.probe <= nFile.number
  /\ nStep \in {"identified", "run"} /\ nStatus = "ready" => OneFile(nSeen)

\* What a call returned last, or an execution knows of its profile.
ResultSound ==
  /\ nOp = "idle" <=> nStep = "idle"
  /\ nStep \notin {"idle", "run"} => nResult = NoResult
  /\ nResult.identity.status = "ready" => OneFile(nSeen) /\ nResult.identity.seen = nSeen
  /\ nResult.state = "SUPPORTED" => nResult.identity.status = "ready"
  /\ nStep = "run" \/ nResult.outcome = "success" =>
       nResult.state = "SUPPORTED" \/ nRequest.allowUnknown

\* On posix there is a probe only while it is read from, waited for or cleaned up.
ProbeBounded ==
  nPlatform = "posix" =>
    nStep # "drain" /\ (nStep \notin {"read", "wait", "cleanup"} => nProbe = NoProbe)

NativeInv == NativeTypeOK /\ SeenInOrder /\ ResultSound /\ ProbeBounded

Probe == [runs: BOOLEAN, well: BOOLEAN, open: BOOLEAN, kin: BOOLEAN, wrote: 0..2]
Result == [identity: Identity, state: ValidationState, outcome: Outcome]

LEMMA NoneTyped ==
  NoProbe \in Probe /\ NoResult \in Result /\ NothingSeen \in Seen
BY NativeAssumption
   DEF NoProbe, Probe, NoResult, Result, Identity, Status, Seen, NothingSeen, ValidationState, Outcome

LEMMA NativeInvInit == NativeInit => NativeInv
<1> SUFFICES ASSUME NativeInit PROVE NativeInv
  OBVIOUS
<1>1. NativeTypeOK
  <2>1. nFile \in [number: 1..MaxFiles, kind: FileKind]
    BY NativeAssumption DEF NativeInit
  <2>2. nProbe \in Probe /\ nResult \in Result /\ nSeen \in Seen /\ nStatus \in Status
    BY NoneTyped DEF NativeInit, Status
  <2> QED
    BY <2>1, <2>2 DEF NativeInit, NativeTypeOK, Probe, Result
<1>2. /\ nStep = "idle" /\ nOp = "idle" /\ nResult.identity.status = "none"
      /\ nResult.state = "none" /\ nResult.outcome = "none"
  BY DEF NativeInit, NoResult
<1> QED
  BY <1>1, <1>2
     DEF NativeInit, NativeInv, SeenInOrder, Probing, ResultSound, ProbeBounded

LEMMA CallKeeps ==
  ASSUME NativeInv, NEW op \in {"identity", "validate", "execute"}, NEW request \in Requests,
         Call(op, request)
  PROVE  NativeInv'
<1>1. /\ nStep' = "stat" /\ nOp' = op /\ nOp' # "idle" /\ nProbe' = NoProbe
      /\ nResult' = NoResult /\ nSeen' = NothingSeen
  BY DEF Call
<1>2. NativeTypeOK'
  BY <1>1, NoneTyped DEF NativeInv, NativeTypeOK, Call, Probe, Result, Status
<1>3. /\ NoResult.identity.status = "none" /\ NoResult.state = "none" /\ NoResult.outcome = "none"
  BY DEF NoResult
<1> QED
  BY <1>1, <1>2, <1>3 DEF NativeInv, SeenInOrder, Probing, ResultSound, ProbeBounded

\* Steps within an identification.
LEMMA IdentificationKeeps ==
  ASSUME NativeInv, nOp # "idle", nStep \notin {"idle", "run"}, UNCHANGED native,
         nStep' \in {"hash", "start", "read", "wait", "drain", "cleanup", "stat again", "identified"},
         nSeen' \in Seen, nStatus' \in Status, nProbe' \in Probe, nExpired' \in BOOLEAN,
         SeenInOrder', ProbeBounded'
  PROVE  NativeInv'
<1>1. NativeTypeOK'
  BY DEF NativeInv, NativeTypeOK, native, Probe
<1>2. nResult = NoResult
  BY DEF NativeInv, ResultSound
<1>3. /\ NoResult.identity.status = "none" /\ NoResult.state = "none" /\ NoResult.outcome = "none"
  BY DEF NoResult
<1> QED
  BY <1>1, <1>2, <1>3 DEF NativeInv, ResultSound, native

LEMMA NumbersTyped ==
  ASSUME NativeTypeOK
  PROVE  {nSeen.stat, nSeen.hash, nSeen.probe, nFile.number} \subseteq Nat
<1>1. nSeen.stat \in 0..MaxFiles /\ nSeen.hash \in 0..MaxFiles /\ nSeen.probe \in 0..MaxFiles
  BY DEF NativeTypeOK, Seen
<1>2. nFile.number \in 1..MaxFiles
  BY DEF NativeTypeOK
<1> QED
  BY <1>1, <1>2, NativeAssumption

LEMMA RefusalTyped ==
  ASSUME NEW kind \in FileKind \ {"good"}
  PROVE  Refusal[kind] \in Status \ {"ready"}
BY DEF Refusal, FileKind, Status

LEMMA StatKeeps == NativeInv /\ (Stat \/ Hash) => NativeInv'
<1> SUFFICES ASSUME NativeInv, Stat \/ Hash PROVE NativeInv'
  OBVIOUS
<1>1. /\ nOp # "idle" /\ nStep \in {"stat", "hash"} /\ UNCHANGED <<native, nProbe, nExpired, nFile>>
      /\ nStep' \in {"hash", "start", "identified"}
  BY DEF Stat, Hash, At, Goto, Fail, native
<1>2. nFile.number \in 1..MaxFiles /\ nFile.kind \in FileKind /\ nSeen \in Seen /\ nStatus \in Status
  BY DEF NativeInv, NativeTypeOK
<1>3. ProbeBounded' /\ nProbe' \in Probe /\ nExpired' \in BOOLEAN
  BY <1>1 DEF NativeInv, NativeTypeOK, ProbeBounded, Probe, native
<1>4. CASE nFile.kind = "good" /\ nStep = "stat"
  <2>1. nSeen' = [nSeen EXCEPT !.stat = nFile.number] /\ nStep' = "hash" /\ UNCHANGED nStatus
    BY <1>4 DEF Stat, Hash, At, Goto
  <2>2. nSeen' \in Seen /\ nSeen'.stat = nFile.number
    BY <1>2, <2>1, NativeAssumption DEF Seen
  <2>3. SeenInOrder'
    BY <1>1, <1>2, <2>1, <2>2 DEF SeenInOrder, Probing
  <2> QED
    BY <1>1, <1>2, <1>3, <2>1, <2>2, <2>3, IdentificationKeeps
<1>5. CASE nFile.kind = "good" /\ nStep = "hash"
  <2>1. nSeen' = [nSeen EXCEPT !.hash = nFile.number] /\ nStep' = "start" /\ UNCHANGED nStatus
    BY <1>5 DEF Stat, Hash, At, Goto
  <2>2. nSeen' \in Seen /\ nSeen'.stat = nSeen.stat /\ nSeen'.hash = nFile.number
    BY <1>2, <2>1, NativeAssumption DEF Seen
  <2>3. SeenInOrder'
    BY <1>1, <1>2, <1>5, <2>1, <2>2 DEF SeenInOrder, Probing, NativeInv
  <2> QED
    BY <1>1, <1>2, <1>3, <2>1, <2>2, <2>3, IdentificationKeeps
<1>6. CASE nFile.kind # "good"
  <2>1. nStatus' = Refusal[nFile.kind] /\ nStep' = "identified" /\ UNCHANGED nSeen
    BY <1>6 DEF Stat, Hash, Fail
  <2>2. nStatus' \in Status \ {"ready"}
    BY <1>2, <1>6, <2>1, RefusalTyped
  <2>3. SeenInOrder'
    BY <2>1, <2>2 DEF SeenInOrder, Probing
  <2> QED
    BY <1>1, <1>2, <1>3, <2>1, <2>2, <2>3, IdentificationKeeps
<1> QED
  BY <1>1, <1>4, <1>5, <1>6

LEMMA StartProbeKeeps == NativeInv /\ StartProbe => NativeInv'
<1> SUFFICES ASSUME NativeInv, StartProbe PROVE NativeInv'
  OBVIOUS
<1>1. nOp # "idle" /\ nStep = "start" /\ UNCHANGED <<native, nFile>>
  BY DEF StartProbe, At, native
<1>2. nFile.number \in 1..MaxFiles /\ nSeen \in Seen /\ nStatus \in Status
  BY DEF NativeInv, NativeTypeOK
<1>3. CASE nStep' = "read"
  <2>1. /\ nSeen' = [nSeen EXCEPT !.probe = nFile.number] /\ UNCHANGED nStatus
        /\ nProbe' = [NoProbe EXCEPT !.runs = TRUE, !.open = TRUE] /\ nExpired' = FALSE
    BY <1>3 DEF StartProbe, Goto, Fail
  <2>2. /\ nSeen' \in Seen /\ nSeen'.stat = nSeen.stat /\ nSeen'.hash = nSeen.hash
        /\ nSeen'.probe = nFile.number
    BY <1>2, <2>1 DEF Seen
  <2>3. nProbe' \in Probe
    BY <2>1, NoneTyped DEF Probe
  <2>4. SeenInOrder'
    BY <1>1, <1>2, <1>3, <2>2 DEF SeenInOrder, Probing, NativeInv
  <2>5. ProbeBounded'
    BY <1>1, <1>3, <2>1 DEF NativeInv, ProbeBounded
  <2> QED
    BY <1>1, <1>2, <1>3, <2>1, <2>2, <2>3, <2>4, <2>5, IdentificationKeeps
<1>4. CASE nStep' # "read"
  <2>1. nStatus' \in {"missing", "denied", "unusable"} /\ nStep' = "identified"
        /\ UNCHANGED <<nSeen, nProbe, nExpired>>
    BY <1>4 DEF StartProbe, Goto, Fail
  <2>2. /\ nStatus' \in Status /\ nStatus' # "ready" /\ nProbe' \in Probe
        /\ nExpired' \in BOOLEAN /\ nSeen' \in Seen
    BY <1>2, <2>1 DEF Status, NativeInv, NativeTypeOK, Probe
  <2>3. SeenInOrder' /\ ProbeBounded'
    BY <1>1, <2>1, <2>2 DEF SeenInOrder, Probing, NativeInv, ProbeBounded, native
  <2> QED
    BY <1>1, <2>1, <2>2, <2>3, IdentificationKeeps
<1> QED
  BY <1>3, <1>4

\* The steps that follow the probe: nothing more is seen of the binary, and the
\* identification is not ready before the last look at it.
LEMMA ProbeStepKeeps ==
  ASSUME NativeInv, nOp # "idle", nStep \in Probing, UNCHANGED <<native, nSeen, nExpired>>,
         nStep' \in Probing \/ (nStep' = "identified" /\ (nStatus' # "ready" \/ OneFile(nSeen))),
         nStatus' \in Status, nProbe' \in Probe, ProbeBounded'
  PROVE  NativeInv'
<1>1. SeenInOrder'
  BY DEF NativeInv, SeenInOrder, Probing, OneFile, native
<1>2. nSeen' \in Seen /\ nExpired' \in BOOLEAN
  BY DEF NativeInv, NativeTypeOK
<1> QED
  BY <1>1, <1>2, IdentificationKeeps DEF Probing

LEMMA ReadProbeKeeps ==
  NativeInv /\ (ReadProbe \/ WaitProbe \/ ReadBreaks) => NativeInv'
<1> SUFFICES ASSUME NativeInv, ReadProbe \/ WaitProbe \/ ReadBreaks PROVE NativeInv'
  OBVIOUS
<1>1. /\ nOp # "idle" /\ nStep \in Probing /\ UNCHANGED <<native, nSeen, nProbe, nExpired>>
      /\ nStep' \in {"wait", "cleanup"} \/ (nStep' = "identified" /\ nStatus' = "unusable" /\ nPlatform # "posix")
  BY DEF ReadProbe, WaitProbe, ReadBreaks, At, Goto, Probing
<1>2. nStatus' \in Status
  BY DEF ReadProbe, WaitProbe, ReadBreaks, Goto, Answered, Status, NativeInv, NativeTypeOK
<1>3. nProbe' \in Probe /\ ProbeBounded'
  BY <1>1 DEF NativeInv, NativeTypeOK, Probe, ProbeBounded, native
<1> QED
  BY <1>1, <1>2, <1>3, ProbeStepKeeps DEF Probing

LEMMA CleanupKeeps == NativeInv /\ CleanupProbe => NativeInv'
<1> SUFFICES ASSUME NativeInv, CleanupProbe PROVE NativeInv'
  OBVIOUS
<1>1. /\ nOp # "idle" /\ nStep \in Probing /\ UNCHANGED <<native, nSeen, nStatus, nExpired>>
      /\ nStep' = "stat again" \/ (nStep' = "identified" /\ nStatus # "ready")
      /\ nProbe' = NoProbe
  BY DEF CleanupProbe, At, Killed, Probing
<1>2. nStatus' \in Status /\ nProbe' \in Probe /\ ProbeBounded'
  BY <1>1, NoneTyped DEF NativeInv, NativeTypeOK, ProbeBounded
<1> QED
  BY <1>1, <1>2, ProbeStepKeeps DEF Probing

LEMMA CommunicateKeeps == NativeInv /\ CommunicateProbe => NativeInv'
<1> SUFFICES ASSUME NativeInv, CommunicateProbe PROVE NativeInv'
  OBVIOUS
<1>1. /\ nOp # "idle" /\ nStep \in Probing /\ UNCHANGED <<native, nSeen, nExpired>>
      /\ nStep' \in {"stat again", "drain"} \/ (nStep' = "identified" /\ nStatus' # "ready")
  BY DEF CommunicateProbe, At, Goto, Fail, Probing
<1>2. nStatus' \in Status
  BY DEF CommunicateProbe, Goto, Fail, Answered, Status, NativeInv, NativeTypeOK
<1>3. nProbe' \in Probe
  <2>1. nProbe \in Probe
    BY DEF NativeInv, NativeTypeOK, Probe
  <2>2. nProbe' = nProbe \/ nProbe' = [nProbe EXCEPT !.runs = FALSE, !.open = nProbe.kin]
    BY DEF CommunicateProbe
  <2> QED
    BY <2>1, <2>2 DEF Probe
<1>4. ProbeBounded'
  BY DEF CommunicateProbe, ProbeBounded, native
<1> QED
  BY <1>1, <1>2, <1>3, <1>4, ProbeStepKeeps DEF Probing

LEMMA StatAgainKeeps == NativeInv /\ StatAgain => NativeInv'
<1> SUFFICES ASSUME NativeInv, StatAgain PROVE NativeInv'
  OBVIOUS
<1>1. /\ nOp # "idle" /\ nStep = "stat again" /\ nStep' = "identified"
      /\ UNCHANGED <<native, nSeen, nProbe, nExpired>>
  BY DEF StatAgain, At
<1>2. nStatus' \in Status /\ nProbe' \in Probe /\ ProbeBounded'
  BY <1>1 DEF StatAgain, Status, NativeInv, NativeTypeOK, Probe, ProbeBounded, native
<1>3. {nSeen.stat, nSeen.hash, nSeen.probe, nFile.number} \subseteq Nat
  BY NumbersTyped DEF NativeInv
<1>4. nStatus' # "ready" \/ OneFile(nSeen)
  <2>1. nStatus' = "ready" => nFile.number = nSeen.stat
    BY DEF StatAgain, UnchangedFile
  <2>2. /\ nSeen.stat >= 1 /\ nSeen.stat <= nSeen.hash /\ nSeen.hash <= nSeen.probe
        /\ nSeen.probe <= nFile.number
    BY <1>1 DEF NativeInv, SeenInOrder, Probing
  <2> QED
    BY <1>3, <2>1, <2>2 DEF OneFile
<1>5. nStep \in Probing
  BY <1>1 DEF Probing
<1> QED
  BY <1>1, <1>2, <1>4, <1>5, ProbeStepKeeps

\* The step that ends an identification, and what an execution comes to.
LEMMA IdentifiedKeeps == NativeInv /\ Identified => NativeInv'
<1> DEFINE state == IF nOp = "identity" THEN "none" ELSE Validated(nRequest, nStatus)
           result == [identity |-> [status |-> nStatus, seen |-> nSeen], state |-> state,
                      outcome |-> "none"]
<1> SUFFICES ASSUME NativeInv, Identified PROVE NativeInv'
  OBVIOUS
<1>1. /\ nOp # "idle" /\ nStep = "identified"
      /\ UNCHANGED <<nPlatform, nFile, nRequest, nSeen, nStatus, nProbe>>
  BY DEF Identified, At
<1>2. /\ state \in {"none", "SUPPORTED", "UNSUPPORTED", "UNKNOWN"}
      /\ state = "SUPPORTED" => nStatus = "ready"
  BY DEF Validated
<1>3. \/ /\ nOp' = "idle" /\ nStep' = "idle" /\ UNCHANGED nExpired
         /\ \/ nResult' = result
            \/ nResult' = [result EXCEPT !.outcome = "FAIL_RUNTIME"]
            \/ nResult' = [result EXCEPT !.outcome = "raised"]
      \/ /\ nOp' = nOp /\ nStep' = "run" /\ nExpired' = FALSE /\ nResult' = result
         /\ nOp = "execute" /\ ~Declined(nRequest, state)
  BY DEF Identified, Return
<1>4. /\ nResult'.identity.status = nStatus /\ nResult'.identity.seen = nSeen
      /\ nResult'.state = state /\ nResult'.outcome \in {"none", "FAIL_RUNTIME", "raised"}
      /\ nResult' \in Result
  <2>1. nStatus \in Status /\ nSeen \in Seen
    BY DEF NativeInv, NativeTypeOK
  <2>2. result \in Result
    BY <1>2, <2>1 DEF Result, Identity, ValidationState, Outcome
  <2> HIDE DEF state
  <2> QED
    BY <1>3, <2>2 DEF Result, Outcome
<1> HIDE DEF state, result
<1>5. nStep' = "run" => state = "SUPPORTED" \/ nRequest.allowUnknown
  <2>1. nStep' = "run" => nOp = "execute" /\ ~Declined(nRequest, state)
    BY <1>3
  <2>2. nOp = "execute" => state \in {"SUPPORTED", "UNSUPPORTED", "UNKNOWN"}
    BY DEF state, Validated
  <2> QED
    BY <2>1, <2>2 DEF Declined
<1>6. NativeTypeOK'
  BY <1>1, <1>3, <1>4 DEF NativeInv, NativeTypeOK, Result
<1>7. nStatus = "ready" => OneFile(nSeen)
  BY <1>1 DEF NativeInv, SeenInOrder
<1>8. SeenInOrder'
  BY <1>1, <1>3, <1>7 DEF SeenInOrder, Probing, OneFile
<1>9. ResultSound'
  BY <1>1, <1>2, <1>3, <1>4, <1>5, <1>7 DEF ResultSound, OneFile
<1>10. ProbeBounded'
  BY <1>1, <1>3 DEF NativeInv, ProbeBounded
<1> QED
  BY <1>6, <1>8, <1>9, <1>10 DEF NativeInv

LEMMA RunKeeps == NativeInv /\ (RunFails \/ RunEnds) => NativeInv'
<1> SUFFICES ASSUME NativeInv, RunFails \/ RunEnds PROVE NativeInv'
  OBVIOUS
<1>1. /\ nOp # "idle" /\ nStep = "run" /\ nOp' = "idle" /\ nStep' = "idle"
      /\ UNCHANGED <<nPlatform, nFile, nRequest, nSeen, nStatus, nProbe, nExpired>>
  BY DEF RunFails, RunEnds, At, Return
<1>2. PICK outcome \in {"success", "FAIL_EXECUTION", "FAIL_RESOURCE", "FAIL_TIMEOUT"} :
        nResult' = [nResult EXCEPT !.outcome = outcome]
  BY DEF RunFails, RunEnds, Return
<1>3. nResult \in Result
  BY DEF NativeInv, NativeTypeOK, Result
<1>4. /\ nResult' \in Result /\ nResult'.identity = nResult.identity
      /\ nResult'.state = nResult.state
  BY <1>2, <1>3 DEF Result, Outcome
<1>5. NativeTypeOK'
  BY <1>1, <1>4 DEF NativeInv, NativeTypeOK, Result
<1>6. SeenInOrder' /\ ProbeBounded'
  BY <1>1 DEF NativeInv, SeenInOrder, Probing, ProbeBounded
<1>7. ResultSound'
  BY <1>1, <1>4 DEF NativeInv, ResultSound, OneFile
<1> QED
  BY <1>5, <1>6, <1>7 DEF NativeInv

\* Another file of the type is the only change.
LEMMA OtherFile ==
  ASSUME NativeTypeOK, nFile' \in [number: 1..MaxFiles, kind: FileKind],
         UNCHANGED <<nPlatform, nOp, nRequest, nStep, nSeen, nStatus, nProbe, nExpired, nResult>>
  PROVE  NativeTypeOK'
<1>1. nPlatform' \in {"posix", "windows"} /\ nRequest' \in Requests
      /\ nOp' \in {"idle", "identity", "validate", "execute"}
  BY DEF NativeTypeOK
<1>2. nStep' \in {"idle", "stat", "hash", "start", "read", "wait", "drain", "cleanup", "stat again",
                  "identified", "run"}
  BY DEF NativeTypeOK
<1>3. /\ nSeen' \in Seen /\ nStatus' \in Status /\ nExpired' \in BOOLEAN
      /\ nProbe' \in [runs: BOOLEAN, well: BOOLEAN, open: BOOLEAN, kin: BOOLEAN, wrote: 0..2]
      /\ nResult' \in [identity: Identity, state: ValidationState, outcome: Outcome]
  BY DEF NativeTypeOK
<1> QED
  BY <1>1, <1>2, <1>3 DEF NativeTypeOK

\* A file that takes the binary's place is a later one.
LEMMA ReplaceKeeps == NativeInv /\ Replace => NativeInv'
<1> SUFFICES ASSUME NativeInv, Replace PROVE NativeInv'
  OBVIOUS
<1>1. PICK kind \in FileKind : nFile' = [number |-> nFile.number + 1, kind |-> kind]
  BY DEF Replace
<1>2. nFile.number \in 1..MaxFiles /\ nFile.number < MaxFiles
  BY DEF Replace, NativeInv, NativeTypeOK
<1>3. nFile' \in [number: 1..MaxFiles, kind: FileKind] /\ nFile'.number = nFile.number + 1
  BY <1>1, <1>2, NativeAssumption
<1>4. NativeTypeOK'
  <2>1. UNCHANGED <<nPlatform, nOp, nRequest, nStep, nSeen, nStatus, nProbe, nExpired, nResult>>
    BY DEF Replace
  <2>2. NativeTypeOK
    BY DEF NativeInv
  <2> QED
    BY <1>3, <2>1, <2>2, OtherFile
<1>5. {nSeen.stat, nSeen.hash, nSeen.probe, nFile.number} \subseteq Nat
  BY NumbersTyped DEF NativeInv
<1>6. OneFile(nSeen) => OneFile(nSeen)'
  BY <1>3, <1>5 DEF OneFile, Replace
<1>7. SeenInOrder'
  <2>1. /\ UNCHANGED <<nStep, nSeen, nStatus>>
        /\ \A v \in Nat : v <= nFile.number => v <= nFile'.number
    BY <1>3, <1>5 DEF Replace
  <2> QED
    BY <1>5, <1>6, <2>1 DEF NativeInv, SeenInOrder, Probing
<1>8. ResultSound'
  BY <1>6 DEF NativeInv, ResultSound, Replace
<1>9. ProbeBounded'
  BY DEF NativeInv, ProbeBounded, Replace
<1> QED
  BY <1>4, <1>7, <1>8, <1>9 DEF NativeInv

\* A probe that is gone does nothing; time changes nothing that is seen.
LEMMA WorldKeeps == NativeInv /\ (ProbeActs \/ TimeRunsOut) => NativeInv'
<1> SUFFICES ASSUME NativeInv, ProbeActs \/ TimeRunsOut PROVE NativeInv'
  OBVIOUS
<1>1. UNCHANGED <<native, nStep, nSeen, nStatus>> /\ nExpired' \in {nExpired, TRUE}
  BY DEF ProbeActs, TimeRunsOut
<1>2. nProbe \in Probe
  BY DEF NativeInv, NativeTypeOK, Probe
<1>3. nProbe' \in Probe
  <2>1. CASE TimeRunsOut
    BY <1>2, <2>1 DEF TimeRunsOut
  <2>2. CASE ProbeActs
    <3>1. /\ nProbe.wrote \in 0..2 /\ nProbe.runs \in BOOLEAN /\ nProbe.kin \in BOOLEAN
          /\ nProbe.open \in BOOLEAN
      BY <1>2 DEF Probe
    <3>2. CASE nProbe.wrote < 2 /\ nProbe' = [nProbe EXCEPT !.wrote = @ + 1]
      BY <1>2, <3>1, <3>2 DEF Probe
    <3>3. CASE nProbe' = [nProbe EXCEPT !.kin = TRUE] \/ nProbe' = [nProbe EXCEPT !.open = FALSE]
      BY <1>2, <3>3 DEF Probe
    <3>4. ASSUME NEW well \in BOOLEAN,
                 nProbe' = [nProbe EXCEPT !.runs = FALSE, !.well = well, !.open = @ /\ nProbe.kin]
          PROVE  nProbe' \in Probe
      <4>1. (nProbe.open /\ nProbe.kin) \in BOOLEAN
        OBVIOUS
      <4> QED
        BY <1>2, <3>4, <4>1 DEF Probe
    <3>5. CASE nProbe' = [nProbe EXCEPT !.kin = FALSE, !.open = nProbe.runs]
      BY <1>2, <3>1, <3>5 DEF Probe
    <3> QED
      BY <2>2, <3>2, <3>3, <3>4, <3>5 DEF ProbeActs
  <2> QED
    BY <2>1, <2>2
<1>4. NativeTypeOK'
  BY <1>1, <1>3 DEF NativeInv, NativeTypeOK, native, Probe
<1>5. nProbe = NoProbe => nProbe' = nProbe
  BY DEF ProbeActs, TimeRunsOut, NoProbe
<1>6. ProbeBounded'
  BY <1>1, <1>5 DEF NativeInv, ProbeBounded, native
<1>7. SeenInOrder' /\ ResultSound'
  BY <1>1 DEF NativeInv, SeenInOrder, Probing, ResultSound, OneFile, native
<1> QED
  BY <1>4, <1>6, <1>7 DEF NativeInv

LEMMA NativeStepKeeps == NativeInv /\ NativeStep => NativeInv'
BY StatKeeps, StartProbeKeeps, ReadProbeKeeps, CleanupKeeps, CommunicateKeeps, StatAgainKeeps,
   IdentifiedKeeps, RunKeeps, ReplaceKeeps, WorldKeeps DEF NativeStep, AdapterStep

LEMMA NativeIdle == NativeInv /\ UNCHANGED nativeVars => NativeInv'
<1> SUFFICES ASSUME NativeInv, UNCHANGED nativeVars PROVE NativeInv'
  OBVIOUS
<1>1. NativeTypeOK'
  <2>1. NativeTypeOK /\ nFile' = nFile
    BY DEF NativeInv, nativeVars
  <2>2. nFile' \in [number: 1..MaxFiles, kind: FileKind]
    BY <2>1 DEF NativeTypeOK
  <2> QED
    BY <2>1, <2>2, OtherFile DEF nativeVars
<1>2. SeenInOrder'
  BY DEF nativeVars, NativeInv, SeenInOrder, Probing, OneFile
<1>3. ResultSound'
  BY DEF nativeVars, NativeInv, ResultSound, OneFile
<1>4. ProbeBounded'
  BY DEF nativeVars, NativeInv, ProbeBounded
<1> QED
  BY <1>1, <1>2, <1>3, <1>4 DEF NativeInv

LEMMA ProbeGone == NativeInv => NoProbeLeft
<1>1. ~NoProbe.runs /\ ~NoProbe.kin
  BY DEF NoProbe
<1>2. NativeInv /\ nPlatform = "posix" /\ nStep \in {"idle", "stat again", "identified", "run"}
        => nProbe = NoProbe
  BY DEF NativeInv, ProbeBounded
<1> QED
  BY <1>1, <1>2 DEF NoProbeLeft

\* On posix no call of the adapter (identity, validate, execute) returns or runs
\* the runtime with a process of its version probe left, descendants included,
\* whatever the probe does and whichever binary takes its place.
THEOREM ProbeNeverLeft == NativeSpec => []NoProbeLeft
<1>1. NativeInv /\ [NativeNext]_nativeVars => NativeInv'
  BY CallKeeps, NativeStepKeeps, NativeIdle DEF NativeNext
<1> QED
  BY <1>1, NativeInvInit, ProbeGone, PTL DEF NativeSpec

-----------------------------------------------------------------------------
(* The reference run.                                                      *)

\* Its validation and its measurement are of one file each, and of one build.
OneBuild ==
  /\ \A seen \in {rValidated, rMeasured} : seen.stat = seen.hash /\ seen.hash = seen.probe
  /\ IdentityOf(rMeasured) = IdentityOf(rValidated) \/ RolledBack

Scheduled ==
  {"log decision", "log scheduled request", "announce scheduled", "execute scheduled",
   "executing scheduled", "log observation", "finish"}
Stored == {"store", "select", "identifying"}
ValidatedAlready == {"log request", "announce", "execute", "executing"} \cup Stored

AnyLayer == [layer: 0..10, state: LayerState \cup ValidationState]

RunTyped ==
  /\ rStep \in Steps /\ rLayers \in Seq(AnyLayer) /\ rValidated \in Seen /\ rMeasured \in Seen

\* How many layers a run has recorded by a step before it is scheduled.
LayersSoFar ==
  /\ rStep = "discover" => Len(rLayers) = 2
  /\ rStep = "validating" => Len(rLayers) = 3
  /\ rStep \in {"log request", "announce"} => Len(rLayers) = 5
  /\ rStep \in {"execute", "executing"} => Len(rLayers) = 6 /\ rLayers[6].layer = 5
  /\ rStep = "store" => Len(rLayers) = 6
  /\ rStep \in {"select", "identifying"} => Len(rLayers) = 7

\* The adapter is called by the run alone, never with an unknown profile allowed.
CallsOwned ==
  /\ nOp # "idle" => rStep \in Waits
  /\ rStep \in Waits => ~nRequest.allowUnknown

\* The binary validated is not later than the one measured, and that one is not
\* later than what the call under way sees.
BinariesInOrder ==
  /\ rStep \in ValidatedAlready => OneFile(rValidated)
  /\ rStep = "executing" /\ nSeen.stat # 0 => rValidated.stat <= nSeen.stat
  /\ rStep \in Stored => OneFile(rMeasured) /\ rValidated.stat <= rMeasured.stat
  /\ rStep = "identifying" /\ nSeen.stat # 0 => rMeasured.stat <= nSeen.stat

Settled == rStep \in Scheduled \/ Len(rLayers) > 7 => OneBuild

RunInv == RunTyped /\ LayersSoFar /\ CallsOwned /\ BinariesInOrder /\ Settled

LEMMA RunInvInit == ReferenceInit => RunInv
<1> SUFFICES ASSUME ReferenceInit PROVE RunInv
  OBVIOUS
<1>1. rStep = "idle" /\ rLayers = <<>> /\ Len(rLayers) = 0 /\ nOp = "idle"
  BY DEF ReferenceInit, NativeInit
<1>2. RunTyped
  BY <1>1, NoneTyped DEF ReferenceInit, RunTyped, Steps
<1> QED
  BY <1>1, <1>2
     DEF RunInv, LayersSoFar, CallsOwned, Waits, BinariesInOrder, ValidatedAlready, Stored, Settled,
         Scheduled

\* A binary that was rolled back stays so, whatever comes after it.
LEMMA OneBuildStays ==
  ASSUME OneBuild, UNCHANGED <<rValidated, rMeasured>>,
         nFile.number \in Nat, nFile'.number \in Nat, nFile.number <= nFile'.number,
         rMeasured.hash \in Nat
  PROVE  OneBuild'
<1>1. (rMeasured.hash + 1)..nFile.number \subseteq (rMeasured.hash + 1)..nFile'.number
  OBVIOUS
<1>2. RolledBack => RolledBack'
  BY <1>1 DEF RolledBack
<1> QED
  BY <1>2 DEF OneBuild, IdentityOf

\* What a step of the adapter or of the world around it means for a run.
LEMMA NativeGrows ==
  ASSUME NativeInv, NativeStep
  PROVE  /\ nFile.number <= nFile'.number /\ nRequest' = nRequest
         /\ nSeen'.stat \in {nSeen.stat, nFile.number}
         /\ nOp = "idle" => nOp' = "idle"
         /\ nSeen.stat # 0 \/ nSeen'.stat = 0 \/ nSeen'.stat = nFile.number
<1>1. nFile.number \in 1..MaxFiles /\ nSeen \in Seen
  BY DEF NativeInv, NativeTypeOK
<1>2. CASE Stat
  <2>1. nSeen' = [nSeen EXCEPT !.stat = nFile.number] \/ nSeen' = nSeen
    BY <1>2 DEF Stat
  <2> QED
    BY <1>1, <1>2, <2>1 DEF Stat, At, native, Seen
<1>3. CASE Hash \/ StartProbe
  <2>1. \/ nSeen' = [nSeen EXCEPT !.hash = nFile.number] \/ nSeen' = nSeen
        \/ nSeen' = [nSeen EXCEPT !.probe = nFile.number]
    BY <1>3 DEF Hash, StartProbe
  <2> QED
    BY <1>1, <1>3, <2>1 DEF Hash, StartProbe, At, native, Seen
<1>4. CASE Replace
  <2>1. nFile'.number = nFile.number + 1
    BY <1>4 DEF Replace
  <2> QED
    BY <1>1, <1>4, <2>1 DEF Replace
<1>5. CASE \/ ReadProbe \/ WaitProbe \/ CleanupProbe \/ CommunicateProbe \/ StatAgain \/ Identified
           \/ RunFails \/ ReadBreaks \/ RunEnds \/ ProbeActs \/ TimeRunsOut
  <2>1. UNCHANGED <<nFile, nSeen, nRequest>> /\ (nOp = "idle" => nOp' = "idle")
    BY <1>5
       DEF ReadProbe, WaitProbe, CleanupProbe, CommunicateProbe, StatAgain, Identified, RunFails,
           ReadBreaks, RunEnds, ProbeActs, TimeRunsOut, At, Return, native
  <2> QED
    BY <1>1, <2>1
<1> QED
  BY <1>2, <1>3, <1>4, <1>5 DEF NativeStep, AdapterStep

\* Meanwhile the run stands as it is.
LEMMA AroundKeepsRun == NativeInv /\ RunInv /\ AroundIt => RunInv'
<1> SUFFICES ASSUME NativeInv, RunInv, AroundIt PROVE RunInv'
  OBVIOUS
<1>1. NativeStep /\ UNCHANGED <<rStep, rLayers, rValidated, rMeasured>>
  BY DEF AroundIt, seen_so_far
<1>2. {nSeen.stat, nSeen.hash, nSeen.probe, nFile.number} \subseteq Nat
  BY NumbersTyped DEF NativeInv
<1>3. /\ nFile.number <= nFile'.number /\ nRequest' = nRequest
      /\ nSeen'.stat \in {nSeen.stat, nFile.number} /\ (nOp = "idle" => nOp' = "idle")
      /\ nSeen.stat # 0 \/ nSeen'.stat = 0 \/ nSeen'.stat = nFile.number
  BY <1>1, NativeGrows
<1>4. nFile'.number \in Nat
  <2>1. NativeInv'
    BY <1>1, NativeStepKeeps
  <2>2. nFile'.number \in 1..MaxFiles
    BY <2>1 DEF NativeInv, NativeTypeOK
  <2> QED
    BY <2>2, NativeAssumption
<1>5. rValidated.stat \in Nat /\ rMeasured.stat \in Nat
  BY NativeAssumption DEF RunInv, RunTyped, Seen
<1>6. /\ OneFile(rValidated) => OneFile(rValidated)' /\ rValidated.stat <= nFile.number
      /\ OneFile(rMeasured) => OneFile(rMeasured)' /\ rMeasured.stat <= nFile.number
  BY <1>1, <1>2, <1>3, <1>4, <1>5 DEF OneFile
<1>7. BinariesInOrder'
  <2>1. rStep = "executing" => OneFile(rValidated)
    BY DEF RunInv, BinariesInOrder, ValidatedAlready
  <2>2. rStep = "identifying" => OneFile(rMeasured)
    BY DEF RunInv, BinariesInOrder, Stored
  <2> QED
    BY <1>1, <1>3, <1>6, <2>1, <2>2 DEF RunInv, BinariesInOrder
<1>8. CallsOwned'
  BY <1>1, <1>3 DEF RunInv, CallsOwned
<1>9. Settled'
  <2>1. OneBuild => OneBuild'
    <3>1. rMeasured.hash \in Nat
      BY NativeAssumption DEF RunInv, RunTyped, Seen
    <3>2. nFile.number \in Nat
      BY <1>2
    <3> QED
      BY <1>1, <1>3, <1>4, <3>1, <3>2, OneBuildStays
  <2> QED
    BY <1>1, <2>1 DEF RunInv, Settled
<1> QED
  BY <1>1, <1>7, <1>8, <1>9 DEF RunInv, RunTyped, LayersSoFar

\* What a call of the adapter finds as it begins.
LEMMA CallBegins ==
  ASSUME NativeInv, NEW op \in {"identity", "validate", "execute"}, CallAdapter(op)
  PROVE  /\ NativeInv' /\ UNCHANGED nFile /\ nSeen'.stat = 0 /\ ~nRequest'.allowUnknown
<1>1. PICK request \in ReferenceRequests : Call(op, request)
  BY DEF CallAdapter
<1>2. request \in Requests /\ ~request.allowUnknown
  BY DEF ReferenceRequests
<1> QED
  BY <1>1, <1>2, CallKeeps DEF Call, NothingSeen

\* The layers and states that runs record.
LEMMA Recordable ==
  /\ 0 \in 0..10 /\ 1 \in 0..10 /\ 2 \in 0..10 /\ 3 \in 0..10 /\ 4 \in 0..10 /\ 5 \in 0..10
  /\ 6 \in 0..10 /\ 7 \in 0..10 /\ 8 \in 0..10 /\ 9 \in 0..10 /\ 10 \in 0..10
  /\ "PASS" \in LayerState \cup ValidationState /\ "UNKNOWN" \in LayerState \cup ValidationState
  /\ "FAIL_SYSTEM" \in LayerState \cup ValidationState
  /\ "FAIL_RESOURCE" \in LayerState \cup ValidationState
BY DEF LayerState

\* Recording appends one layer.
LEMMA RecordedLayers ==
  ASSUME NEW layers \in Seq(AnyLayer), NEW layer \in 0..10,
         NEW state \in LayerState \cup ValidationState
  PROVE  /\ Recorded(layers, layer, state) \in Seq(AnyLayer)
         /\ Len(Recorded(layers, layer, state)) = Len(layers) + 1
         /\ Recorded(layers, layer, state)[Len(layers) + 1].layer = layer
<1>1. [layer |-> layer, state |-> state] \in AnyLayer
  BY DEF AnyLayer
<1> QED
  BY <1>1 DEF Recorded

\* Setting keeps the number of layers where the layer was recorded before.
LEMMA SetLayers ==
  ASSUME NEW layers \in Seq(AnyLayer), NEW layer \in 0..10, NEW state \in LayerState
  PROVE  /\ SetLayer(layers, layer, state) \in Seq(AnyLayer)
         /\ \A k \in DOMAIN layers : layers[k].layer = layer =>
              Len(SetLayer(layers, layer, state)) = Len(layers)
<1>1. [layer |-> layer, state |-> state] \in AnyLayer
  BY DEF AnyLayer
<1>2. CASE \E i \in DOMAIN layers : layers[i].layer = layer
  <2> DEFINE first == CHOOSE i \in DOMAIN layers :
                        layers[i].layer = layer /\ \A k \in 1..(i - 1) : layers[k].layer # layer
  <2>1. SetLayer(layers, layer, state) = [layers EXCEPT ![first] = [layer |-> layer, state |-> state]]
    BY <1>2 DEF SetLayer
  <2> HIDE DEF first
  <2>2. layers \in [1..Len(layers) -> AnyLayer] /\ Len(layers) \in Nat
    BY LenProperties
  <2>3. SetLayer(layers, layer, state) \in [1..Len(layers) -> AnyLayer]
    BY <1>1, <2>1, <2>2
  <2>4. SetLayer(layers, layer, state) \in Seq(AnyLayer)
    BY <2>2, <2>3, SeqDef
  <2>5. 1..Len(SetLayer(layers, layer, state)) = 1..Len(layers)
    BY <2>3, <2>4, LenProperties
  <2> QED
    BY <2>2, <2>4, <2>5, LenProperties
<1>3. CASE ~\E i \in DOMAIN layers : layers[i].layer = layer
  <2>1. SetLayer(layers, layer, state) = Append(layers, [layer |-> layer, state |-> state])
    BY <1>3 DEF SetLayer, Recorded
  <2> QED
    BY <1>1, <1>3, <2>1
<1> QED
  BY <1>2, <1>3

LEMMA Starts == NativeInv /\ RunInv /\ Start => NativeInv' /\ RunInv'
<1> SUFFICES ASSUME NativeInv, RunInv, Start PROVE NativeInv' /\ RunInv'
  OBVIOUS
<1>1. NativeInv'
  BY NativeIdle DEF Start
<1>2. nOp' = "idle" /\ rStep' = "discover"
  BY DEF Start, RunAt, nativeVars
<1>3. rLayers' \in Seq(AnyLayer) /\ Len(rLayers') = 2
  <2> DEFINE first == Recorded(<<>>, 0, "PASS")
  <2>1. <<>> \in Seq(AnyLayer) /\ Len(<<>>) = 0
    BY EmptySeq
  <2>2. first \in Seq(AnyLayer) /\ Len(first) = Len(<<>>) + 1
    BY <2>1, Recordable, RecordedLayers, Zenon
  <2>3. rLayers' = Recorded(first, 1, "PASS")
    BY DEF Start
  <2> HIDE DEF first
  <2>4. rLayers' \in Seq(AnyLayer) /\ Len(rLayers') = Len(first) + 1
    BY <2>2, <2>3, Recordable, RecordedLayers, Zenon
  <2> QED
    BY <2>1, <2>2, <2>4
<1>4. RunTyped'
  BY <1>2, <1>3, NoneTyped DEF Start, RunTyped, Steps
<1>5. LayersSoFar'
  BY <1>2, <1>3 DEF LayersSoFar
<1>6. Settled'
  <2>1. ~(Len(rLayers') > 7)
    BY <1>3
  <2>2. rStep' \notin Scheduled
    BY <1>2 DEF Scheduled
  <2> QED
    BY <2>1, <2>2 DEF Settled
<1>7. CallsOwned' /\ BinariesInOrder'
  BY <1>2 DEF CallsOwned, Waits, BinariesInOrder, ValidatedAlready, Stored
<1> QED
  BY <1>1, <1>4, <1>5, <1>6, <1>7 DEF RunInv

\* A step of the run from one step to another, with nothing known of the binary
\* before or after it.
LEMMA Moves ==
  ASSUME NativeInv, RunInv, nOp' = "idle" \/ rStep' \in Waits, NativeInv',
         rStep' \in {"idle", "save", "validating"}, rStep' = "validating" => ~nRequest'.allowUnknown,
         UNCHANGED <<nFile, rValidated, rMeasured>>,
         rLayers' \in Seq(AnyLayer), rStep' = "validating" => Len(rLayers') = 3,
         Len(rLayers') <= 7 \/ OneBuild
  PROVE  RunInv'
<1>1. RunTyped'
  BY DEF RunInv, RunTyped, Steps, SaveSteps, Waits
<1>2. Settled'
  <2>1. Len(rLayers') \in Nat
    BY LenProperties
  <2>2. OneBuild => OneBuild'
    BY DEF OneBuild, IdentityOf, RolledBack
  <2>3. ~(Len(rLayers') > 7) \/ OneBuild
    BY <2>1
  <2>4. rStep' \notin Scheduled
    BY DEF Scheduled
  <2> QED
    BY <2>2, <2>3, <2>4 DEF Settled
<1> QED
  BY <1>1, <1>2
     DEF RunInv, LayersSoFar, CallsOwned, Waits, BinariesInOrder, ValidatedAlready, Stored

LEMMA Discovers == NativeInv /\ RunInv /\ Discover => NativeInv' /\ RunInv'
<1> SUFFICES ASSUME NativeInv, RunInv, Discover PROVE NativeInv' /\ RunInv'
  OBVIOUS
<1> DEFINE discovered == Recorded(rLayers, 2, "PASS")
<1>1. discovered \in Seq(AnyLayer) /\ Len(discovered) = 3
  <2>1. rLayers \in Seq(AnyLayer) /\ Len(rLayers) = 2
    BY DEF RunInv, RunTyped, LayersSoFar, Discover, RunAt
  <2>2. discovered \in Seq(AnyLayer) /\ Len(discovered) = Len(rLayers) + 1
    BY <2>1, Recordable, RecordedLayers, Zenon
  <2> QED
    BY <2>1, <2>2
<1> HIDE DEF discovered
<1>2. UNCHANGED <<rValidated, rMeasured>> /\ nOp = "idle"
  BY DEF Discover, RunAt, seen_so_far
<1>3. CASE CallAdapter("validate") /\ rStep' = "validating" /\ rLayers' = discovered
  <2>1. NativeInv' /\ ~nRequest'.allowUnknown /\ UNCHANGED nFile
    BY <1>3, CallBegins
  <2>2. rLayers' \in Seq(AnyLayer) /\ Len(rLayers') = 3
    BY <1>1, <1>3
  <2>3. Len(rLayers') <= 7
    BY <2>2
  <2>4. rStep' \in {"idle", "save", "validating"} /\ rStep' \in Waits
    BY <1>3 DEF Waits
  <2>5. RunInv'
    BY <1>2, <2>1, <2>2, <2>4, <2>3, Moves
  <2> QED
    BY <2>1, <2>5
<1>4. CASE /\ rStep' = "save" /\ rLayers' = Recorded(discovered, 3, "FAIL_RESOURCE")
           /\ UNCHANGED nativeVars
  <2>1. NativeInv' /\ nOp' = "idle" /\ UNCHANGED nFile
    BY <1>2, <1>4, NativeIdle DEF nativeVars
  <2>2. rLayers' \in Seq(AnyLayer) /\ Len(rLayers') = Len(discovered) + 1
    BY <1>1, <1>4, RecordedLayers, Recordable, Zenon
  <2>3. Len(rLayers') <= 7
    BY <1>1, <2>2
  <2>4. rStep' \in {"idle", "save", "validating"} /\ rStep' # "validating"
    BY <1>4
  <2>5. RunInv'
    BY <1>2, <2>1, <2>2, <2>3, <2>4, Moves
  <2> QED
    BY <2>1, <2>5
<1> QED
  BY <1>3, <1>4 DEF Discover, discovered

\* Steps of a run that has been scheduled.
LEMMA ScheduledMoves ==
  ASSUME RunInv, OneBuild, NativeInv', rStep' \in Scheduled \cup {"idle", "save"},
         UNCHANGED <<nFile, rValidated, rMeasured>>, rLayers' \in Seq(AnyLayer),
         nOp' = "idle" \/ (rStep' = "executing scheduled" /\ ~nRequest'.allowUnknown),
         rStep' = "executing scheduled" => ~nRequest'.allowUnknown
  PROVE  RunInv'
<1>1. RunTyped'
  BY DEF RunInv, RunTyped, Steps, LogSteps, SaveSteps, CallSteps, Waits, Scheduled
<1>2. Settled'
  BY DEF Settled, OneBuild, IdentityOf, RolledBack
<1>3. LayersSoFar' /\ BinariesInOrder'
  BY DEF LayersSoFar, BinariesInOrder, Scheduled, ValidatedAlready, Stored
<1>4. CallsOwned'
  BY DEF CallsOwned, Waits, Scheduled
<1> QED
  BY <1>1, <1>2, <1>3, <1>4 DEF RunInv

LEMMA ScheduledIsSettled == RunInv /\ rStep \in Scheduled => OneBuild
BY DEF RunInv, Settled

LEMMA SevenAtMost == \A n \in {5, 6, 7} : ~(n > 7)
OBVIOUS

\* Steps of a run between its validation and its selection that leave the
\* binaries as they are.
LEMMA EarlyMoves ==
  ASSUME RunInv, nOp' = "idle",
         \/ rStep = "validating" /\ rStep' = "log request" /\ OneFile(rValidated)' /\ Len(rLayers') = 5
         \/ rStep = "log request" /\ rStep' = "announce" /\ Len(rLayers') = 5 /\ UNCHANGED rValidated
         \/ /\ rStep = "announce" /\ rStep' = "execute" /\ Len(rLayers') = 6 /\ rLayers'[6].layer = 5
            /\ UNCHANGED rValidated
         \/ /\ rStep = "store" /\ rStep' = "select" /\ Len(rLayers') = 7 /\ UNCHANGED rValidated
            /\ OneFile(rMeasured),
         UNCHANGED <<nFile, rMeasured>>, rValidated' \in Seen, rLayers' \in Seq(AnyLayer)
  PROVE  RunInv'
<1>1. RunTyped'
  BY DEF RunInv, RunTyped, Steps, LogSteps, SaveSteps, CallSteps
<1>2. ~(Len(rLayers') > 7)
  <2>1. \E n \in {5, 6, 7} : Len(rLayers') = n
    OBVIOUS
  <2> QED
    BY <2>1, SevenAtMost, Zenon
<1>3. Settled'
  BY <1>2 DEF Settled, Scheduled
<1>4. LayersSoFar'
  BY DEF LayersSoFar
<1>5. BinariesInOrder'
  BY DEF RunInv, BinariesInOrder, ValidatedAlready, Stored, OneFile
<1>6. CallsOwned'
  BY DEF CallsOwned, Waits
<1> QED
  BY <1>1, <1>3, <1>4, <1>5, <1>6 DEF RunInv

LEMMA Prepares == NativeInv /\ RunInv /\ Prepared => NativeInv' /\ RunInv'
<1> SUFFICES ASSUME NativeInv, RunInv, Prepared PROVE NativeInv' /\ RunInv'
  OBVIOUS
<1>1. /\ NativeInv' /\ nOp = "idle" /\ nOp' = "idle" /\ rStep = "validating"
      /\ UNCHANGED <<nFile, rMeasured>>
  BY NativeIdle DEF Prepared, RunAt, nativeVars
<1>2. rLayers \in Seq(AnyLayer) /\ Len(rLayers) = 3
  BY <1>1 DEF RunInv, RunTyped, LayersSoFar
<1>3. nResult \in Result
  BY DEF NativeInv, NativeTypeOK, Result
<1>4. CASE nResult.state = "SUPPORTED"
  <2> DEFINE third == Recorded(rLayers, 3, "PASS")
  <2>1. rStep' = "log request" /\ rValidated' = nResult.identity.seen /\ rLayers' = Recorded(third, 4, "PASS")
    BY <1>4 DEF Prepared
  <2>2. third \in Seq(AnyLayer) /\ Len(third) = Len(rLayers) + 1
    BY <1>2, Recordable, RecordedLayers, Zenon
  <2> HIDE DEF third
  <2>3. rLayers' \in Seq(AnyLayer) /\ Len(rLayers') = Len(third) + 1
    BY <2>1, <2>2, Recordable, RecordedLayers, Zenon
  <2>4. Len(rLayers') = 5
    BY <1>2, <2>2, <2>3
  <2>5. OneFile(nSeen) /\ nResult.identity.seen = nSeen
    BY <1>4 DEF NativeInv, ResultSound
  <2>6. OneFile(rValidated)' /\ rValidated' \in Seen
    BY <1>1, <2>1, <2>5 DEF OneFile, NativeInv, NativeTypeOK
  <2>7. RunInv'
    BY <1>1, <2>1, <2>3, <2>4, <2>6, EarlyMoves
  <2> QED
    BY <1>1, <2>7
<1>5. CASE nResult.state # "SUPPORTED"
  <2>1. rStep' = "save" /\ rLayers' = Recorded(rLayers, 3, nResult.state) /\ UNCHANGED rValidated
    BY <1>5 DEF Prepared
  <2>2. nResult.state \in LayerState \cup ValidationState
    BY <1>3 DEF Result
  <2>3. rLayers' \in Seq(AnyLayer) /\ Len(rLayers') = Len(rLayers) + 1
    BY <1>2, <2>1, <2>2, Recordable, RecordedLayers, Zenon
  <2>4. Len(rLayers') <= 7
    BY <1>2, <2>3
  <2>5. RunInv'
    BY <1>1, <2>1, <2>3, <2>4, Moves
  <2> QED
    BY <1>1, <2>5
<1> QED
  BY <1>4, <1>5

LEMMA Logs == NativeInv /\ RunInv /\ Log => NativeInv' /\ RunInv'
<1> SUFFICES ASSUME NativeInv, RunInv, Log PROVE NativeInv' /\ RunInv'
  OBVIOUS
<1>1. /\ NativeInv' /\ nOp' = "idle" /\ UNCHANGED <<nFile, rLayers, rValidated, rMeasured>>
  BY NativeIdle DEF Log, nativeVars, seen_so_far
<1>2. rLayers \in Seq(AnyLayer) /\ rValidated \in Seen
  BY DEF RunInv, RunTyped
<1>3. CASE rStep = "log request"
  <2>1. rStep' = "announce" /\ Len(rLayers') = 5
    BY <1>1, <1>3 DEF Log, RunInv, LayersSoFar
  <2>2. RunInv'
    BY <1>1, <1>2, <1>3, <2>1, EarlyMoves
  <2> QED
    BY <1>1, <2>2
<1>4. CASE rStep # "log request"
  <2>1. rStep \in Scheduled /\ rStep' \in Scheduled /\ rStep' # "executing scheduled"
    BY <1>4 DEF Log, LogSteps, Scheduled
  <2>2. RunInv'
    BY <1>1, <1>2, <2>1, ScheduledIsSettled, ScheduledMoves
  <2> QED
    BY <1>1, <2>2
<1> QED
  BY <1>3, <1>4

LEMMA Announces == NativeInv /\ RunInv /\ Announce => NativeInv' /\ RunInv'
<1> SUFFICES ASSUME NativeInv, RunInv, Announce PROVE NativeInv' /\ RunInv'
  OBVIOUS
<1>1. /\ NativeInv' /\ nOp' = "idle" /\ UNCHANGED <<nFile, rValidated, rMeasured>>
  BY NativeIdle DEF Announce, RunAt, nativeVars, seen_so_far
<1>2. rLayers \in Seq(AnyLayer) /\ rValidated \in Seen
  BY DEF RunInv, RunTyped
<1>3. CASE rStep = "announce" /\ rStep' = "execute" /\ rLayers' = Recorded(rLayers, 5, "UNKNOWN")
  <2>1. Len(rLayers) = 5
    BY <1>3 DEF RunInv, LayersSoFar
  <2>2. /\ rLayers' \in Seq(AnyLayer) /\ Len(rLayers') = Len(rLayers) + 1
        /\ rLayers'[Len(rLayers) + 1].layer = 5
    BY <1>2, <1>3, Recordable, RecordedLayers, Zenon
  <2>3. Len(rLayers') = 6 /\ rLayers'[6].layer = 5
    BY <2>1, <2>2
  <2>4. RunInv'
    BY <1>1, <1>2, <1>3, <2>2, <2>3, EarlyMoves
  <2> QED
    BY <1>1, <2>4
<1>4. CASE /\ rStep = "announce scheduled" /\ rStep' = "execute scheduled"
           /\ rLayers' = Recorded(rLayers, 8, "UNKNOWN")
  <2>1. rLayers' \in Seq(AnyLayer)
    BY <1>2, <1>4, Recordable, RecordedLayers, Zenon
  <2>2. rStep \in Scheduled /\ rStep' \in Scheduled /\ rStep' # "executing scheduled"
    BY <1>4 DEF Scheduled
  <2>3. RunInv'
    BY <1>1, <2>1, <2>2, ScheduledIsSettled, ScheduledMoves
  <2> QED
    BY <1>1, <2>3
<1> QED
  BY <1>3, <1>4 DEF Announce, RunAt

LEMMA Executes == NativeInv /\ RunInv /\ Execute => NativeInv' /\ RunInv'
<1> SUFFICES ASSUME NativeInv, RunInv, Execute PROVE NativeInv' /\ RunInv'
  OBVIOUS
<1>1. CallAdapter("execute") /\ UNCHANGED <<rLayers, rValidated, rMeasured>>
  BY DEF Execute, seen_so_far
<1>2. NativeInv' /\ UNCHANGED nFile /\ nSeen'.stat = 0 /\ ~nRequest'.allowUnknown
  BY <1>1, CallBegins
<1>3. RunTyped
  BY DEF RunInv
<1>4. CASE rStep = "execute" /\ rStep' = "executing"
  <2>1. Len(rLayers') = 6 /\ rLayers'[6].layer = 5 /\ OneFile(rValidated)'
    BY <1>1, <1>2, <1>4 DEF RunInv, LayersSoFar, BinariesInOrder, ValidatedAlready, OneFile
  <2>2. RunTyped'
    BY <1>1, <1>3, <1>4 DEF RunTyped, Steps, Waits
  <2>3. ~(Len(rLayers') > 7)
    BY <2>1
  <2>4. Settled'
    BY <1>4, <2>3 DEF Settled, Scheduled
  <2>5. LayersSoFar' /\ CallsOwned'
    BY <1>2, <1>4, <2>1 DEF LayersSoFar, CallsOwned, Waits
  <2>6. BinariesInOrder'
    BY <1>2, <1>4, <2>1 DEF BinariesInOrder, Stored
  <2> QED
    BY <1>2, <2>2, <2>4, <2>5, <2>6 DEF RunInv
<1>5. CASE rStep = "execute scheduled" /\ rStep' = "executing scheduled"
  <2>1. rStep \in Scheduled /\ rStep' \in Scheduled /\ rLayers' \in Seq(AnyLayer)
    BY <1>1, <1>3, <1>5 DEF Scheduled, RunTyped
  <2>2. RunInv'
    BY <1>1, <1>2, <1>5, <2>1, ScheduledIsSettled, ScheduledMoves
  <2> QED
    BY <1>2, <2>2
<1> QED
  BY <1>4, <1>5 DEF Execute, RunAt

\* What was executed was the binary as the call saw it, never an earlier one than
\* the validated.
LEMMA Executions == NativeInv /\ RunInv /\ Executed => NativeInv' /\ RunInv'
<1> SUFFICES ASSUME NativeInv, RunInv, Executed PROVE NativeInv' /\ RunInv'
  OBVIOUS
<1>1. /\ NativeInv' /\ nOp' = "idle" /\ UNCHANGED <<nFile, nSeen, rValidated>>
      /\ rStep \in {"executing", "executing scheduled"}
  BY NativeIdle DEF Executed, nativeVars
<1>2. rLayers \in Seq(AnyLayer) /\ rValidated \in Seen /\ rMeasured \in Seen
  BY DEF RunInv, RunTyped
<1>3. "PASS" \in LayerState /\ FailureState \in LayerState
  BY DEF LayerState, FailureState
<1>4. CASE rStep = "executing scheduled"
  <2>1. PICK state \in LayerState : rLayers' = SetLayer(rLayers, 8, state)
    BY <1>3, <1>4 DEF Executed
  <2>2. rLayers' \in Seq(AnyLayer)
    BY <1>2, <2>1, Recordable, SetLayers, Zenon
  <2> DEFINE layer == IF rStep = "executing" THEN 5 ELSE 8
  <2>3. layer = 8
    BY <1>4
  <2> HIDE DEF layer
  <2>4. IF nResult.outcome = "success"
        THEN /\ rStep' = IF layer = 5 THEN "store" ELSE "log observation"
             /\ rMeasured' = IF layer = 5 THEN nResult.identity.seen ELSE rMeasured
        ELSE rStep' = "save" /\ UNCHANGED rMeasured
    BY Zenon DEF Executed, layer
  <2>5. rStep' \in {"log observation", "save"} /\ UNCHANGED rMeasured
    <3>1. layer # 5
      BY <2>3
    <3> QED
      BY <2>4, <3>1, Zenon
  <2>6. /\ rStep' \in {"log observation", "save"} /\ UNCHANGED rMeasured /\ rStep \in Scheduled
        /\ rStep' # "executing scheduled"
    BY <1>4, <2>5 DEF Scheduled
  <2>7. rStep' \in Scheduled \cup {"idle", "save"}
    BY <2>6 DEF Scheduled
  <2>8. RunInv'
    BY <1>1, <2>2, <2>6, <2>7, ScheduledIsSettled, ScheduledMoves
  <2> QED
    BY <1>1, <2>8
<1>5. CASE rStep = "executing"
  <2>1. PICK state \in LayerState : rLayers' = SetLayer(rLayers, 5, state)
    BY <1>3, <1>5 DEF Executed
  <2>2. Len(rLayers) = 6 /\ rLayers[6].layer = 5 /\ OneFile(rValidated)
    BY <1>5 DEF RunInv, LayersSoFar, BinariesInOrder, ValidatedAlready
  <2>3. 6 \in DOMAIN rLayers
    BY <1>2, <2>2, LenProperties
  <2>4. rLayers' \in Seq(AnyLayer) /\ Len(rLayers') = Len(rLayers)
    BY <1>2, <2>1, <2>2, <2>3, Recordable, SetLayers, Zenon
  <2>5. Len(rLayers') = 6
    BY <2>2, <2>4
  <2>6. Len(rLayers') <= 7 /\ ~(Len(rLayers') > 7)
    BY <2>5
  <2>7. CASE nResult.outcome # "success"
    <3>1. rStep' = "save" /\ UNCHANGED rMeasured
      BY <1>5, <2>7 DEF Executed
    <3>2. RunInv'
      BY <1>1, <2>4, <2>6, <3>1, Moves
    <3> QED
      BY <1>1, <3>2
  <2>8. CASE nResult.outcome = "success"
    <3>1. rStep' = "store" /\ rMeasured' = nResult.identity.seen
      BY <1>5, <2>8 DEF Executed
    <3>2. ~nRequest.allowUnknown
      BY <1>5 DEF RunInv, CallsOwned, Waits
    <3>3. OneFile(nSeen) /\ nResult.identity.seen = nSeen
      BY <2>8, <3>2 DEF NativeInv, ResultSound
    <3>4. OneFile(rMeasured)' /\ OneFile(rValidated)' /\ rMeasured' \in Seen
      BY <1>1, <2>2, <3>1, <3>3 DEF OneFile, NativeInv, NativeTypeOK
    <3>5. nSeen.stat # 0
      BY <3>3, NumbersTyped DEF OneFile, NativeInv
    <3>6. rValidated.stat <= nSeen.stat
      BY <1>5, <3>5 DEF RunInv, BinariesInOrder
    <3>7. BinariesInOrder'
      BY <1>1, <3>1, <3>3, <3>4, <3>6 DEF BinariesInOrder
    <3>8. RunTyped' /\ LayersSoFar' /\ CallsOwned'
      BY <1>1, <1>2, <2>4, <2>5, <3>1, <3>4 DEF RunTyped, Steps, LayersSoFar, CallsOwned, Waits
    <3>9. Settled'
      BY <2>6, <3>1 DEF Settled, Scheduled
    <3> QED
      BY <1>1, <3>7, <3>8, <3>9 DEF RunInv
  <2> QED
    BY <2>7, <2>8
<1> QED
  BY <1>1, <1>4, <1>5

LEMMA Stores == NativeInv /\ RunInv /\ Store => NativeInv' /\ RunInv'
<1> SUFFICES ASSUME NativeInv, RunInv, Store PROVE NativeInv' /\ RunInv'
  OBVIOUS
<1>1. /\ NativeInv' /\ nOp' = "idle" /\ UNCHANGED <<nFile, rValidated, rMeasured>> /\ rStep = "store"
  BY NativeIdle DEF Store, RunAt, nativeVars, seen_so_far
<1>2. rLayers \in Seq(AnyLayer) /\ rValidated \in Seen /\ Len(rLayers) = 6 /\ OneFile(rMeasured)
  BY <1>1 DEF RunInv, RunTyped, LayersSoFar, BinariesInOrder, Stored
<1>3. \/ rStep' = "select" /\ rLayers' = Recorded(rLayers, 6, "PASS")
      \/ rStep' = "save" /\ rLayers' = Recorded(rLayers, 6, "FAIL_SYSTEM")
  BY DEF Store
<1>4. rLayers' \in Seq(AnyLayer) /\ Len(rLayers') = Len(rLayers) + 1
  <2>1. CASE rLayers' = Recorded(rLayers, 6, "PASS")
    BY <1>2, <2>1, Recordable, RecordedLayers, Zenon
  <2>2. CASE rLayers' = Recorded(rLayers, 6, "FAIL_SYSTEM")
    BY <1>2, <2>2, Recordable, RecordedLayers, Zenon
  <2> QED
    BY <1>3, <2>1, <2>2
<1>5. Len(rLayers') = 7
  BY <1>2, <1>4
<1>6. Len(rLayers') <= 7
  BY <1>5
<1>7. CASE rStep' = "select"
  <2>1. RunInv'
    BY <1>1, <1>2, <1>4, <1>5, <1>7, EarlyMoves
  <2> QED
    BY <1>1, <2>1
<1>8. CASE rStep' = "save"
  <2>1. RunInv'
    BY <1>1, <1>4, <1>6, <1>8, Moves
  <2> QED
    BY <1>1, <2>1
<1> QED
  BY <1>3, <1>7, <1>8

LEMMA Selects == NativeInv /\ RunInv /\ SelectPlan => NativeInv' /\ RunInv'
<1> SUFFICES ASSUME NativeInv, RunInv, SelectPlan PROVE NativeInv' /\ RunInv'
  OBVIOUS
<1>1. /\ CallAdapter("identity") /\ UNCHANGED <<rLayers, rValidated, rMeasured>>
      /\ rStep = "select" /\ rStep' = "identifying"
  BY DEF SelectPlan, RunAt, seen_so_far
<1>2. NativeInv' /\ UNCHANGED nFile /\ nSeen'.stat = 0 /\ ~nRequest'.allowUnknown
  BY <1>1, CallBegins
<1>3. RunTyped'
  BY <1>1 DEF RunInv, RunTyped, Steps, Waits
<1>4. Len(rLayers') = 7
  BY <1>1 DEF RunInv, LayersSoFar
<1>5. ~(Len(rLayers') > 7)
  BY <1>4
<1>6. Settled'
  BY <1>1, <1>5 DEF Settled, Scheduled
<1>7. LayersSoFar' /\ CallsOwned'
  BY <1>1, <1>2, <1>4 DEF LayersSoFar, CallsOwned, Waits
<1>8. BinariesInOrder'
  BY <1>1, <1>2 DEF RunInv, BinariesInOrder, ValidatedAlready, Stored, OneFile
<1> QED
  BY <1>2, <1>3, <1>6, <1>7, <1>8 DEF RunInv

\* The scheduler finds the validated build again: what was measured is of it too,
\* or lies between two files of that build.
LEMMA Selections == NativeInv /\ RunInv /\ Selected => NativeInv' /\ RunInv'
<1> SUFFICES ASSUME NativeInv, RunInv, Selected PROVE NativeInv' /\ RunInv'
  OBVIOUS
<1>1. /\ NativeInv' /\ nOp' = "idle" /\ UNCHANGED <<nFile, rValidated, rMeasured>>
      /\ rStep = "identifying"
  BY NativeIdle DEF Selected, RunAt, nativeVars, seen_so_far
<1>2. rLayers \in Seq(AnyLayer) /\ rValidated \in Seen /\ rMeasured \in Seen /\ Len(rLayers) = 7
  BY <1>1 DEF RunInv, RunTyped, LayersSoFar
<1>3. CASE SameRuntime
  <2>1. rStep' = "log decision" /\ rLayers' = Recorded(rLayers, 7, "PASS")
    BY <1>3 DEF Selected
  <2>2. rLayers' \in Seq(AnyLayer)
    BY <1>2, <2>1, Recordable, RecordedLayers, Zenon
  <2>3. OneFile(nSeen) /\ IdentityOf(nSeen) = IdentityOf(rValidated)
    BY <1>3 DEF SameRuntime, NativeInv, ResultSound
  <2>4. OneFile(rValidated) /\ OneFile(rMeasured) /\ rValidated.stat <= rMeasured.stat
    BY <1>1 DEF RunInv, BinariesInOrder, ValidatedAlready, Stored
  <2>5. nSeen \in Seen
    BY DEF NativeInv, NativeTypeOK
  <2>6. nSeen.stat \in Nat /\ rValidated.stat \in Nat /\ rMeasured.stat \in Nat
    BY <1>2, <2>5, NativeAssumption DEF Seen
  <2>7. nFile.number \in 1..MaxFiles /\ MaxFiles \in Nat
    BY NativeAssumption DEF NativeInv, NativeTypeOK
  <2>8. rMeasured.stat <= nSeen.stat
    BY <1>1, <2>3, <2>6 DEF RunInv, BinariesInOrder, OneFile
  <2>9. nSeen.stat \in 1..MaxFiles /\ rValidated.stat \in 1..MaxFiles
    BY <2>3, <2>4, <2>6, <2>7 DEF OneFile
  <2>10. Binaries[nSeen.stat] = Binaries[rValidated.stat]
    <3>1. /\ Binaries[nSeen.stat] \in [digest: Nat, version: Nat]
          /\ Binaries[rValidated.stat] \in [digest: Nat, version: Nat]
      BY <2>9, NativeAssumption
    <3>2. /\ Binaries[nSeen.stat].digest = Binaries[rValidated.stat].digest
          /\ Binaries[nSeen.stat].version = Binaries[rValidated.stat].version
      BY <2>3, <2>4 DEF IdentityOf, OneFile
    <3> QED
      BY <3>1, <3>2
  <2>11. IdentityOf(rMeasured) = IdentityOf(rValidated) \/ RolledBack
    <3>1. CASE rMeasured.stat \in {rValidated.stat, nSeen.stat}
      BY <2>3, <2>4, <3>1 DEF IdentityOf, OneFile
    <3>2. CASE rMeasured.stat \notin {rValidated.stat, nSeen.stat}
      <4>1. rValidated.hash < rMeasured.hash
        BY <2>4, <2>6, <3>2 DEF OneFile
      <4>2. nSeen.stat \in (rMeasured.hash + 1)..nFile.number
        BY <2>3, <2>4, <2>6, <2>7, <2>8, <3>2 DEF OneFile
      <4>3. Binaries[nSeen.stat] = Binaries[rValidated.hash]
        BY <2>4, <2>10 DEF OneFile
      <4> QED
        BY <4>1, <4>2, <4>3 DEF RolledBack
    <3> QED
      BY <3>1, <3>2
  <2>12. OneBuild
    BY <2>4, <2>11 DEF OneBuild, OneFile
  <2>13. rStep' \in Scheduled /\ rStep' # "executing scheduled"
    BY <2>1 DEF Scheduled
  <2>14. RunInv'
    BY <1>1, <2>2, <2>12, <2>13, ScheduledMoves
  <2> QED
    BY <1>1, <2>14
<1>4. CASE ~SameRuntime
  <2>1. rStep' = "idle" /\ UNCHANGED rLayers
    BY <1>4 DEF Selected
  <2>2. Len(rLayers') = 7
    BY <1>2, <2>1
  <2>3. Len(rLayers') <= 7
    BY <2>2
  <2>4. RunInv'
    BY <1>1, <1>2, <2>1, <2>3, Moves
  <2> QED
    BY <1>1, <2>4
<1> QED
  BY <1>3, <1>4

LEMMA RunsEnd == NativeInv /\ RunInv /\ (Finish \/ SaveFailed \/ Dies) => NativeInv' /\ RunInv'
<1> SUFFICES ASSUME NativeInv, RunInv, Finish \/ SaveFailed \/ Dies PROVE NativeInv' /\ RunInv'
  OBVIOUS
<1>1. /\ NativeInv' /\ nOp' = "idle" /\ UNCHANGED <<nFile, rValidated, rMeasured>> /\ rStep' = "idle"
  BY NativeIdle DEF Finish, SaveFailed, Dies, RunAt, nativeVars, seen_so_far
<1>2. rLayers \in Seq(AnyLayer) /\ Len(rLayers) \in Nat
  BY LenProperties DEF RunInv, RunTyped
<1>3. CASE Finish
  <2> DEFINE persisted == Recorded(rLayers, 9, "PASS")
  <2>1. persisted \in Seq(AnyLayer)
    BY <1>2, Recordable, RecordedLayers, Zenon
  <2>2. rLayers' = persisted \/ rLayers' = Recorded(persisted, 10, "PASS")
    BY <1>3 DEF Finish
  <2> HIDE DEF persisted
  <2>3. rLayers' \in Seq(AnyLayer)
    <3>1. Recorded(persisted, 10, "PASS") \in Seq(AnyLayer)
      BY <2>1, Recordable, RecordedLayers, Zenon
    <3> QED
      BY <2>1, <2>2, <3>1
  <2>4. OneBuild
    BY <1>3, ScheduledIsSettled DEF Finish, RunAt, Scheduled
  <2>5. RunInv'
    BY <1>1, <2>3, <2>4, ScheduledMoves
  <2> QED
    BY <1>1, <2>5
<1>4. CASE SaveFailed \/ Dies
  <2>1. UNCHANGED rLayers
    BY <1>4 DEF SaveFailed, Dies
  <2>2. Len(rLayers) <= 7 \/ OneBuild
    BY <1>2 DEF RunInv, Settled
  <2>3. RunInv'
    BY <1>1, <1>2, <2>1, <2>2, Moves
  <2> QED
    BY <1>1, <2>3
<1> QED
  BY <1>3, <1>4

\* Every step of a run, of the adapter and of the world keeps both invariants.
LEMMA RunInvNext ==
  NativeInv /\ RunInv /\ [ReferenceNext]_referenceVars => NativeInv' /\ RunInv'
<1> SUFFICES ASSUME NativeInv, RunInv, [ReferenceNext]_referenceVars PROVE NativeInv' /\ RunInv'
  OBVIOUS
<1>1. CASE RunStep
  BY <1>1, Discovers, Prepares, Logs, Announces, Executes, Executions, Stores, Selects, Selections,
     RunsEnd DEF RunStep
<1>2. CASE Start \/ Dies
  BY <1>2, Starts, RunsEnd
<1>3. CASE AroundIt
  <2>1. NativeInv'
    BY <1>3, NativeStepKeeps DEF AroundIt
  <2> QED
    BY <1>3, <2>1, AroundKeepsRun
<1>4. CASE UNCHANGED referenceVars
  <2>1. NativeInv'
    BY <1>4, NativeIdle DEF referenceVars
  <2>2. RunInv'
    <3>1. RunTyped' /\ LayersSoFar'
      BY <1>4 DEF referenceVars, RunInv, RunTyped, LayersSoFar
    <3>2. CallsOwned'
      BY <1>4 DEF referenceVars, nativeVars, RunInv, CallsOwned
    <3>3. BinariesInOrder'
      BY <1>4 DEF referenceVars, nativeVars, RunInv, BinariesInOrder, OneFile
    <3>4. Settled'
      BY <1>4 DEF referenceVars, nativeVars, RunInv, Settled, OneBuild, IdentityOf, RolledBack
    <3> QED
      BY <3>1, <3>2, <3>3, <3>4 DEF RunInv
  <2> QED
    BY <2>1, <2>2
<1> QED
  BY <1>1, <1>2, <1>3, <1>4 DEF ReferenceNext

LEMMA ReferenceInvariant == ReferenceSpec => [](NativeInv /\ RunInv)
<1>1. ReferenceInit => NativeInv /\ RunInv
  BY NativeInvInit, RunInvInit DEF ReferenceInit
<1> QED
  BY <1>1, RunInvNext, PTL DEF ReferenceSpec

\* A reference run that passes its scheduling layer (prepare, direct, benchmark
\* and scheduled) has validated one file and measured one file, each hashed and
\* probed without another in between; and both are of one build unless the
\* measured one came later and was rolled back, whatever files there are and
\* whenever they are replaced.
THEOREM OneBuildMeasured == ReferenceSpec => []OneBuildUnlessRolledBack
<1>1. RunInv => OneBuildUnlessRolledBack
  BY DEF RunInv, Settled, OneBuild, OneBuildUnlessRolledBack
<1> QED
  BY <1>1, ReferenceInvariant, PTL

\* Nor does a run leave a version probe behind on posix (the calls of identity,
\* validate and execute it makes).
THEOREM NoProbeLeftByRun == ReferenceSpec => []NoProbeLeft
BY ReferenceInvariant, ProbeGone, PTL

-----------------------------------------------------------------------------
(* The report: every layer it tells of is recorded in its order, and what   *)
(* the layers rest on is in the two other files, whatever else is there and *)
(* however it ends.                                                         *)

\* A line of a run, and one that says what its k-th event says.
Mine(line, run) == line # TornLine /\ line.run = run
Said == LogSteps \cup {"measured"}
LineOf(run) == {TornLine} \cup [run: 1..run, says: Said]

\* Where the first n events of a run are: nothing of it is before any of them
\* but those that precede it.
Places(lines, run, n) ==
  {at \in [1..n -> DOMAIN lines] :
     /\ \A k \in 1..n : Mine(lines[at[k]], run) /\ lines[at[k]].says = Logged[k]
     /\ \A j, k \in 1..n : j < k => at[j] < at[k]}
LogBegins(lines, run, n) ==
  \E at \in Places(lines, run, n) : \A k \in 1..n : \A i \in DOMAIN lines :
    Mine(lines[i], run) /\ i < at[k] => \E j \in 1..n : at[j] = i
\* There are no others.
LogIs(lines, run, n) ==
  \E at \in Places(lines, run, n) : \A i \in DOMAIN lines :
    Mine(lines[i], run) => \E j \in 1..n : at[j] = i

Measured(lines, run) == \E i \in DOMAIN lines : Mine(lines[i], run)

\* Layers that follow one another, passed but for the last one.
Chain(layers) ==
  /\ \A i \in DOMAIN layers : layers[i].layer = i - 1
  /\ \A i \in 1..(Len(layers) - 1) : layers[i].state = "PASS"
Passed(layers) == layers[Len(layers)].state = "PASS"

\* How many layers, and how many events, a run has recorded by a step.
LayersAt(step) ==
  CASE step = "discover" -> 2
    [] step = "validating" -> 3
    [] step \in {"log request", "announce"} -> 5
    [] step \in {"execute", "executing", "store"} -> 6
    [] step \in {"select", "identifying"} -> 7
    [] step \in {"log decision", "log scheduled request", "announce scheduled"} -> 8
    [] OTHER -> 9
EventsAt(step) ==
  CASE step \in {"discover", "validating", "log request"} -> 0
    [] step \in {"log scheduled request"} -> 2
    [] step \in {"announce scheduled", "execute scheduled", "executing scheduled", "log observation"} -> 3
    [] step = "finish" -> 4
    [] OTHER -> 1
UnderWay == {"execute", "executing", "execute scheduled", "executing scheduled"}

\* The layers of a run that is under way, and of one that failed.
RunLayers(step, layers) ==
  /\ step # "idle" => Chain(layers)
  /\ step \notin {"idle", "save"} =>
       Len(layers) = LayersAt(step) /\ (step \notin UnderWay => Passed(layers))
  /\ step = "save" => Len(layers) \in {4, 6, 7, 9} /\ (Len(layers) = 7 => ~Passed(layers))

\* Its events, as long as the log can be read, and its measurement.
EventsDone(step, layers) == IF step = "save" THEN LoggedBy(Len(layers) - 1) ELSE EventsAt(step)
RunEvents(step, layers, run, lines) ==
  step # "idle" /\ Readable(lines) => LogIs(lines, run, EventsDone(step, layers))
RunStored(step, layers, run, lines) ==
  (step \in {"select", "identifying"} \cup Scheduled \/ (step = "save" /\ Len(layers) > 7)) =>
    Measured(lines, run)

\* A report that was saved.
ReportRight(report, events, benchmarks) ==
  LET layers == report.layers
      reached == Len(layers) - 1
  IN report.run > 0 =>
       /\ layers \in Seq(AnyLayer) /\ Chain(layers)
       /\ (reached > 6 \/ (reached = 6 /\ layers[7].state = "PASS")) => Measured(benchmarks, report.run)
       /\ (reached = 10 \/ Readable(events)) => LogBegins(events, report.run, LoggedBy(reached))

\* The inductive invariant, with that of the run.
ReportInv ==
  /\ rRun \in Nat /\ (rStep # "idle" => rRun >= 1)
  /\ rEvents \in Seq(LineOf(rRun)) /\ rBenchmarks \in Seq(LineOf(rRun))
  /\ RunLayers(rStep, rLayers)
  /\ RunEvents(rStep, rLayers, rRun, rEvents)
  /\ RunStored(rStep, rLayers, rRun, rBenchmarks)
  /\ ReportRight(rReport, rEvents, rBenchmarks)

\* A file that holds what another one does, and possibly more.
Longer(lines, more) ==
  Len(lines) <= Len(more) /\ \A i \in 1..Len(lines) : more[i] = lines[i]

\* A line of a run is not what is left of a torn one.
LEMMA EventWhole ==
  ASSUME NEW run, NEW says
  PROVE  [run |-> run, says |-> says] # TornLine
<1>1. "says" \in DOMAIN [run |-> run, says |-> says]
  OBVIOUS
<1>2. "says" \notin DOMAIN TornLine
  BY DEF TornLine
<1> QED
  BY <1>1, <1>2

LEMMA LineMade ==
  ASSUME NEW run \in Nat, run >= 1, NEW says \in Said
  PROVE  LET line == [run |-> run, says |-> says]
         IN line \in LineOf(run) /\ Mine(line, run) /\ line.says = says
<1>1. [run |-> run, says |-> says] # TornLine
  BY EventWhole
<1>2. [run |-> run, says |-> says] \in [run: 1..run, says: Said]
  OBVIOUS
<1>3. [run |-> run, says |-> says].run = run /\ [run |-> run, says |-> says].says = says
  OBVIOUS
<1> QED
  BY <1>1, <1>2, <1>3 DEF LineOf, Mine

\* What begins a log, and a measurement, stay where they are.
LEMMA LongerKeeps ==
  ASSUME NEW L, NEW lines \in Seq(L), NEW more \in Seq(L), Longer(lines, more), NEW run, NEW n
  PROVE  /\ LogBegins(lines, run, n) => LogBegins(more, run, n)
         /\ Measured(lines, run) => Measured(more, run)
         /\ Readable(more) => Readable(lines)
<1>1. /\ DOMAIN lines = 1..Len(lines) /\ DOMAIN more = 1..Len(more)
      /\ Len(lines) \in Nat /\ Len(more) \in Nat
  OBVIOUS
<1>2. DOMAIN lines \subseteq DOMAIN more /\ \A i \in DOMAIN lines : more[i] = lines[i]
  BY <1>1 DEF Longer
<1>3. ASSUME LogBegins(lines, run, n) PROVE LogBegins(more, run, n)
  <2>1. PICK at \in Places(lines, run, n) : \A k \in 1..n : \A i \in DOMAIN lines :
          Mine(lines[i], run) /\ i < at[k] => \E j \in 1..n : at[j] = i
    BY <1>3 DEF LogBegins
  <2>2. at \in [1..n -> DOMAIN lines] /\ at \in Places(more, run, n)
    BY <1>2 DEF Places
  <2>3. ASSUME NEW k \in 1..n, NEW i \in DOMAIN more, Mine(more[i], run), i < at[k]
        PROVE  \E j \in 1..n : at[j] = i
    <3>1. at[k] \in DOMAIN lines
      BY <2>2
    <3>2. i \in DOMAIN lines
      BY <1>1, <2>3, <3>1
    <3> QED
      BY <1>2, <2>1, <2>3, <3>2
  <2> QED
    BY <2>2, <2>3 DEF LogBegins
<1>4. ASSUME Measured(lines, run) PROVE Measured(more, run)
  BY <1>2, <1>4 DEF Measured
<1>5. ASSUME Readable(more) PROVE Readable(lines)
  BY <1>2, <1>5 DEF Readable
<1> QED
  BY <1>3, <1>4, <1>5

\* All of a log begins it.
LEMMA AllBegins ==
  ASSUME NEW lines, NEW run, NEW n, LogIs(lines, run, n)
  PROVE  LogBegins(lines, run, n)
BY DEF LogIs, LogBegins

\* Nothing is logged yet of a run that has not started.
LEMMA NothingLogged ==
  ASSUME NEW run \in Nat, NEW lines \in Seq(LineOf(run))
  PROVE  LogIs(lines, run + 1, 0)
<1> DEFINE L == LineOf(run)
<1>1. \A line \in L : ~Mine(line, run + 1)
  BY DEF LineOf, Mine
<1> HIDE DEF L
<1>2. \A i \in DOMAIN lines : lines[i] \in L
  <2>1. lines \in Seq(L)
    BY DEF L
  <2> QED
    BY <2>1
<1>3. <<>> \in [1..0 -> DOMAIN lines]
  OBVIOUS
<1>4. <<>> \in Places(lines, run + 1, 0)
  BY <1>3 DEF Places
<1> QED
  BY <1>1, <1>2, <1>4 DEF LogIs

\* The next event is where it was appended.
LEMMA NextLogged ==
  ASSUME NEW L, NEW lines \in Seq(L), NEW line \in L, NEW run, NEW n \in Nat,
         LogIs(lines, run, n), Mine(line, run), line.says = Logged[n + 1]
  PROVE  LogIs(Append(lines, line), run, n + 1)
<1> DEFINE more == Append(lines, line)
           last == Len(lines) + 1
<1>1. /\ more \in Seq(L) /\ Len(more) = last /\ more[last] = line
      /\ \A i \in 1..Len(lines) : more[i] = lines[i]
      /\ Len(lines) \in Nat
  OBVIOUS
<1>2. DOMAIN more = 1..last /\ DOMAIN lines = 1..Len(lines)
  BY <1>1
<1>3. PICK at \in Places(lines, run, n) :
        \A i \in DOMAIN lines : Mine(lines[i], run) => \E j \in 1..n : at[j] = i
  BY DEF LogIs
<1>4. /\ at \in [1..n -> DOMAIN lines]
      /\ \A k \in 1..n : Mine(lines[at[k]], run) /\ lines[at[k]].says = Logged[k]
      /\ \A j, k \in 1..n : j < k => at[j] < at[k]
  BY <1>3 DEF Places
<1> DEFINE then == [k \in 1..(n + 1) |-> IF k = n + 1 THEN last ELSE at[k]]
<1> HIDE DEF more, last
<1>5. last = Len(lines) + 1
  BY DEF last
<1>6. \A k \in 1..(n + 1) : k = n + 1 \/ k \in 1..n
  OBVIOUS
<1>7. \A k \in 1..n : k \in 1..(n + 1) /\ k # n + 1
  OBVIOUS
<1>8. /\ n + 1 \in 1..(n + 1) /\ then[n + 1] = last
      /\ \A k \in 1..n : then[k] = at[k] /\ at[k] \in 1..Len(lines) /\ more[at[k]] = lines[at[k]]
  <2>1. n + 1 \in 1..(n + 1) /\ then[n + 1] = last
    BY <1>1
  <2>2. ASSUME NEW k \in 1..n
        PROVE  then[k] = at[k] /\ at[k] \in 1..Len(lines) /\ more[at[k]] = lines[at[k]]
    <3>1. at[k] \in 1..Len(lines)
      BY <1>2, <1>4
    <3>2. then[k] = at[k]
      BY <1>7
    <3> QED
      BY <1>1, <3>1, <3>2
  <2> QED
    BY <2>1, <2>2
<1>9. then \in [1..(n + 1) -> DOMAIN more]
  <2>1. last \in 1..last /\ \A i \in 1..Len(lines) : i \in 1..last
    BY <1>1, <1>5
  <2>2. \A k \in 1..(n + 1) : then[k] \in DOMAIN more
    BY <1>2, <1>6, <1>8, <2>1
  <2> QED
    BY <2>2
<1> HIDE DEF then
<1>10. \A k \in 1..(n + 1) : Mine(more[then[k]], run) /\ more[then[k]].says = Logged[k]
  <2> SUFFICES ASSUME NEW k \in 1..(n + 1)
               PROVE  Mine(more[then[k]], run) /\ more[then[k]].says = Logged[k]
    OBVIOUS
  <2>1. CASE k = n + 1
    BY <1>1, <1>8, <2>1
  <2>2. CASE k \in 1..n
    BY <1>4, <1>8, <2>2
  <2> QED
    BY <1>6, <2>1, <2>2
<1>11. \A j, k \in 1..(n + 1) : j < k => then[j] < then[k]
  <2> SUFFICES ASSUME NEW j \in 1..(n + 1), NEW k \in 1..(n + 1), j < k PROVE then[j] < then[k]
    OBVIOUS
  <2>1. j \in 1..n
    OBVIOUS
  <2>2. CASE k = n + 1
    <3>1. at[j] \in 1..Len(lines) /\ then[j] = at[j] /\ then[k] = last
      BY <1>8, <2>1, <2>2
    <3> QED
      BY <1>1, <1>5, <3>1
  <2>3. CASE k \in 1..n
    BY <1>4, <1>8, <2>1, <2>3
  <2> QED
    BY <1>6, <2>2, <2>3
<1>12. then \in Places(more, run, n + 1)
  BY <1>9, <1>10, <1>11 DEF Places
<1>13. \A i \in DOMAIN more : Mine(more[i], run) => \E j \in 1..(n + 1) : then[j] = i
  <2> SUFFICES ASSUME NEW i \in DOMAIN more, Mine(more[i], run) PROVE \E j \in 1..(n + 1) : then[j] = i
    OBVIOUS
  <2>1. CASE i = last
    BY <1>8, <2>1
  <2>2. CASE i # last
    <3>1. i \in 1..Len(lines)
      BY <1>1, <1>2, <1>5, <2>2
    <3>2. PICK j \in 1..n : at[j] = i
      BY <1>1, <1>2, <1>3, <3>1
    <3> QED
      BY <1>7, <1>8, <3>2
  <2> QED
    BY <2>1, <2>2
<1> QED
  BY <1>12, <1>13 DEF LogIs, more

\* Appending to a file, whether it is torn or not.
LEMMA AppendedLonger ==
  ASSUME NEW L, NEW lines \in Seq(L), NEW line \in L
  PROVE  /\ Appended(lines, line) \in Seq(L) /\ Longer(lines, Appended(lines, line))
         /\ Readable(Appended(lines, line)) => Appended(lines, line) = Append(lines, line)
<1>1. CASE lines # <<>> /\ lines[Len(lines)] = TornLine
  <2>1. Len(lines) \in DOMAIN lines /\ Appended(lines, line) = lines /\ Len(lines) \in Nat
    BY <1>1 DEF Appended
  <2> QED
    BY <1>1, <2>1 DEF Longer, Readable
<1>2. CASE ~(lines # <<>> /\ lines[Len(lines)] = TornLine)
  <2>1. Appended(lines, line) = Append(lines, line)
    BY <1>2 DEF Appended
  <2>2. /\ Append(lines, line) \in Seq(L) /\ Len(Append(lines, line)) = Len(lines) + 1
        /\ \A i \in 1..Len(lines) : Append(lines, line)[i] = lines[i]
        /\ Len(lines) \in Nat
    OBVIOUS
  <2> QED
    BY <2>1, <2>2 DEF Longer
<1> QED
  BY <1>1, <1>2

\* So is an append that was cut short.
LEMMA CutShortLonger ==
  ASSUME NEW L, TornLine \in L, NEW lines \in Seq(L), NEW more \in CutShort(lines)
  PROVE  more \in Seq(L) /\ Longer(lines, more)
<1>1. Appended(lines, TornLine) \in Seq(L) /\ Longer(lines, Appended(lines, TornLine))
  BY AppendedLonger
<1>2. Longer(lines, lines)
  BY DEF Longer
<1> QED
  BY <1>1, <1>2 DEF CutShort

\* Files of earlier runs are files of later ones.
LEMMA LinesLater ==
  ASSUME NEW run \in Nat, NEW lines \in Seq(LineOf(run))
  PROVE  lines \in Seq(LineOf(run + 1))
<1>1. LineOf(run) \subseteq LineOf(run + 1)
  BY DEF LineOf
<1> DEFINE L == LineOf(run)
           M == LineOf(run + 1)
<1> HIDE DEF L, M
<1>2. lines \in Seq(L) /\ L \subseteq M
  BY <1>1 DEF L, M
<1>3. lines \in Seq(M)
  BY <1>2
<1> QED
  BY <1>3 DEF M

\* A layer is recorded after those that passed.
LEMMA RecordedChain ==
  ASSUME NEW layers \in Seq(AnyLayer), NEW layer \in 0..10, layer = Len(layers),
         NEW state \in LayerState \cup ValidationState, Chain(layers), layers = <<>> \/ Passed(layers)
  PROVE  LET more == Recorded(layers, layer, state)
         IN /\ more \in Seq(AnyLayer) /\ Len(more) = Len(layers) + 1 /\ Chain(more)
            /\ Passed(more) = (state = "PASS")
<1> DEFINE A == AnyLayer
           one == [layer |-> layer, state |-> state]
           more == Append(layers, one)
<1>1. one \in A
  BY DEF AnyLayer
<1>2. one.layer = layer /\ one.state = state
  OBVIOUS
<1> HIDE DEF A, one
<1>3. layers \in Seq(A)
  BY DEF A
<1>4. /\ more \in Seq(A) /\ Len(more) = Len(layers) + 1 /\ more[Len(layers) + 1] = one
      /\ \A i \in 1..Len(layers) : more[i] = layers[i]
      /\ Len(layers) \in Nat /\ DOMAIN layers = 1..Len(layers)
  BY <1>1, <1>3
<1>5. DOMAIN more = 1..(Len(layers) + 1)
  BY <1>4
<1> HIDE DEF more
<1>6. \A i \in DOMAIN more : more[i].layer = i - 1
  <2> SUFFICES ASSUME NEW i \in DOMAIN more PROVE more[i].layer = i - 1
    OBVIOUS
  <2>1. CASE i \in 1..Len(layers)
    BY <1>4, <2>1 DEF Chain
  <2>2. CASE i = Len(layers) + 1
    BY <1>2, <1>4, <2>2
  <2> QED
    BY <1>4, <1>5, <2>1, <2>2
<1>7. \A i \in 1..(Len(more) - 1) : more[i].state = "PASS"
  <2> SUFFICES ASSUME NEW i \in 1..(Len(more) - 1) PROVE more[i].state = "PASS"
    OBVIOUS
  <2>1. i \in 1..Len(layers) /\ layers # <<>>
    BY <1>4
  <2>2. i \in 1..(Len(layers) - 1) \/ i = Len(layers)
    BY <1>4, <2>1
  <2>3. layers[i].state = "PASS"
    BY <2>1, <2>2 DEF Chain, Passed
  <2> QED
    BY <1>4, <2>1, <2>3
<1>8. Passed(more) = (state = "PASS")
  <2>1. more[Len(more)] = one
    BY <1>4
  <2>2. more[Len(more)].state = state
    BY <1>2, <2>1
  <2> QED
    BY <2>2 DEF Passed
<1>9. Chain(more)
  BY <1>6, <1>7 DEF Chain
<1> QED
  BY <1>4, <1>8, <1>9 DEF Recorded, A, one, more

\* Setting the last layer's state.
LEMMA SetChain ==
  ASSUME NEW layers \in Seq(AnyLayer), NEW layer \in 0..10, Len(layers) = layer + 1,
         NEW state \in LayerState \cup ValidationState, Chain(layers)
  PROVE  LET set == SetLayer(layers, layer, state)
         IN /\ set \in Seq(AnyLayer) /\ Len(set) = Len(layers) /\ Chain(set)
            /\ Passed(set) = (state = "PASS")
<1> DEFINE A == AnyLayer
           one == [layer |-> layer, state |-> state]
           set == [layers EXCEPT ![layer + 1] = one]
<1>1. one \in A
  BY DEF AnyLayer
<1>2. one.layer = layer /\ one.state = state
  OBVIOUS
<1> HIDE DEF A, one
<1>3. layers \in Seq(A)
  BY DEF A
<1>4. Len(layers) \in Nat /\ DOMAIN layers = 1..Len(layers) /\ layers \in [1..Len(layers) -> A]
  BY <1>3
<1>5. layer + 1 \in DOMAIN layers /\ \A i \in DOMAIN layers : (layers[i].layer = layer <=> i = layer + 1)
  BY <1>4 DEF Chain
<1>6. (CHOOSE i \in DOMAIN layers : layers[i].layer = layer /\ \A k \in 1..(i - 1) : layers[k].layer # layer)
      = layer + 1
  <2>1. \A k \in 1..((layer + 1) - 1) : layers[k].layer # layer
    BY <1>4, <1>5
  <2>2. layers[layer + 1].layer = layer
    BY <1>5
  <2> QED
    BY <1>5, <2>1, <2>2
<1>7. SetLayer(layers, layer, state) = set
  BY <1>5, <1>6 DEF SetLayer, one
<1>8. set \in [1..Len(layers) -> A]
  BY <1>1, <1>4, <1>5
<1>9. /\ set[layer + 1] = one /\ \A i \in 1..Len(layers) : i # layer + 1 => set[i] = layers[i]
  BY <1>4, <1>5
<1> HIDE DEF set
<1>10. set \in Seq(A) /\ Len(set) = Len(layers) /\ DOMAIN set = 1..Len(layers)
  <2>1. set \in Seq(A)
    BY <1>4, <1>8, SeqDef
  <2>2. DOMAIN set = 1..Len(layers) /\ DOMAIN set = 1..Len(set) /\ Len(set) \in Nat
    BY <1>8, <2>1
  <2> QED
    BY <1>4, <2>1, <2>2
<1>11. Chain(set)
  <2>1. \A i \in DOMAIN set : set[i].layer = i - 1
    BY <1>2, <1>4, <1>9, <1>10 DEF Chain
  <2>2. \A i \in 1..(Len(set) - 1) : i # layer + 1 /\ i \in 1..Len(layers) /\ i \in 1..(Len(layers) - 1)
    BY <1>4, <1>10
  <2>3. \A i \in 1..(Len(set) - 1) : set[i].state = "PASS"
    BY <1>9, <2>2 DEF Chain
  <2> QED
    BY <2>1, <2>3 DEF Chain
<1>12. Passed(set) = (state = "PASS")
  <2>1. set[Len(set)].state = state
    BY <1>2, <1>9, <1>10
  <2> QED
    BY <2>1 DEF Passed
<1> QED
  BY <1>7, <1>10, <1>11, <1>12 DEF A

\* A saved report stays right while the other files grow.
LEMMA ReportKept ==
  ASSUME NEW L, NEW report, NEW events \in Seq(L), NEW later \in Seq(L), Longer(events, later),
         NEW benchmarks \in Seq(L), NEW more \in Seq(L), Longer(benchmarks, more),
         ReportRight(report, events, benchmarks)
  PROVE  ReportRight(report, later, more)
<1>1. /\ \A run, n : LogBegins(events, run, n) => LogBegins(later, run, n)
      /\ Readable(later) => Readable(events)
  BY LongerKeeps
<1>2. \A run : Measured(benchmarks, run) => Measured(more, run)
  BY LongerKeeps
<1> QED
  BY <1>1, <1>2 DEF ReportRight

\* Layers may be saved once what they rest on is in the other files.
LEMMA SavedRight ==
  ASSUME NEW run, NEW layers \in Seq(AnyLayer), Chain(layers), NEW events, NEW benchmarks,
         Len(layers) > 7 \/ (Len(layers) = 7 /\ Passed(layers)) => Measured(benchmarks, run),
         Len(layers) = 11 \/ Readable(events) => LogIs(events, run, LoggedBy(Len(layers) - 1))
  PROVE  ReportRight([run |-> run, layers |-> layers], events, benchmarks)
<1> DEFINE report == [run |-> run, layers |-> layers]
<1>1. report.run = run /\ report.layers = layers
  OBVIOUS
<1>2. Len(layers) \in Nat
  OBVIOUS
<1>3. Len(layers) - 1 > 6 <=> Len(layers) > 7
  BY <1>2
<1>4. Len(layers) - 1 = 6 <=> Len(layers) = 7
  BY <1>2
<1>5. Len(layers) - 1 = 10 <=> Len(layers) = 11
  BY <1>2
<1>6. (Len(layers) - 1 > 6 \/ (Len(layers) - 1 = 6 /\ layers[7].state = "PASS")) => Measured(benchmarks, run)
  BY <1>3, <1>4 DEF Passed
<1>7. (Len(layers) - 1 = 10 \/ Readable(events)) => LogBegins(events, run, LoggedBy(Len(layers) - 1))
  BY <1>5, AllBegins
<1> HIDE DEF report
<1> QED
  BY <1>1, <1>6, <1>7 DEF ReportRight, report

\* How much is logged when a run fails with so many layers.
LEMMA LoggedByThen == LoggedBy(3) = 0 /\ LoggedBy(5) = 1 /\ LoggedBy(6) = 1 /\ LoggedBy(8) = 3 /\ LoggedBy(10) = 4
BY DEF LoggedBy

\* A step of a run that leaves the log and the store as they are.
LEMMA RunGoesOn ==
  ASSUME ReportInv, UNCHANGED <<rRun, rEvents, rBenchmarks>>,
         RunLayers(rStep, rLayers)', EventsDone(rStep, rLayers)' = EventsDone(rStep, rLayers),
         rStep # "idle" \/ rStep' = "idle",
         RunStored(rStep, rLayers, rRun, rBenchmarks)',
         ReportRight(rReport, rEvents, rBenchmarks)'
  PROVE  ReportInv'
<1>1. RunEvents(rStep, rLayers, rRun, rEvents)'
  BY DEF ReportInv, RunEvents
<1> QED
  BY <1>1 DEF ReportInv

\* Where nothing is written, a report remains right.
LEMMA NothingWritten ==
  ASSUME ReportInv, UNCHANGED files
  PROVE  ReportRight(rReport, rEvents, rBenchmarks)' /\ UNCHANGED <<rEvents, rBenchmarks>>
BY DEF ReportInv, files

\* A run starts with two layers.
LEMMA StartLayers ==
  LET layers == Recorded(Recorded(<<>>, 0, "PASS"), 1, "PASS")
  IN layers \in Seq(AnyLayer) /\ Len(layers) = 2 /\ Chain(layers) /\ Passed(layers)
<1> DEFINE first == Recorded(<<>>, 0, "PASS")
           second == Recorded(first, 1, "PASS")
<1>1. PICK none : none = <<>>
  OBVIOUS
<1>2. none \in Seq(AnyLayer) /\ Len(none) = 0 /\ Chain(none)
  BY <1>1, EmptySeq DEF Chain
<1>3. first \in Seq(AnyLayer) /\ Len(first) = 1 /\ Chain(first) /\ Passed(first)
  <2>1. first = Recorded(none, 0, "PASS") /\ Len(none) + 1 = 1
    BY <1>1, <1>2
  <2> HIDE DEF first
  <2> QED
    <3>1. LET more == Recorded(none, 0, "PASS")
          IN /\ more \in Seq(AnyLayer) /\ Len(more) = Len(none) + 1 /\ Chain(more)
             /\ Passed(more) = ("PASS" = "PASS")
      <4>1. 0 \in 0..10 /\ 0 = Len(none) /\ "PASS" \in LayerState \cup ValidationState
        BY <1>2, Recordable
      <4> QED
        BY <1>1, <1>2, <4>1, RecordedChain
    <3> QED
      BY <2>1, <3>1
<1> HIDE DEF first
<1>4. second \in Seq(AnyLayer) /\ Len(second) = 2 /\ Chain(second) /\ Passed(second)
  <2>1. Len(first) + 1 = 2
    BY <1>3
  <2> QED
    BY <1>3, <2>1, Recordable, RecordedChain
<1> QED
  BY <1>4 DEF first

LEMMA ReportInvInit == ReferenceInit => ReportInv
<1> SUFFICES ASSUME ReferenceInit PROVE ReportInv
  OBVIOUS
<1>1. rRun = 0 /\ rStep = "idle" /\ rEvents = <<>> /\ rBenchmarks = <<>> /\ rReport = NoReport
  BY DEF ReferenceInit
<1>2. rEvents \in Seq(LineOf(rRun)) /\ rBenchmarks \in Seq(LineOf(rRun))
  BY <1>1
<1>3. ReportRight(rReport, rEvents, rBenchmarks)
  BY <1>1 DEF ReportRight, NoReport
<1> QED
  BY <1>1, <1>2, <1>3 DEF ReportInv, RunLayers, RunEvents, RunStored, Scheduled

LEMMA StartReport == ReportInv /\ Start => ReportInv'
<1> SUFFICES ASSUME ReportInv, Start PROVE ReportInv'
  OBVIOUS
<1>1. /\ rRun' = rRun + 1 /\ rStep' = "discover" /\ UNCHANGED <<rEvents, rBenchmarks, rReport>>
      /\ rLayers' = Recorded(Recorded(<<>>, 0, "PASS"), 1, "PASS")
  BY DEF Start, files
<1>2. Len(rLayers') = 2 /\ Chain(rLayers') /\ Passed(rLayers')
  BY <1>1, StartLayers
<1>3. rRun' \in Nat /\ rRun' >= 1 /\ rEvents' \in Seq(LineOf(rRun')) /\ rBenchmarks' \in Seq(LineOf(rRun'))
  BY <1>1, LinesLater DEF ReportInv
<1>4. RunLayers(rStep', rLayers')
  BY <1>1, <1>2 DEF RunLayers, LayersAt
<1>5. LogIs(rEvents', rRun', 0)
  BY <1>1, NothingLogged DEF ReportInv
<1>6. RunEvents(rStep', rLayers', rRun', rEvents')
  BY <1>1, <1>5 DEF RunEvents, EventsDone, EventsAt
<1>7. RunStored(rStep', rLayers', rRun', rBenchmarks')
  BY <1>1 DEF RunStored, Scheduled
<1>8. ReportRight(rReport', rEvents', rBenchmarks')
  BY <1>1 DEF ReportInv
<1> QED
  BY <1>3, <1>4, <1>6, <1>7, <1>8 DEF ReportInv

\* The layers of a run at a step before it ends.
LEMMA LayersNow ==
  ASSUME RunInv, ReportInv, rStep \notin {"idle", "save"}
  PROVE  /\ rLayers \in Seq(AnyLayer) /\ Chain(rLayers) /\ Len(rLayers) = LayersAt(rStep)
         /\ rStep \notin UnderWay => Passed(rLayers)
BY DEF RunInv, RunTyped, ReportInv, RunLayers

LEMMA DiscoverReport == RunInv /\ ReportInv /\ Discover => ReportInv'
<1> SUFFICES ASSUME RunInv, ReportInv, Discover PROVE ReportInv'
  OBVIOUS
<1> DEFINE discovered == Recorded(rLayers, 2, "PASS")
<1>1. rStep = "discover" /\ UNCHANGED <<rRun, files>>
  BY DEF Discover, RunAt
<1>2. rLayers \in Seq(AnyLayer) /\ Chain(rLayers) /\ Len(rLayers) = 2 /\ Passed(rLayers)
  BY <1>1, LayersNow DEF LayersAt, UnderWay
<1>3. discovered \in Seq(AnyLayer) /\ Chain(discovered) /\ Len(discovered) = 3 /\ Passed(discovered)
  <2>1. Len(rLayers) + 1 = 3
    BY <1>2
  <2> QED
    BY <1>2, <2>1, Recordable, RecordedChain
<1> HIDE DEF discovered
<1>4. CASE rStep' = "validating" /\ rLayers' = discovered
  <2>1. RunLayers(rStep', rLayers')
    BY <1>3, <1>4 DEF RunLayers, LayersAt
  <2>2. EventsDone(rStep', rLayers') = EventsDone(rStep, rLayers)
    BY <1>1, <1>4 DEF EventsDone, EventsAt
  <2>3. RunStored(rStep', rLayers', rRun', rBenchmarks')
    BY <1>4 DEF RunStored, Scheduled
  <2> QED
    BY <1>1, <2>1, <2>2, <2>3, NothingWritten, RunGoesOn
<1>5. CASE rStep' = "save" /\ rLayers' = Recorded(discovered, 3, "FAIL_RESOURCE")
  <2>1. Chain(rLayers') /\ Len(rLayers') = 4
    <3>1. Len(discovered) + 1 = 4
      BY <1>3
    <3>2. LET more == Recorded(discovered, 3, "FAIL_RESOURCE")
          IN  Chain(more) /\ Len(more) = 4
      <4>1. 3 \in 0..10 /\ "FAIL_RESOURCE" \in LayerState \cup ValidationState
        BY Recordable
      <4> QED
        BY <1>3, <3>1, <4>1, RecordedChain
    <3> QED
      BY <1>5, <3>2
  <2>2. RunLayers(rStep', rLayers')
    BY <1>5, <2>1 DEF RunLayers
  <2>3. Len(rLayers') - 1 = 3 /\ ~(Len(rLayers') > 7)
    BY <2>1
  <2>4. EventsDone(rStep', rLayers') = EventsDone(rStep, rLayers)
    BY <1>1, <1>5, <2>3, LoggedByThen DEF EventsDone, EventsAt
  <2>5. RunStored(rStep', rLayers', rRun', rBenchmarks')
    BY <1>5, <2>3 DEF RunStored, Scheduled
  <2> QED
    BY <1>1, <2>2, <2>4, <2>5, NothingWritten, RunGoesOn
<1> QED
  BY <1>4, <1>5 DEF Discover, discovered

LEMMA PreparedReport == NativeInv /\ RunInv /\ ReportInv /\ Prepared => ReportInv'
<1> SUFFICES ASSUME NativeInv, RunInv, ReportInv, Prepared PROVE ReportInv'
  OBVIOUS
<1>1. rStep = "validating" /\ UNCHANGED <<rRun, files>>
  BY DEF Prepared, RunAt
<1>2. rLayers \in Seq(AnyLayer) /\ Chain(rLayers) /\ Len(rLayers) = 3 /\ Passed(rLayers)
  BY <1>1, LayersNow DEF LayersAt, UnderWay
<1>3. CASE rStep' = "log request" /\ rLayers' = Recorded(Recorded(rLayers, 3, "PASS"), 4, "PASS")
  <2> DEFINE third == Recorded(rLayers, 3, "PASS")
  <2>1. third \in Seq(AnyLayer) /\ Chain(third) /\ Len(third) = 4 /\ Passed(third)
    <3>1. Len(rLayers) + 1 = 4
      BY <1>2
    <3> QED
      BY <1>2, <3>1, Recordable, RecordedChain
  <2> HIDE DEF third
  <2>2. Chain(rLayers') /\ Len(rLayers') = 5 /\ Passed(rLayers')
    <3>1. Len(third) + 1 = 5
      BY <2>1
    <3>2. rLayers' = Recorded(third, 4, "PASS")
      BY <1>3 DEF third
    <3> QED
      BY <2>1, <3>1, <3>2, Recordable, RecordedChain
  <2>3. RunLayers(rStep', rLayers')
    BY <1>3, <2>2 DEF RunLayers, LayersAt
  <2>4. EventsDone(rStep', rLayers') = EventsDone(rStep, rLayers)
    BY <1>1, <1>3 DEF EventsDone, EventsAt
  <2>5. RunStored(rStep', rLayers', rRun', rBenchmarks')
    BY <1>3 DEF RunStored, Scheduled
  <2> QED
    BY <1>1, <2>3, <2>4, <2>5, NothingWritten, RunGoesOn
<1>4. CASE rStep' = "save" /\ rLayers' = Recorded(rLayers, 3, nResult.state)
  <2>1. Chain(rLayers') /\ Len(rLayers') = 4
    <3>1. Len(rLayers) + 1 = 4
      BY <1>2
    <3>2. nResult.state \in LayerState \cup ValidationState
      BY DEF NativeInv, NativeTypeOK
    <3>3. LET more == Recorded(rLayers, 3, nResult.state)
          IN  Chain(more) /\ Len(more) = 4
      <4>1. 3 \in 0..10
        OBVIOUS
      <4> QED
        BY <1>2, <3>1, <3>2, <4>1, RecordedChain
    <3> QED
      BY <1>4, <3>3
  <2>2. RunLayers(rStep', rLayers')
    BY <1>4, <2>1 DEF RunLayers
  <2>3. Len(rLayers') - 1 = 3 /\ ~(Len(rLayers') > 7)
    BY <2>1
  <2>4. EventsDone(rStep', rLayers') = EventsDone(rStep, rLayers)
    BY <1>1, <1>4, <2>3, LoggedByThen DEF EventsDone, EventsAt
  <2>5. RunStored(rStep', rLayers', rRun', rBenchmarks')
    BY <1>4, <2>3 DEF RunStored, Scheduled
  <2> QED
    BY <1>1, <2>2, <2>4, <2>5, NothingWritten, RunGoesOn
<1> QED
  BY <1>3, <1>4 DEF Prepared

\* Layers that do not change, at a step where there are as many.
LEMMA SameLayers ==
  ASSUME RunInv, ReportInv, rStep \notin {"idle", "save"}, rStep' \notin {"idle", "save"},
         rLayers' = rLayers, LayersAt(rStep)' = LayersAt(rStep),
         rStep' \in UnderWay \/ rStep \notin UnderWay
  PROVE  RunLayers(rStep, rLayers)'
BY LayersNow DEF RunLayers

LEMMA LogReport == RunInv /\ ReportInv /\ Log => ReportInv'
<1> SUFFICES ASSUME RunInv, ReportInv, Log PROVE ReportInv'
  OBVIOUS
<1> DEFINE L == LineOf(rRun)
           line == [run |-> rRun, says |-> rStep]
<1>1. /\ rStep \in LogSteps /\ rEvents' = Appended(rEvents, line)
      /\ UNCHANGED <<rRun, rLayers, rBenchmarks, rReport>>
  BY DEF Log
<1>2. \/ rStep = "log request" /\ rStep' = "announce"
      \/ rStep = "log decision" /\ rStep' = "log scheduled request"
      \/ rStep = "log scheduled request" /\ rStep' = "announce scheduled"
      \/ rStep = "log observation" /\ rStep' = "finish"
  BY DEF Log, LogSteps
<1>3. rRun \in Nat /\ rEvents \in Seq(L) /\ rBenchmarks \in Seq(L)
  BY DEF ReportInv
<1>4. rRun >= 1
  BY <1>2 DEF ReportInv
<1>5. line \in L /\ Mine(line, rRun) /\ line.says = rStep
  <2>1. rStep \in Said
    BY <1>1 DEF Said
  <2> QED
    BY <1>3, <1>4, <2>1, LineMade
<1> HIDE DEF L, line
<1>6. /\ rEvents' \in Seq(L) /\ Longer(rEvents, rEvents')
      /\ Readable(rEvents') => rEvents' = Append(rEvents, line)
  BY <1>1, <1>3, <1>5, AppendedLonger
<1>7. RunLayers(rStep, rLayers)'
  <2>1. LayersAt(rStep)' = LayersAt(rStep)
    BY <1>2 DEF LayersAt
  <2>2. rStep \notin {"idle", "save"} /\ rStep' \notin {"idle", "save"} /\ rStep \notin UnderWay
    BY <1>2 DEF UnderWay
  <2> QED
    BY <1>1, <2>1, <2>2, SameLayers
<1>8. RunEvents(rStep, rLayers, rRun, rEvents)'
  <2> SUFFICES ASSUME Readable(rEvents') PROVE LogIs(rEvents', rRun', EventsDone(rStep', rLayers'))
    BY DEF RunEvents
  <2> DEFINE n == EventsDone(rStep, rLayers)
  <2>1. Readable(rEvents)
    BY <1>3, <1>6, LongerKeeps
  <2>2. LogIs(rEvents, rRun, n)
    BY <1>2, <2>1 DEF ReportInv, RunEvents
  <2>3. n \in Nat /\ EventsDone(rStep', rLayers') = n + 1 /\ rStep = Logged[n + 1]
    <3>1. /\ Logged[1] = "log request" /\ Logged[2] = "log decision"
          /\ Logged[3] = "log scheduled request" /\ Logged[4] = "log observation"
      BY DEF Logged
    <3>2. 0 + 1 = 1 /\ 1 + 1 = 2 /\ 2 + 1 = 3 /\ 3 + 1 = 4
      OBVIOUS
    <3>3. CASE rStep = "log request" /\ rStep' = "announce"
      BY <3>1, <3>2, <3>3 DEF EventsDone, EventsAt
    <3>4. CASE rStep = "log decision" /\ rStep' = "log scheduled request"
      BY <3>1, <3>2, <3>4 DEF EventsDone, EventsAt
    <3>5. CASE rStep = "log scheduled request" /\ rStep' = "announce scheduled"
      BY <3>1, <3>2, <3>5 DEF EventsDone, EventsAt
    <3>6. CASE rStep = "log observation" /\ rStep' = "finish"
      BY <3>1, <3>2, <3>6 DEF EventsDone, EventsAt
    <3> QED
      BY <1>2, <3>3, <3>4, <3>5, <3>6
  <2> HIDE DEF n
  <2>4. LogIs(Append(rEvents, line), rRun, n + 1)
    BY <1>3, <1>5, <2>2, <2>3, NextLogged
  <2> QED
    BY <1>1, <1>6, <2>3, <2>4
<1>9. RunStored(rStep, rLayers, rRun, rBenchmarks)'
  BY <1>1, <1>2 DEF ReportInv, RunStored, Scheduled
<1>10. ReportRight(rReport', rEvents', rBenchmarks')
  <2>1. Longer(rBenchmarks, rBenchmarks)
    BY <1>3 DEF Longer
  <2> QED
    BY <1>1, <1>3, <1>6, <2>1, ReportKept DEF ReportInv
<1> QED
  BY <1>1, <1>3, <1>4, <1>6, <1>7, <1>8, <1>9, <1>10 DEF ReportInv, L

LEMMA AnnounceReport == RunInv /\ ReportInv /\ Announce => ReportInv'
<1> SUFFICES ASSUME RunInv, ReportInv, Announce PROVE ReportInv'
  OBVIOUS
<1>1. UNCHANGED <<rRun, rEvents, rBenchmarks>> /\ rReport' = [run |-> rRun, layers |-> rLayers']
  BY DEF Announce, Save
<1>2. CASE rStep = "announce" /\ rStep' = "execute" /\ rLayers' = Recorded(rLayers, 5, "UNKNOWN")
  <2>1. rLayers \in Seq(AnyLayer) /\ Chain(rLayers) /\ Len(rLayers) = 5 /\ Passed(rLayers)
    BY <1>2, LayersNow DEF LayersAt, UnderWay
  <2>2. rLayers' \in Seq(AnyLayer) /\ Chain(rLayers') /\ Len(rLayers') = 6
    <3>1. Len(rLayers) + 1 = 6
      BY <2>1
    <3>2. LET more == Recorded(rLayers, 5, "UNKNOWN")
          IN  more \in Seq(AnyLayer) /\ Chain(more) /\ Len(more) = 6
      <4>1. 5 \in 0..10 /\ "UNKNOWN" \in LayerState \cup ValidationState
        BY Recordable
      <4> QED
        BY <2>1, <3>1, <4>1, RecordedChain
    <3> QED
      BY <1>2, <3>2
  <2>3. RunLayers(rStep', rLayers')
    BY <1>2, <2>2 DEF RunLayers, LayersAt, UnderWay
  <2>4. EventsDone(rStep', rLayers') = 1 /\ EventsDone(rStep, rLayers) = 1
    BY <1>2 DEF EventsDone, EventsAt
  <2>5. RunStored(rStep', rLayers', rRun', rBenchmarks')
    BY <1>2 DEF RunStored, Scheduled
  <2>6. Readable(rEvents') => LogIs(rEvents', rRun, 1)
    BY <1>1, <1>2, <2>4 DEF ReportInv, RunEvents
  <2>7. Len(rLayers') - 1 = 5 /\ ~(Len(rLayers') > 7) /\ Len(rLayers') # 7 /\ Len(rLayers') # 11
    BY <2>2
  <2>8. ReportRight([run |-> rRun, layers |-> rLayers'], rEvents', rBenchmarks')
    BY <2>2, <2>6, <2>7, LoggedByThen, SavedRight
  <2> QED
    BY <1>1, <1>2, <2>3, <2>4, <2>5, <2>8, RunGoesOn
<1>3. CASE /\ rStep = "announce scheduled" /\ rStep' = "execute scheduled"
           /\ rLayers' = Recorded(rLayers, 8, "UNKNOWN")
  <2>1. rLayers \in Seq(AnyLayer) /\ Chain(rLayers) /\ Len(rLayers) = 8 /\ Passed(rLayers)
    BY <1>3, LayersNow DEF LayersAt, UnderWay
  <2>2. rLayers' \in Seq(AnyLayer) /\ Chain(rLayers') /\ Len(rLayers') = 9
    <3>1. Len(rLayers) + 1 = 9
      BY <2>1
    <3>2. LET more == Recorded(rLayers, 8, "UNKNOWN")
          IN  more \in Seq(AnyLayer) /\ Chain(more) /\ Len(more) = 9
      <4>1. 8 \in 0..10 /\ "UNKNOWN" \in LayerState \cup ValidationState
        BY Recordable
      <4> QED
        BY <2>1, <3>1, <4>1, RecordedChain
    <3> QED
      BY <1>3, <3>2
  <2>3. RunLayers(rStep', rLayers')
    BY <1>3, <2>2 DEF RunLayers, LayersAt, UnderWay
  <2>4. EventsDone(rStep', rLayers') = 3 /\ EventsDone(rStep, rLayers) = 3
    BY <1>3 DEF EventsDone, EventsAt
  <2>5. Measured(rBenchmarks', rRun)
    BY <1>1, <1>3 DEF ReportInv, RunStored, Scheduled
  <2>6. RunStored(rStep', rLayers', rRun', rBenchmarks')
    BY <1>1, <2>5 DEF RunStored
  <2>7. Readable(rEvents') => LogIs(rEvents', rRun, 3)
    BY <1>1, <1>3, <2>4 DEF ReportInv, RunEvents
  <2>8. Len(rLayers') - 1 = 8 /\ Len(rLayers') # 11
    BY <2>2
  <2>9. ReportRight([run |-> rRun, layers |-> rLayers'], rEvents', rBenchmarks')
    BY <2>2, <2>5, <2>7, <2>8, LoggedByThen, SavedRight
  <2> QED
    BY <1>1, <1>3, <2>3, <2>4, <2>6, <2>9, RunGoesOn
<1> QED
  BY <1>2, <1>3 DEF Announce, RunAt

LEMMA ExecuteReport == RunInv /\ ReportInv /\ (Execute \/ SelectPlan) => ReportInv'
<1> SUFFICES ASSUME RunInv, ReportInv, Execute \/ SelectPlan PROVE ReportInv'
  OBVIOUS
<1>1. /\ \/ rStep = "execute" /\ rStep' = "executing"
         \/ rStep = "execute scheduled" /\ rStep' = "executing scheduled"
         \/ rStep = "select" /\ rStep' = "identifying"
      /\ UNCHANGED <<rRun, rLayers, files>>
  BY DEF Execute, SelectPlan, RunAt
<1>2. LayersAt(rStep)' = LayersAt(rStep) /\ (rStep' \in UnderWay \/ rStep \notin UnderWay)
  BY <1>1 DEF LayersAt, UnderWay
<1>3. RunLayers(rStep, rLayers)'
  BY <1>1, <1>2, SameLayers
<1>4. EventsDone(rStep, rLayers)' = EventsDone(rStep, rLayers)
  BY <1>1 DEF EventsDone, EventsAt
<1>5. RunStored(rStep, rLayers, rRun, rBenchmarks)'
  BY <1>1 DEF files, ReportInv, RunStored, Scheduled
<1> QED
  BY <1>1, <1>3, <1>4, <1>5, NothingWritten, RunGoesOn

LEMMA ExecutedReport == RunInv /\ ReportInv /\ Executed => ReportInv'
<1> SUFFICES ASSUME RunInv, ReportInv, Executed PROVE ReportInv'
  OBVIOUS
<1>1. UNCHANGED <<rRun, files>> /\ rStep \in {"executing", "executing scheduled"}
  BY DEF Executed
<1>2. FailureState \in LayerState \cup ValidationState
  BY DEF FailureState, LayerState
<1>3. CASE rStep = "executing"
  <2>1. rLayers \in Seq(AnyLayer) /\ Chain(rLayers) /\ Len(rLayers) = 6
    BY <1>3, LayersNow DEF LayersAt
  <2>2. \/ rLayers' = SetLayer(rLayers, 5, "PASS") /\ rStep' = "store"
        \/ rLayers' = SetLayer(rLayers, 5, FailureState) /\ rStep' = "save"
    BY <1>3 DEF Executed
  <2>3. Len(rLayers) = 5 + 1
    BY <2>1
  <2>4. \A state \in LayerState \cup ValidationState :
          LET set == SetLayer(rLayers, 5, state)
          IN Chain(set) /\ Len(set) = 6 /\ (state = "PASS" => Passed(set))
    <3>1. 5 \in 0..10 /\ Len(rLayers) = 5 + 1
      BY <2>3
    <3> QED
      BY <2>1, <3>1, SetChain
  <2>5. RunLayers(rStep', rLayers') /\ Len(rLayers') = 6
    <3>1. CASE rLayers' = SetLayer(rLayers, 5, "PASS") /\ rStep' = "store"
      <4>1. "PASS" \in LayerState \cup ValidationState
        BY DEF LayerState
      <4>2. Chain(rLayers') /\ Len(rLayers') = 6 /\ Passed(rLayers')
        BY <2>4, <3>1, <4>1
      <4> QED
        BY <3>1, <4>2 DEF RunLayers, LayersAt
    <3>2. CASE rLayers' = SetLayer(rLayers, 5, FailureState) /\ rStep' = "save"
      <4>1. Chain(rLayers') /\ Len(rLayers') = 6
        BY <1>2, <2>4, <3>2
      <4> QED
        BY <3>2, <4>1 DEF RunLayers
    <3> QED
      BY <2>2, <3>1, <3>2
  <2>6. Len(rLayers') - 1 = 5 /\ ~(Len(rLayers') > 7)
    BY <2>5
  <2>7. EventsDone(rStep', rLayers') = EventsDone(rStep, rLayers)
    BY <1>3, <2>2, <2>6, LoggedByThen DEF EventsDone, EventsAt
  <2>8. RunStored(rStep', rLayers', rRun', rBenchmarks')
    BY <2>2, <2>6 DEF RunStored, Scheduled
  <2> QED
    BY <1>1, <1>3, <2>5, <2>7, <2>8, NothingWritten, RunGoesOn
<1>4. CASE rStep = "executing scheduled"
  <2>1. rLayers \in Seq(AnyLayer) /\ Chain(rLayers) /\ Len(rLayers) = 9
    BY <1>4, LayersNow DEF LayersAt
  <2>2. \/ rLayers' = SetLayer(rLayers, 8, "PASS") /\ rStep' = "log observation"
        \/ rLayers' = SetLayer(rLayers, 8, FailureState) /\ rStep' = "save"
    <3>1. rStep # "executing"
      BY <1>4
    <3>2. LET layer == IF rStep = "executing" THEN 5 ELSE 8
          IN layer = 8 /\ layer # 5
      BY <3>1
    <3>3. CASE nResult.outcome = "success"
      BY <3>2, <3>3 DEF Executed
    <3>4. CASE nResult.outcome # "success"
      BY <3>2, <3>4 DEF Executed
    <3> QED
      BY <3>3, <3>4
  <2>3. Len(rLayers) = 8 + 1
    BY <2>1
  <2>4. \A state \in LayerState \cup ValidationState :
          LET set == SetLayer(rLayers, 8, state)
          IN Chain(set) /\ Len(set) = 9 /\ (state = "PASS" => Passed(set))
    <3>1. 8 \in 0..10 /\ Len(rLayers) = 8 + 1
      BY <2>3
    <3> QED
      BY <2>1, <3>1, SetChain
  <2>5. RunLayers(rStep', rLayers') /\ Len(rLayers') = 9
    <3>1. CASE rLayers' = SetLayer(rLayers, 8, "PASS") /\ rStep' = "log observation"
      <4>1. "PASS" \in LayerState \cup ValidationState
        BY DEF LayerState
      <4>2. Chain(rLayers') /\ Len(rLayers') = 9 /\ Passed(rLayers')
        BY <2>4, <3>1, <4>1
      <4> QED
        BY <3>1, <4>2 DEF RunLayers, LayersAt
    <3>2. CASE rLayers' = SetLayer(rLayers, 8, FailureState) /\ rStep' = "save"
      <4>1. Chain(rLayers') /\ Len(rLayers') = 9
        BY <1>2, <2>4, <3>2
      <4> QED
        BY <3>2, <4>1 DEF RunLayers
    <3> QED
      BY <2>2, <3>1, <3>2
  <2>6. Len(rLayers') - 1 = 8
    BY <2>5
  <2>7. EventsDone(rStep', rLayers') = EventsDone(rStep, rLayers)
    BY <1>4, <2>2, <2>6, LoggedByThen DEF EventsDone, EventsAt
  <2>8. RunStored(rStep', rLayers', rRun', rBenchmarks')
    BY <1>1, <1>4 DEF ReportInv, RunStored, Scheduled, files
  <2> QED
    BY <1>1, <1>4, <2>5, <2>7, <2>8, NothingWritten, RunGoesOn
<1> QED
  BY <1>1, <1>3, <1>4

LEMMA StoreReport == RunInv /\ ReportInv /\ Store => ReportInv'
<1> SUFFICES ASSUME RunInv, ReportInv, Store PROVE ReportInv'
  OBVIOUS
<1> DEFINE L == LineOf(rRun)
           line == [run |-> rRun, says |-> "measured"]
<1>1. rStep = "store" /\ UNCHANGED <<rRun, rEvents, rReport>>
  BY DEF Store, RunAt
<1>2. rLayers \in Seq(AnyLayer) /\ Chain(rLayers) /\ Len(rLayers) = 6 /\ Passed(rLayers)
  BY <1>1, LayersNow DEF LayersAt, UnderWay
<1>3. rRun \in Nat /\ rRun >= 1 /\ rEvents \in Seq(L) /\ rBenchmarks \in Seq(L)
  BY <1>1 DEF ReportInv
<1>4. line \in L /\ Mine(line, rRun) /\ TornLine \in L
  <2>1. "measured" \in Said
    BY DEF Said
  <2>2. line \in L /\ Mine(line, rRun)
    BY <1>3, <2>1, LineMade
  <2>3. TornLine \in L
    BY DEF LineOf
  <2> QED
    BY <2>2, <2>3
<1>5. \/ /\ rBenchmarks' = Appended(rBenchmarks, line) /\ Readable(rBenchmarks')
         /\ rStep' = "select" /\ rLayers' = Recorded(rLayers, 6, "PASS")
      \/ /\ rBenchmarks' = Appended(rBenchmarks, line) \/ rBenchmarks' \in CutShort(rBenchmarks)
         /\ rStep' = "save" /\ rLayers' = Recorded(rLayers, 6, "FAIL_SYSTEM")
  BY DEF Store, Queried
<1> HIDE DEF L, line
<1>6. rBenchmarks' \in Seq(L) /\ Longer(rBenchmarks, rBenchmarks')
  BY <1>3, <1>4, <1>5, AppendedLonger, CutShortLonger
<1>7. rStep' = "select" => Measured(rBenchmarks', rRun)
  <2> SUFFICES ASSUME rStep' = "select" PROVE Measured(rBenchmarks', rRun)
    OBVIOUS
  <2>1. rBenchmarks' = Append(rBenchmarks, line)
    BY <1>3, <1>4, <1>5, AppendedLonger
  <2>2. Append(rBenchmarks, line)[Len(rBenchmarks) + 1] = line
        /\ Len(rBenchmarks) + 1 \in DOMAIN Append(rBenchmarks, line)
    BY <1>3, <1>4
  <2> QED
    BY <1>4, <2>1, <2>2 DEF Measured
<1>8. Len(rLayers) + 1 = 7 /\ rLayers # <<>>
  BY <1>2
<1>9. Chain(rLayers') /\ Len(rLayers') = 7 /\ (Passed(rLayers') <=> rStep' = "select")
  <2>1. CASE rStep' = "select" /\ rLayers' = Recorded(rLayers, 6, "PASS")
    <3>1. LET more == Recorded(rLayers, 6, "PASS")
          IN  Chain(more) /\ Len(more) = 7 /\ Passed(more)
      <4>1. 6 \in 0..10 /\ "PASS" \in LayerState \cup ValidationState
        BY Recordable
      <4> QED
        BY <1>2, <1>8, <4>1, RecordedChain
    <3> QED
      BY <2>1, <3>1
  <2>2. CASE rStep' = "save" /\ rLayers' = Recorded(rLayers, 6, "FAIL_SYSTEM")
    <3>1. LET more == Recorded(rLayers, 6, "FAIL_SYSTEM")
          IN  Chain(more) /\ Len(more) = 7 /\ ~Passed(more)
      <4>1. 6 \in 0..10 /\ "FAIL_SYSTEM" \in LayerState \cup ValidationState
        BY Recordable
      <4> QED
        BY <1>2, <1>8, <4>1, RecordedChain
    <3> QED
      BY <2>2, <3>1
  <2> QED
    BY <1>5, <2>1, <2>2
<1>10. RunLayers(rStep', rLayers')
  BY <1>5, <1>9 DEF RunLayers, LayersAt
<1>11. Len(rLayers') - 1 = 6 /\ ~(Len(rLayers') > 7)
  BY <1>9
<1>12. EventsDone(rStep', rLayers') = EventsDone(rStep, rLayers)
  BY <1>1, <1>5, <1>11, LoggedByThen DEF EventsDone, EventsAt
<1>13. RunEvents(rStep', rLayers', rRun', rEvents')
  BY <1>1, <1>12 DEF ReportInv, RunEvents
<1>14. RunStored(rStep', rLayers', rRun', rBenchmarks')
  <2>1. CASE rStep' = "select"
    BY <1>1, <1>7, <2>1 DEF RunStored
  <2>2. CASE rStep' = "save"
    BY <1>11, <2>2 DEF RunStored, Scheduled
  <2> QED
    BY <1>5, <2>1, <2>2
<1>15. ReportRight(rReport', rEvents', rBenchmarks')
  <2>1. Longer(rEvents, rEvents)
    BY <1>3 DEF Longer
  <2> QED
    BY <1>1, <1>3, <1>6, <2>1, ReportKept DEF ReportInv
<1> QED
  BY <1>1, <1>3, <1>6, <1>10, <1>13, <1>14, <1>15 DEF ReportInv, L

LEMMA SelectedReport == RunInv /\ ReportInv /\ Selected => ReportInv'
<1> SUFFICES ASSUME RunInv, ReportInv, Selected PROVE ReportInv'
  OBVIOUS
<1>1. rStep = "identifying" /\ UNCHANGED <<rRun, files>>
  BY DEF Selected, RunAt
<1>2. CASE rStep' = "idle"
  BY <1>1, <1>2, NothingWritten DEF ReportInv, RunLayers, RunEvents, RunStored, Scheduled
<1>3. CASE rStep' = "log decision" /\ rLayers' = Recorded(rLayers, 7, "PASS")
  <2>1. rLayers \in Seq(AnyLayer) /\ Chain(rLayers) /\ Len(rLayers) = 7 /\ Passed(rLayers)
    BY <1>1, LayersNow DEF LayersAt, UnderWay
  <2>2. Chain(rLayers') /\ Len(rLayers') = 8 /\ Passed(rLayers')
    <3>1. Len(rLayers) + 1 = 8
      BY <2>1
    <3> QED
      BY <1>3, <2>1, <3>1, Recordable, RecordedChain
  <2>3. RunLayers(rStep', rLayers')
    BY <1>3, <2>2 DEF RunLayers, LayersAt
  <2>4. EventsDone(rStep', rLayers') = EventsDone(rStep, rLayers)
    BY <1>1, <1>3 DEF EventsDone, EventsAt
  <2>5. RunStored(rStep', rLayers', rRun', rBenchmarks')
    BY <1>1, <1>3 DEF ReportInv, RunStored, files
  <2> QED
    BY <1>1, <2>3, <2>4, <2>5, NothingWritten, RunGoesOn
<1> QED
  BY <1>2, <1>3 DEF Selected

\* A run that is over leaves nothing to say but of its files.
LEMMA EndsRight ==
  ASSUME ReportInv, rStep' = "idle", rRun' = rRun,
         rEvents' \in Seq(LineOf(rRun)), rBenchmarks' \in Seq(LineOf(rRun)),
         ReportRight(rReport, rEvents, rBenchmarks)'
  PROVE  ReportInv'
BY DEF ReportInv, RunLayers, RunEvents, RunStored, Scheduled

LEMMA FinishReport == RunInv /\ ReportInv /\ Finish => ReportInv'
<1> SUFFICES ASSUME RunInv, ReportInv, Finish PROVE ReportInv'
  OBVIOUS
<1>1. rStep = "finish" /\ rStep' = "idle" /\ UNCHANGED <<rRun, rEvents, rBenchmarks>>
  BY DEF Finish, RunAt
<1>2. rLayers \in Seq(AnyLayer) /\ Chain(rLayers) /\ Len(rLayers) = 9 /\ Passed(rLayers)
  BY <1>1, LayersNow DEF LayersAt, UnderWay
<1>3. rEvents \in Seq(LineOf(rRun)) /\ rBenchmarks \in Seq(LineOf(rRun))
  BY DEF ReportInv
<1>4. CASE ~Readable(rEvents)
  <2>1. rReport' = rReport
    BY <1>4 DEF Finish
  <2>2. ReportRight(rReport', rEvents', rBenchmarks')
    BY <1>1, <2>1 DEF ReportInv
  <2> QED
    BY <1>1, <1>3, <2>2, EndsRight
<1>5. CASE Readable(rEvents)
  <2> DEFINE persisted == Recorded(rLayers, 9, "PASS")
             complete == Recorded(persisted, 10, "PASS")
  <2>1. rReport' = [run |-> rRun, layers |-> complete]
    BY <1>5 DEF Finish, Save
  <2>2. persisted \in Seq(AnyLayer) /\ Chain(persisted) /\ Len(persisted) = 10 /\ Passed(persisted)
    <3>1. Len(rLayers) + 1 = 10
      BY <1>2
    <3> QED
      BY <1>2, <3>1, Recordable, RecordedChain
  <2> HIDE DEF persisted
  <2>3. complete \in Seq(AnyLayer) /\ Chain(complete) /\ Len(complete) = 11
    <3>1. Len(persisted) + 1 = 11
      BY <2>2
    <3> QED
      BY <2>2, <3>1, Recordable, RecordedChain
  <2> HIDE DEF complete
  <2>4. Len(complete) - 1 = 10
    BY <2>3
  <2>5. EventsDone(rStep, rLayers) = 4
    BY <1>1 DEF EventsDone, EventsAt
  <2>6. LogIs(rEvents, rRun, 4)
    BY <1>1, <1>5, <2>5 DEF ReportInv, RunEvents
  <2>7. Measured(rBenchmarks, rRun)
    BY <1>1 DEF ReportInv, RunStored, Scheduled
  <2>8. ReportRight([run |-> rRun, layers |-> complete], rEvents, rBenchmarks)
    BY <2>3, <2>4, <2>6, <2>7, LoggedByThen, SavedRight
  <2> QED
    BY <1>1, <1>3, <2>1, <2>8, EndsRight
<1> QED
  BY <1>4, <1>5

LEMMA SaveFailedReport == RunInv /\ ReportInv /\ SaveFailed => ReportInv'
<1> SUFFICES ASSUME RunInv, ReportInv, SaveFailed PROVE ReportInv'
  OBVIOUS
<1>1. /\ rStep = "save" /\ rStep' = "idle" /\ UNCHANGED <<rRun, rEvents, rBenchmarks>>
      /\ rReport' = [run |-> rRun, layers |-> rLayers]
  BY DEF SaveFailed, RunAt, Save
<1>2. rLayers \in Seq(AnyLayer) /\ rEvents \in Seq(LineOf(rRun)) /\ rBenchmarks \in Seq(LineOf(rRun))
  BY DEF RunInv, RunTyped, ReportInv
<1>3. Chain(rLayers) /\ Len(rLayers) \in {4, 6, 7, 9} /\ (Len(rLayers) = 7 => ~Passed(rLayers))
  BY <1>1 DEF ReportInv, RunLayers
<1>4. Len(rLayers) > 7 => Measured(rBenchmarks, rRun)
  BY <1>1 DEF ReportInv, RunStored
<1>5. Readable(rEvents) => LogIs(rEvents, rRun, LoggedBy(Len(rLayers) - 1))
  BY <1>1 DEF ReportInv, RunEvents, EventsDone
<1>6. Len(rLayers) # 11
  BY <1>3
<1>7. ReportRight([run |-> rRun, layers |-> rLayers], rEvents, rBenchmarks)
  BY <1>2, <1>3, <1>4, <1>5, <1>6, SavedRight
<1> QED
  BY <1>1, <1>2, <1>7, EndsRight

LEMMA DiesReport == ReportInv /\ Dies => ReportInv'
<1> SUFFICES ASSUME ReportInv, Dies PROVE ReportInv'
  OBVIOUS
<1> DEFINE L == LineOf(rRun)
<1>1. /\ rStep' = "idle" /\ rRun' = rRun
      /\ rEvents' \in CutShort(rEvents) \/ rEvents' = rEvents
      /\ rBenchmarks' \in CutShort(rBenchmarks) \/ rBenchmarks' = rBenchmarks
      /\ rReport' = rReport \/ rReport' = TornReport
  BY DEF Dies
<1>2. TornLine \in L /\ rEvents \in Seq(L) /\ rBenchmarks \in Seq(L)
  BY DEF ReportInv, LineOf
<1> HIDE DEF L
<1>3. \A lines \in Seq(L) : Longer(lines, lines)
  BY DEF Longer
<1>4. rEvents' \in Seq(L) /\ Longer(rEvents, rEvents')
  BY <1>1, <1>2, <1>3, CutShortLonger
<1>5. rBenchmarks' \in Seq(L) /\ Longer(rBenchmarks, rBenchmarks')
  BY <1>1, <1>2, <1>3, CutShortLonger
<1>6. ReportRight(rReport', rEvents', rBenchmarks')
  <2>1. CASE rReport' = rReport
    BY <1>2, <1>4, <1>5, <2>1, ReportKept DEF ReportInv
  <2>2. CASE rReport' = TornReport
    <3>1. ~(TornReport.run > 0)
      BY DEF TornReport
    <3> QED
      BY <2>2, <3>1 DEF ReportRight
  <2> QED
    BY <1>1, <2>1, <2>2
<1> QED
  BY <1>1, <1>4, <1>5, <1>6, EndsRight DEF L

LEMMA IdleReport == ReportInv /\ UNCHANGED <<rRun, rStep, rLayers, files>> => ReportInv'
BY DEF ReportInv, files

LEMMA ReportInvNext == NativeInv /\ RunInv /\ ReportInv /\ [ReferenceNext]_referenceVars => ReportInv'
<1> SUFFICES ASSUME NativeInv, RunInv, ReportInv, [ReferenceNext]_referenceVars PROVE ReportInv'
  OBVIOUS
<1>1. CASE Start \/ Dies
  BY <1>1, StartReport, DiesReport
<1>2. CASE RunStep
  BY <1>2, DiscoverReport, PreparedReport, LogReport, AnnounceReport, ExecuteReport, ExecutedReport,
     StoreReport, SelectedReport, FinishReport, SaveFailedReport DEF RunStep
<1>3. CASE AroundIt \/ UNCHANGED referenceVars
  BY <1>3, IdleReport DEF AroundIt, referenceVars, files
<1> QED
  BY <1>1, <1>2, <1>3 DEF ReferenceNext

\* The lines of a run up to one of them; that of its k-th event has k.
UpTo(lines, run, i) == {j \in 1..i : Mine(lines[j], run)}

LEMMA KthOfRun ==
  ASSUME NEW L, NEW lines \in Seq(L), NEW run, NEW n \in Nat, LogBegins(lines, run, n), NEW k \in 1..n
  PROVE  \E i \in DOMAIN lines :
           /\ Mine(lines[i], run) /\ lines[i].says = Logged[k]
           /\ Cardinality(UpTo(lines, run, i)) = k
<1>1. PICK at \in Places(lines, run, n) : \A m \in 1..n : \A i \in DOMAIN lines :
        Mine(lines[i], run) /\ i < at[m] => \E j \in 1..n : at[j] = i
  BY DEF LogBegins
<1>2. /\ at \in [1..n -> DOMAIN lines]
      /\ \A m \in 1..n : Mine(lines[at[m]], run) /\ lines[at[m]].says = Logged[m]
      /\ \A j, m \in 1..n : j < m => at[j] < at[m]
  BY DEF Places
<1>3. DOMAIN lines = 1..Len(lines) /\ Len(lines) \in Nat
  OBVIOUS
<1>4. \A m \in 1..k : m \in 1..n
  OBVIOUS
<1> DEFINE S == UpTo(lines, run, at[k])
           place == [m \in 1..k |-> at[m]]
<1>5. \A m \in 1..n : at[m] \in 1..Len(lines)
  BY <1>2, <1>3
<1>6. place \in [1..k -> S]
  <2> SUFFICES ASSUME NEW m \in 1..k PROVE at[m] \in S
    OBVIOUS
  <2>1. m = k \/ m < k
    OBVIOUS
  <2>2. at[m] <= at[k]
    BY <1>2, <1>4, <1>5, <2>1
  <2>3. at[m] \in 1..at[k]
    BY <1>4, <1>5, <2>2
  <2> QED
    BY <1>2, <1>4, <2>3 DEF UpTo
<1>7. \A a, b \in 1..k : place[a] = place[b] => a = b
  <2> SUFFICES ASSUME NEW a \in 1..k, NEW b \in 1..k, at[a] = at[b] PROVE a = b
    OBVIOUS
  <2>1. a < b \/ b < a \/ a = b
    OBVIOUS
  <2> QED
    BY <1>2, <1>4, <1>5, <2>1
<1>8. \A t \in S : \E m \in 1..k : place[m] = t
  <2> SUFFICES ASSUME NEW t \in S PROVE \E m \in 1..k : at[m] = t
    OBVIOUS
  <2>1. t \in 1..at[k] /\ Mine(lines[t], run)
    BY DEF UpTo
  <2>2. CASE t = at[k]
    BY <2>2
  <2>3. CASE t < at[k]
    <3>1. t \in DOMAIN lines
      BY <1>3, <1>5, <2>1, <2>3
    <3>2. PICK j \in 1..n : at[j] = t
      BY <1>1, <2>1, <2>3, <3>1
    <3>3. ~(k < j)
      BY <1>2, <1>5, <2>3, <3>2
    <3>4. j \in 1..k
      BY <3>3
    <3> QED
      BY <3>2, <3>4
  <2>4. t \in Nat /\ at[k] \in Nat /\ t <= at[k]
    BY <1>5, <2>1
  <2> QED
    BY <2>2, <2>3, <2>4
<1> HIDE DEF S, place
<1>9. place \in Bijection(1..k, S)
  BY <1>6, <1>7, <1>8, Fun_IsBij
<1>10. ExistsBijection(1..k, S)
  BY <1>9 DEF ExistsBijection
<1>11. IsFiniteSet(1..k) /\ Cardinality(1..k) = k
  <2>1. 1 \in Int /\ k \in Int /\ ~(1 > k) /\ k - 1 + 1 = k
    OBVIOUS
  <2> QED
    BY <2>1, FS_Interval
<1>12. Cardinality(S) = k
  BY <1>10, <1>11, FS_Bijection
<1> QED
  BY <1>2, <1>12 DEF S

LEMMA ReportInvBacks == ReportInv => ReportBacked
<1> SUFFICES ASSUME ReportInv, rReport.run > 0 PROVE ReportBacked
  BY DEF ReportBacked
<1> DEFINE layers == rReport.layers
           reached == Len(layers) - 1
<1>1. /\ layers \in Seq(AnyLayer) /\ Chain(layers)
      /\ (reached > 6 \/ (reached = 6 /\ layers[7].state = "PASS")) => Measured(rBenchmarks, rReport.run)
      /\ (reached = 10 \/ Readable(rEvents)) => LogBegins(rEvents, rReport.run, LoggedBy(reached))
  BY DEF ReportInv, ReportRight
<1>2. LoggedBy(reached) \in Nat
  BY DEF LoggedBy
<1>3. rEvents \in Seq(LineOf(rRun))
  BY DEF ReportInv
<1>4. ASSUME reached = 10 \/ Readable(rEvents), NEW k \in 1..LoggedBy(reached)
      PROVE  \E i \in DOMAIN rEvents :
               /\ Mine(rEvents[i], rReport.run) /\ rEvents[i].says = Logged[k]
               /\ Cardinality(UpTo(rEvents, rReport.run, i)) = k
  BY <1>1, <1>2, <1>3, <1>4, KthOfRun
<1> HIDE DEF layers, reached
<1>5. /\ \A i \in DOMAIN layers : layers[i].layer = i - 1
      /\ \A i \in 1..reached : layers[i].state = "PASS"
  BY <1>1 DEF Chain, reached
<1>6. (reached > 6 \/ (reached = 6 /\ layers[7].state = "PASS")) =>
        \E i \in DOMAIN rBenchmarks : rBenchmarks[i] # TornLine /\ rBenchmarks[i].run = rReport.run
  BY <1>1 DEF Measured, Mine
<1>7. (reached = 10 \/ Readable(rEvents)) =>
        \A k \in 1..LoggedBy(reached) : \E i \in DOMAIN rEvents :
          /\ rEvents[i] # TornLine /\ rEvents[i].run = rReport.run /\ rEvents[i].says = Logged[k]
          /\ Cardinality({j \in 1..i : rEvents[j] # TornLine /\ rEvents[j].run = rReport.run}) = k
  BY <1>4 DEF UpTo, Mine
<1> QED
  BY <1>5, <1>6, <1>7 DEF ReportBacked, layers, reached

\* What a report that can be read says is in the two other files: its
\* measurement, and its events in their order and first, unless the log cannot
\* be read whole and the report is not a complete one.  Runs that die in the
\* middle of a write, before it and after it, do not change this.
THEOREM ReportsBacked == ReferenceSpec => []ReportBacked
<1>1. ReferenceInit => ReportInv
  BY ReportInvInit
<1>2. NativeInv /\ RunInv /\ ReportInv /\ [ReferenceNext]_referenceVars => ReportInv'
  BY ReportInvNext
<1> QED
  BY <1>1, <1>2, ReferenceInvariant, ReportInvBacks, PTL DEF ReferenceSpec

-----------------------------------------------------------------------------
(* The types of the run.                                                   *)

\* What Prepared finds in validating is what a call of validate returned, which
\* is never nothing: only an execution runs the runtime.
ValidationAwaited ==
  /\ nStep = "run" => nOp = "execute"
  /\ rStep = "validating" => IF nOp = "idle" THEN nResult.state # "none" ELSE nOp = "validate"

LEMMA NativeTurns ==
  ASSUME NativeStep, nStep = "run" => nOp = "execute"
  PROVE  /\ nStep' = "run" => nOp' = "execute"
         /\ nOp = "validate" => nOp' = "validate" \/ (nOp' = "idle" /\ nResult'.state # "none")
         /\ nOp = "idle" => nOp' = "idle" /\ nResult' = nResult
<1>1. CASE Stat \/ Hash \/ StartProbe
  BY <1>1 DEF Stat, Hash, StartProbe, At, Goto, Fail, native
<1>2. CASE \/ ReadProbe \/ WaitProbe \/ CleanupProbe \/ CommunicateProbe \/ StatAgain \/ ReadBreaks
  BY <1>2 DEF ReadProbe, WaitProbe, CleanupProbe, CommunicateProbe, StatAgain, ReadBreaks, At, Goto, Fail, native
<1>3. CASE Identified
  <2>1. Validated(nRequest, nStatus) # "none"
    BY DEF Validated
  <2> DEFINE state == IF nOp = "identity" THEN "none" ELSE Validated(nRequest, nStatus)
             result == [identity |-> [status |-> nStatus, seen |-> nSeen], state |-> state, outcome |-> "none"]
  <2>2. nOp # "idle" /\ \/ nOp \in {"identity", "validate"} /\ nOp' = "idle" /\ nStep' = "idle" /\ nResult' = result
                        \/ nOp = "execute" /\ nOp' = "idle" /\ nStep' = "idle"
                        \/ nOp = "execute" /\ nOp' = nOp
    BY <1>3 DEF Identified, Return, At
  <2>3. nOp = "validate" => result.state # "none"
    BY <2>1
  <2> QED
    BY <2>2, <2>3
<1>4. CASE RunFails \/ RunEnds
  BY <1>4 DEF RunFails, RunEnds, Return, At
<1>5. CASE Replace \/ ProbeActs \/ TimeRunsOut
  BY <1>5 DEF Replace, ProbeActs, TimeRunsOut, native
<1> QED
  BY <1>1, <1>2, <1>3, <1>4, <1>5 DEF NativeStep, AdapterStep

LEMMA AwaitedStep ==
  ASSUME ValidationAwaited, CallsOwned, [ReferenceNext]_referenceVars
  PROVE  ValidationAwaited'
<1>1. CASE Discover
  <2>1. \/ nOp' = "validate" /\ nStep' = "stat" /\ rStep' = "validating"
        \/ UNCHANGED <<nOp, nStep>> /\ rStep' = "save"
    BY <1>1 DEF Discover, CallAdapter, Call, nativeVars
  <2> QED
    BY <2>1 DEF ValidationAwaited
<1>2. CASE Execute
  <2>1. nOp' = "execute" /\ nStep' = "stat" /\ rStep' \in {"executing", "executing scheduled"}
    BY <1>2 DEF Execute, CallAdapter, Call
  <2> QED
    BY <2>1 DEF ValidationAwaited
<1>3. CASE SelectPlan
  <2>1. nOp' = "identity" /\ nStep' = "stat" /\ rStep' = "identifying"
    BY <1>3 DEF SelectPlan, CallAdapter, Call
  <2> QED
    BY <2>1 DEF ValidationAwaited
<1>4. CASE Start \/ Prepared \/ Log \/ Announce \/ Executed \/ Store \/ Selected \/ Finish \/ SaveFailed \/ Dies
  <2>1. UNCHANGED <<nOp, nStep>> /\ rStep' # "validating"
    BY <1>4 DEF Start, Prepared, Log, Announce, Executed, Store, Selected, Finish, SaveFailed, Dies, nativeVars
  <2> QED
    BY <2>1 DEF ValidationAwaited
<1>5. CASE AroundIt
  BY <1>5, NativeTurns DEF AroundIt, ValidationAwaited
<1>6. CASE UNCHANGED referenceVars
  BY <1>6 DEF referenceVars, nativeVars, ValidationAwaited
<1> QED
  BY <1>1, <1>2, <1>3, <1>4, <1>5, <1>6 DEF ReferenceNext, RunStep

LEMMA RecordedTyped ==
  ASSUME NEW layers \in Seq(Layer), NEW layer \in 0..10, NEW state \in LayerState
  PROVE  Recorded(layers, layer, state) \in Seq(Layer)
<1> DEFINE L == Layer
<1>1. [layer |-> layer, state |-> state] \in L
  BY DEF Layer
<1>2. layers \in Seq(L)
  OBVIOUS
<1> HIDE DEF L
<1>3. Append(layers, [layer |-> layer, state |-> state]) \in Seq(L)
  BY <1>1, <1>2
<1> QED
  BY <1>3 DEF Recorded, L

LEMMA SetTyped ==
  ASSUME NEW layers \in Seq(Layer), NEW layer \in 0..10, NEW state \in LayerState
  PROVE  SetLayer(layers, layer, state) \in Seq(Layer)
<1> DEFINE made == [layer |-> layer, state |-> state]
<1>1. made \in Layer
  BY DEF Layer
<1>2. CASE \E i \in DOMAIN layers : layers[i].layer = layer
  <2> DEFINE first == CHOOSE i \in DOMAIN layers :
                        layers[i].layer = layer /\ \A k \in 1..(i - 1) : layers[k].layer # layer
  <2>1. SetLayer(layers, layer, state) = [layers EXCEPT ![first] = made]
    BY <1>2 DEF SetLayer
  <2> HIDE DEF first, made
  <2>2. layers \in [1..Len(layers) -> Layer] /\ Len(layers) \in Nat
    BY LenProperties
  <2>3. SetLayer(layers, layer, state) \in [1..Len(layers) -> Layer]
    BY <1>1, <2>1, <2>2
  <2> QED
    BY <2>2, <2>3, SeqDef
<1>3. CASE ~\E i \in DOMAIN layers : layers[i].layer = layer
  <2>1. SetLayer(layers, layer, state) = Recorded(layers, layer, state)
    BY <1>3 DEF SetLayer
  <2> QED
    BY <2>1, RecordedTyped
<1> QED
  BY <1>2, <1>3

LEMMA NumbersOfLayers ==
  /\ 0 \in 0..10 /\ 1 \in 0..10 /\ 2 \in 0..10 /\ 3 \in 0..10 /\ 4 \in 0..10 /\ 5 \in 0..10
  /\ 6 \in 0..10 /\ 7 \in 0..10 /\ 8 \in 0..10 /\ 9 \in 0..10 /\ 10 \in 0..10
  /\ "PASS" \in LayerState /\ "UNKNOWN" \in LayerState /\ "FAIL_SYSTEM" \in LayerState
  /\ "FAIL_RESOURCE" \in LayerState /\ "FAIL_RUNTIME" \in LayerState
BY DEF LayerState

\* Whatever a step records in memory is a state of a layer.
LEMMA LayersStep ==
  ASSUME NativeInv, ValidationAwaited, rLayers \in Seq(Layer), [ReferenceNext]_referenceVars
  PROVE  rLayers' \in Seq(Layer)
<1>1. CASE Start
  <2>1. rLayers' = Recorded(Recorded(<<>>, 0, "PASS"), 1, "PASS") /\ <<>> \in Seq(Layer)
    BY <1>1 DEF Start
  <2>2. Recorded(<<>>, 0, "PASS") \in Seq(Layer)
    BY <2>1, RecordedTyped, NumbersOfLayers
  <2> QED
    BY <2>1, <2>2, RecordedTyped, NumbersOfLayers
<1>2. CASE Discover
  <2> DEFINE discovered == Recorded(rLayers, 2, "PASS")
  <2>1. discovered \in Seq(Layer)
    BY RecordedTyped, NumbersOfLayers
  <2>2. rLayers' = discovered \/ rLayers' = Recorded(discovered, 3, "FAIL_RESOURCE")
    BY <1>2 DEF Discover
  <2> HIDE DEF discovered
  <2> QED
    BY <2>1, <2>2, RecordedTyped, NumbersOfLayers
<1>3. CASE Prepared
  <2>1. nResult.state \in ValidationState /\ nResult.state # "none"
    <3>1. rStep = "validating" /\ nOp = "idle"
      BY <1>3 DEF Prepared, RunAt
    <3>2. nResult.state # "none"
      BY <3>1 DEF ValidationAwaited
    <3> QED
      BY <3>2 DEF NativeInv, NativeTypeOK
  <2>2. \/ rLayers' = Recorded(Recorded(rLayers, 3, "PASS"), 4, "PASS")
        \/ nResult.state # "SUPPORTED" /\ rLayers' = Recorded(rLayers, 3, nResult.state)
    BY <1>3 DEF Prepared
  <2>3. nResult.state # "SUPPORTED" => nResult.state \in LayerState
    BY <2>1 DEF ValidationState, LayerState
  <2>4. Recorded(rLayers, 3, "PASS") \in Seq(Layer)
    BY RecordedTyped, NumbersOfLayers
  <2>5. Recorded(Recorded(rLayers, 3, "PASS"), 4, "PASS") \in Seq(Layer)
    BY <2>4, RecordedTyped, NumbersOfLayers
  <2> QED
    BY <2>2, <2>3, <2>5, RecordedTyped, NumbersOfLayers
<1>4. CASE Announce
  <2>1. rLayers' = Recorded(rLayers, 5, "UNKNOWN") \/ rLayers' = Recorded(rLayers, 8, "UNKNOWN")
    BY <1>4 DEF Announce
  <2> QED
    BY <2>1, RecordedTyped, NumbersOfLayers
<1>5. CASE Executed
  <2>1. FailureState \in LayerState
    BY DEF FailureState, LayerState
  <2>2. \E layer \in {5, 8} : rLayers' = SetLayer(rLayers, layer, "PASS") \/ rLayers' = SetLayer(rLayers, layer, FailureState)
    BY <1>5 DEF Executed
  <2> QED
    BY <2>1, <2>2, SetTyped, NumbersOfLayers
<1>6. CASE Store
  <2>1. rLayers' = Recorded(rLayers, 6, "PASS") \/ rLayers' = Recorded(rLayers, 6, "FAIL_SYSTEM")
    BY <1>6 DEF Store
  <2> QED
    BY <2>1, RecordedTyped, NumbersOfLayers
<1>7. CASE Selected
  <2>1. rLayers' = rLayers \/ rLayers' = Recorded(rLayers, 7, "PASS")
    BY <1>7 DEF Selected
  <2> QED
    BY <2>1, RecordedTyped, NumbersOfLayers
<1>8. CASE Finish
  <2> DEFINE persisted == Recorded(rLayers, 9, "PASS")
  <2>1. persisted \in Seq(Layer)
    BY RecordedTyped, NumbersOfLayers
  <2>2. rLayers' = persisted \/ rLayers' = Recorded(persisted, 10, "PASS")
    BY <1>8 DEF Finish
  <2> HIDE DEF persisted
  <2> QED
    BY <2>1, <2>2, RecordedTyped, NumbersOfLayers
<1>9. CASE Log \/ Execute \/ SelectPlan \/ SaveFailed \/ Dies \/ AroundIt \/ UNCHANGED referenceVars
  BY <1>9 DEF Log, Execute, SelectPlan, SaveFailed, Dies, AroundIt, referenceVars
<1> QED
  BY <1>1, <1>2, <1>3, <1>4, <1>5, <1>6, <1>7, <1>8, <1>9 DEF ReferenceNext, RunStep

\* The report is what a run saved, or what a stopped save left.
LEMMA ReportTyped ==
  ASSUME rReport.run \in -1..rRun, rReport.layers \in Seq(Layer), rLayers \in Seq(Layer),
         rLayers' \in Seq(Layer), rRun \in Nat, [ReferenceNext]_referenceVars
  PROVE  rReport'.run \in -1..rRun' /\ rReport'.layers \in Seq(Layer)
<1>1. rRun' \in Nat /\ rRun <= rRun'
  <2>1. rRun' = rRun + 1 \/ rRun' = rRun
    BY DEF ReferenceNext, RunStep, Start, Discover, Prepared, Log, Announce, Execute, Executed, Store,
           SelectPlan, Selected, Finish, SaveFailed, Dies, AroundIt, referenceVars
  <2> QED
    BY <2>1
<1>2. \/ rReport' = rReport \/ rReport' = TornReport
      \/ rReport' = [run |-> rRun, layers |-> rLayers] \/ rReport' = [run |-> rRun, layers |-> rLayers']
  BY DEF ReferenceNext, RunStep, Start, Discover, Prepared, Log, Announce, Execute, Executed, Store,
         SelectPlan, Selected, Finish, SaveFailed, Dies, AroundIt, Save, files, referenceVars
<1>3. CASE rReport' = rReport
  BY <1>1, <1>3
<1>4. CASE rReport' = TornReport
  <2>1. TornReport.run = -1 /\ TornReport.layers = <<>> /\ <<>> \in Seq(Layer)
    BY DEF TornReport
  <2>2. -1 \in -1..rRun'
    BY <1>1
  <2> QED
    BY <1>4, <2>1, <2>2
<1>5. CASE rReport' = [run |-> rRun, layers |-> rLayers] \/ rReport' = [run |-> rRun, layers |-> rLayers']
  BY <1>1, <1>5
<1> QED
  BY <1>2, <1>3, <1>4, <1>5

LEMMA LinesTyped ==
  ASSUME NEW run \in Nat, NEW lines \in Seq(LineOf(run)), NEW i \in DOMAIN lines
  PROVE  lines[i] = TornLine \/ lines[i].run \in 1..run
<1> DEFINE L == LineOf(run)
<1>1. lines \in Seq(L)
  OBVIOUS
<1> HIDE DEF L
<1>2. lines[i] \in L
  BY <1>1
<1> QED
  BY <1>2 DEF L, LineOf

TypedInv == ReferenceTypeOK /\ ValidationAwaited

LEMMA TypedInvInit == ReferenceInit => TypedInv
<1> SUFFICES ASSUME ReferenceInit PROVE TypedInv
  OBVIOUS
<1>1. rRun = 0 /\ rStep = "idle" /\ nStep = "idle" /\ rLayers = <<>> /\ rEvents = <<>> /\ rBenchmarks = <<>>
      /\ rValidated = NothingSeen /\ rMeasured = NothingSeen /\ rReport.run = 0 /\ rReport.layers = <<>>
  BY DEF ReferenceInit, NativeInit, NoReport
<1>2. <<>> \in Seq(Layer) /\ 0 \in 0..MaxRuns /\ 0 \in -1..0
  BY ReferenceAssumption
<1>3. ReferenceTypeOK
  BY <1>1, <1>2, NoneTyped DEF ReferenceTypeOK, Steps
<1> QED
  BY <1>1, <1>3 DEF TypedInv, ValidationAwaited

LEMMA TypedInvNext ==
  ASSUME NativeInv, RunInv, ReportInv, TypedInv, [ReferenceNext]_referenceVars, RunInv', ReportInv'
  PROVE  TypedInv'
<1>1. ValidationAwaited'
  BY AwaitedStep DEF TypedInv, RunInv
<1>2. rLayers' \in Seq(Layer)
  BY LayersStep DEF TypedInv, ReferenceTypeOK
<1>3. rRun \in 0..MaxRuns /\ MaxRuns \in Nat
  BY ReferenceAssumption DEF TypedInv, ReferenceTypeOK
<1>4. rReport'.run \in -1..rRun' /\ rReport'.layers \in Seq(Layer)
  BY <1>2, <1>3, ReportTyped DEF TypedInv, ReferenceTypeOK
<1>5. rRun' \in 0..MaxRuns
  <2>1. CASE Start
    BY <1>3, <2>1 DEF Start
  <2>2. CASE RunStep \/ Dies \/ AroundIt \/ UNCHANGED referenceVars
    <3>1. rRun' = rRun
      BY <2>2 DEF RunStep, Discover, Prepared, Log, Announce, Execute, Executed, Store,
                  SelectPlan, Selected, Finish, SaveFailed, Dies, AroundIt, referenceVars
    <3> QED
      BY <1>3, <3>1
  <2> QED
    BY <2>1, <2>2 DEF ReferenceNext
<1>6. rStep' \in Steps /\ rValidated' \in Seen /\ rMeasured' \in Seen
  BY DEF RunInv, RunTyped
<1>7. \A lines \in {rEvents', rBenchmarks'} : \A i \in DOMAIN lines :
        lines[i] = TornLine \/ lines[i].run \in 1..rRun'
  BY LinesTyped DEF ReportInv
<1>8. ReferenceTypeOK'
  BY <1>2, <1>4, <1>5, <1>6, <1>7 DEF ReferenceTypeOK
<1> QED
  BY <1>1, <1>8 DEF TypedInv

LEMMA ReferenceTypedInvariant == ReferenceSpec => [](NativeInv /\ RunInv /\ ReportInv /\ TypedInv)
<1>1. ReferenceInit => NativeInv /\ RunInv /\ ReportInv /\ TypedInv
  BY NativeInvInit, RunInvInit, ReportInvInit, TypedInvInit DEF ReferenceInit
<1>2. NativeInv /\ RunInv /\ ReportInv /\ TypedInv /\ [ReferenceNext]_referenceVars
      => NativeInv' /\ RunInv' /\ ReportInv' /\ TypedInv'
  BY RunInvNext, ReportInvNext, TypedInvNext
<1> QED
  BY <1>1, <1>2, PTL DEF ReferenceSpec

\* Whatever a run records is a layer and a state of one: a validation that gave
\* no state is never taken for one.
THEOREM ReferenceTyped == ReferenceSpec => [](NativeTypeOK /\ ReferenceTypeOK)
<1>1. NativeInv /\ TypedInv => NativeTypeOK /\ ReferenceTypeOK
  BY DEF NativeInv, TypedInv
<1> QED
  BY <1>1, ReferenceTypedInvariant, PTL
=============================================================================
