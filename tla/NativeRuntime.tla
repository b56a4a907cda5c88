--------------------------- MODULE NativeRuntime ---------------------------
(***************************************************************************)
(* The adapter of the native llama.cpp runtime (adapters/llama_cpp.py):    *)
(* it identifies the binary by hashing it and by a version probe bounded   *)
(* in time and output, validates a profile, and executes a request.  One   *)
(* call runs at a time; meanwhile the binary may be replaced, and the      *)
(* processes the adapter starts write, close their output, leave           *)
(* descendants behind, exit or hang as they like.                          *)
(*                                                                         *)
(* A binary that replaces another one is a new file, told apart by stat,   *)
(* but may have the contents of an earlier one.  Descendants of the probe  *)
(* stay in its process group.                                              *)
(***************************************************************************)
EXTENDS Integers

CONSTANTS
  Requests,  \* requests that may be executed, each with its profile
  MaxFiles,  \* files that are ever at the binary's path (bound)
  Binaries   \* what each of them has for a digest, and says of its version

ASSUME NativeAssumption ==
  /\ MaxFiles \in Nat \ {0}
  /\ Binaries \in [1..MaxFiles -> [digest: Nat, version: Nat]]

VARIABLES
  nPlatform,  \* posix or windows
  nFile,      \* the file at the binary's path
  nOp,        \* the call under way: idle, identity, validate or execute
  nRequest,   \* its request
  nStep,      \* where it has got to
  nSeen,      \* which file the first stat, the hash and the probe found
  nStatus,    \* status of the identity
  nProbe,     \* the probe's process
  nExpired,   \* whether the time of the process the call waits for is over
  nResult     \* what the last call returned

nativeVars == <<nPlatform, nFile, nOp, nRequest, nStep, nSeen, nStatus, nProbe, nExpired, nResult>>

FileKind == {"good", "missing", "directory", "denied", "oversize"}
Status == {"none", "ready", "missing", "denied", "unusable", "binary-size-limit",
           "binary-changed", "timeout", "output-limit", "unknown-version"}
\* A process: whether it runs, whether it exited well, whether somebody still
\* holds its output open, a descendant that does, and how much it wrote: none,
\* some, more than IDENTITY_OUTPUT_BYTES.
NoProbe == [runs |-> FALSE, well |-> FALSE, open |-> FALSE, kin |-> FALSE, wrote |-> 0]
Seen == [stat: 0..MaxFiles, hash: 0..MaxFiles, probe: 0..MaxFiles]
NothingSeen == [stat |-> 0, hash |-> 0, probe |-> 0]

\* What a call returns: the identity's status and what it was made of, the
\* validation's state, and the outcome of an execution.
Identity == [status: Status, seen: Seen]
Outcome == {"none", "raised", "success", "FAIL_RUNTIME", "FAIL_EXECUTION", "FAIL_TIMEOUT",
            "FAIL_RESOURCE"}
ValidationState == {"none", "SUPPORTED", "UNSUPPORTED", "UNKNOWN"}
\* The RuntimeIdentity of a file that was hashed and one that told its version:
\* identities are compared by value.
IdentityOf(seen) ==
  [digest |-> Binaries[seen.hash].digest, version |-> Binaries[seen.probe].version]
NoResult == [identity |-> [status |-> "none", seen |-> NothingSeen], state |-> "none",
             outcome |-> "none"]

NativeTypeOK ==
  /\ nPlatform \in {"posix", "windows"}
  /\ nFile \in [number: 1..MaxFiles, kind: FileKind]
  /\ nOp \in {"idle", "identity", "validate", "execute"} /\ nRequest \in Requests
  /\ nStep \in {"idle", "stat", "hash", "start", "read", "wait", "drain", "cleanup", "stat again",
                "identified", "run"}
  /\ nSeen \in Seen /\ nStatus \in Status /\ nExpired \in BOOLEAN
  /\ nProbe \in [runs: BOOLEAN, well: BOOLEAN, open: BOOLEAN, kin: BOOLEAN, wrote: 0..2]
  /\ nResult \in [identity: Identity, state: ValidationState, outcome: Outcome]

NativeInit ==
  /\ nPlatform \in {"posix", "windows"}
  /\ nFile \in [number: {1}, kind: FileKind]
  /\ nOp = "idle" /\ nRequest \in Requests /\ nStep = "idle" /\ nSeen = NothingSeen
  /\ nStatus = "none" /\ nProbe = NoProbe /\ nExpired = FALSE /\ nResult = NoResult

\* Groups of variables that steps leave alone together.

native == <<nPlatform, nFile, nOp, nRequest, nResult>>

Call(op, request) ==
  /\ nOp = "idle" /\ nOp' = op /\ nRequest' = request
  /\ nStep' = "stat" /\ nSeen' = NothingSeen /\ nStatus' = "none" /\ nProbe' = NoProbe
  /\ nExpired' = FALSE /\ nResult' = NoResult
  /\ UNCHANGED <<nPlatform, nFile>>

\* The call goes on at step.
At(step) == nOp # "idle" /\ nStep = step
Goto(step) == nStep' = step /\ UNCHANGED nStatus
\* The identity ends as status.
Fail(status) == nStep' = "identified" /\ nStatus' = status

\* What using a file of a kind raises, as the status it ends in.
Refusal ==
  [missing |-> "missing", directory |-> "unusable", denied |-> "denied",
   oversize |-> "binary-size-limit"]

-----------------------------------------------------------------------------
(* identity.                                                               *)

Stat ==
  /\ At("stat")
  /\ IF nFile.kind = "good"
     THEN Goto("hash") /\ nSeen' = [nSeen EXCEPT !.stat = nFile.number]
     ELSE Fail(Refusal[nFile.kind]) /\ UNCHANGED nSeen
  /\ UNCHANGED <<native, nProbe, nExpired>>

\* The file opened here is read to its end, whatever takes its place meanwhile.
Hash ==
  /\ At("hash")
  /\ IF nFile.kind = "good"
     THEN Goto("start") /\ nSeen' = [nSeen EXCEPT !.hash = nFile.number]
     ELSE Fail(Refusal[nFile.kind]) /\ UNCHANGED nSeen
  /\ UNCHANGED <<native, nProbe, nExpired>>

\* _start_version_probe; the system may also refuse to run a good file.
StartProbe ==
  /\ At("start")
  /\ \/ /\ nFile.kind \in {"good", "oversize"} /\ Goto("read")
        /\ nSeen' = [nSeen EXCEPT !.probe = nFile.number]
        /\ nProbe' = [NoProbe EXCEPT !.runs = TRUE, !.open = TRUE] /\ nExpired' = FALSE
     \/ /\ Fail(IF nFile.kind \in {"missing", "denied"} THEN nFile.kind ELSE "unusable")
        /\ UNCHANGED <<nSeen, nProbe, nExpired>>
  /\ UNCHANGED native

\* What the probe of a process that closed its output and exited says.
Answered == IF nProbe.well THEN {"ready", "unknown-version"} ELSE {"unusable"}

\* Mutant: the output is read until its end, however long that takes.
ReadProbeUntimed ==
  /\ At("read") /\ nPlatform = "posix"
  /\ \/ nProbe.wrote = 2 /\ nStatus' = "output-limit" /\ nStep' = "cleanup"
     \/ ~nExpired /\ ~nProbe.open /\ nProbe.wrote < 2 /\ Goto("wait")
  /\ UNCHANGED <<native, nSeen, nProbe, nExpired>>

\* _read_version_output and the waiting after it: on posix the output is read
\* until its end, its limit or the deadline.
ReadProbe ==
  /\ At("read") /\ nPlatform = "posix"
  /\ \/ nExpired /\ nStatus' = "timeout" /\ nStep' = "cleanup"
     \/ nProbe.wrote = 2 /\ nStatus' = "output-limit" /\ nStep' = "cleanup"
     \/ ~nExpired /\ ~nProbe.open /\ nProbe.wrote < 2 /\ Goto("wait")
  /\ UNCHANGED <<native, nSeen, nProbe, nExpired>>

WaitProbe ==
  /\ At("wait") /\ nStep' = "cleanup"
  /\ \/ nExpired /\ nProbe.runs /\ nStatus' = "timeout"
     \/ ~nProbe.runs /\ nStatus' \in Answered
  /\ UNCHANGED <<native, nSeen, nProbe, nExpired>>

\* Mutant: only the probe itself is killed, not its process group.
KilledAlone == [nProbe EXCEPT !.runs = FALSE, !.open = nProbe.kin]

\* What is left of the probe once its process group has been killed and it has
\* been waited for.
Killed == NoProbe

\* _cleanup_probe, whatever the probe's status.
CleanupProbe ==
  /\ At("cleanup") /\ nProbe' = Killed
  /\ nStep' = IF nStatus = "ready" THEN "stat again" ELSE "identified"
  /\ UNCHANGED <<native, nSeen, nStatus, nExpired>>

\* _windows_version_probe: the output is collected whole; after the deadline
\* the process alone is killed, and its output is waited for without limit.
CommunicateProbe ==
  /\ nPlatform = "windows"
  /\ \/ /\ At("read") /\ ~nProbe.open /\ ~nProbe.runs
        /\ nStatus' \in IF nProbe.wrote = 2 THEN {"output-limit"} ELSE Answered
        /\ nStep' = IF nStatus' = "ready" THEN "stat again" ELSE "identified"
        /\ UNCHANGED nProbe
     \/ /\ At("read") /\ nExpired /\ Goto("drain")
        /\ nProbe' = [nProbe EXCEPT !.runs = FALSE, !.open = nProbe.kin]
     \/ At("drain") /\ ~nProbe.open /\ Fail("timeout") /\ UNCHANGED nProbe
  /\ UNCHANGED <<native, nSeen, nExpired>>

\* Reading raises an OSError: on windows the process is left as it is.
ReadBreaks ==
  /\ At("read") /\ nStatus' = "unusable"
  /\ nStep' = IF nPlatform = "posix" THEN "cleanup" ELSE "identified"
  /\ UNCHANGED <<native, nSeen, nProbe, nExpired>>

\* The stat after the probe agrees with the one before the hash.
UnchangedFile == nFile.number = nSeen.stat

StatAgain ==
  /\ At("stat again") /\ nStep' = "identified"
  /\ nStatus' = IF nFile.kind = "missing" THEN "missing"
                ELSE IF UnchangedFile THEN "ready" ELSE "binary-changed"
  /\ UNCHANGED <<native, nSeen, nProbe, nExpired>>
-----------------------------------------------------------------------------
(* validate and execute.                                                   *)

Accelerated(request) == request.strategy = "accelerated"

\* The validation's state for a request's profile, given the identity's status.
Validated(request, status) ==
  IF ~request.native THEN "UNSUPPORTED"
  ELSE IF status # "ready" \/ request.model = "unnamed" THEN "UNKNOWN"
  ELSE IF request.model = "missing" THEN "UNSUPPORTED"
  ELSE IF request.strategy = "resident" THEN "SUPPORTED"
  ELSE IF Accelerated(request) /\ request.layers > 0 THEN "UNKNOWN" ELSE "UNSUPPORTED"

\* Options of a profile that are not set, or set to what cannot be used.
Absent == 0
Bad == -1

\* The arguments of the completion can be made of the request: explicit options
\* are usable, a context is the profile's, and a rendered prompt leaves nothing
\* to the runtime's defaults (_completion_arguments).
ArgumentsValid(request) ==
  /\ Bad \notin {request.context, request.threads, request.batch}
  /\ request.asked # Absent => request.asked = request.context
  /\ request.rendered =>
       /\ request.asked # Absent /\ request.tokens < request.context
       /\ request.threads # Absent /\ (request.stochastic => request.seeded)
       /\ request.layers # Bad /\ (request.strategy = "resident" => request.layers = 0)

\* An execution goes on only with a validated profile.
Declined(request, state) ==
  state = "UNSUPPORTED" \/ (state = "UNKNOWN" /\ ~request.allowUnknown)

Return(result) == nOp' = "idle" /\ nStep' = "idle" /\ nResult' = result

\* identity and validate return; execute starts the runtime, or refuses to.  It
\* raises, as _command does, where a profile that was allowed names no model.
Identified ==
  LET state == IF nOp = "identity" THEN "none" ELSE Validated(nRequest, nStatus)
      result == [identity |-> [status |-> nStatus, seen |-> nSeen], state |-> state,
                 outcome |-> "none"]
      declined == Declined(nRequest, state)
      named == nRequest.model # "unnamed"
  IN /\ At("identified")
     /\ \/ nOp \in {"identity", "validate"} /\ Return(result) /\ UNCHANGED nExpired
        \/ /\ nOp = "execute" /\ (declined \/ (named /\ ~ArgumentsValid(nRequest)))
           /\ Return([result EXCEPT !.outcome = "FAIL_RUNTIME"]) /\ UNCHANGED nExpired
        \/ /\ nOp = "execute" /\ ~declined /\ ~named
           /\ Return([result EXCEPT !.outcome = "raised"]) /\ UNCHANGED nExpired
        \/ /\ nOp = "execute" /\ ~declined /\ named /\ ArgumentsValid(nRequest)
           /\ nStep' = "run" /\ nExpired' = FALSE /\ nResult' = result /\ UNCHANGED nOp
     /\ UNCHANGED <<nPlatform, nFile, nRequest, nSeen, nStatus, nProbe>>

\* The runtime cannot be started, or its time is over.
RunFails ==
  /\ At("run")
  /\ \/ nFile.kind \notin {"good", "oversize"} /\ Return([nResult EXCEPT !.outcome = "FAIL_RESOURCE"])
     \/ nExpired /\ Return([nResult EXCEPT !.outcome = "FAIL_TIMEOUT"])
  /\ UNCHANGED <<nPlatform, nFile, nRequest, nSeen, nStatus, nProbe, nExpired>>

\* It ends: well, with an error or unreadable output, or for want of a resource.
\* What ran is whatever binary was there when it started.
RunEnds ==
  /\ At("run") /\ nFile.kind \in {"good", "oversize"}
  /\ \E outcome \in {"success", "FAIL_EXECUTION", "FAIL_RESOURCE"} :
       Return([nResult EXCEPT !.outcome = outcome])
  /\ UNCHANGED <<nPlatform, nFile, nRequest, nSeen, nStatus, nProbe, nExpired>>

\* Steps the adapter takes by itself, once it has been called.
AdapterStep ==
  \/ Stat \/ Hash \/ StartProbe \/ ReadProbe \/ WaitProbe \/ CleanupProbe \/ CommunicateProbe
  \/ StatAgain \/ Identified \/ RunFails

-----------------------------------------------------------------------------
(* The world around it.                                                    *)

Replace ==
  /\ nFile.number < MaxFiles
  /\ \E kind \in FileKind : nFile' = [number |-> nFile.number + 1, kind |-> kind]
  /\ UNCHANGED <<nPlatform, nOp, nRequest, nStep, nSeen, nStatus, nProbe, nExpired, nResult>>

\* The probe writes, starts a descendant, closes its output, or exits.
ProbeActs ==
  /\ \/ /\ nProbe.open /\ nProbe.wrote < 2 /\ nProbe' = [nProbe EXCEPT !.wrote = @ + 1]
     \/ /\ nProbe.runs /\ nProbe.open /\ ~nProbe.kin /\ nProbe' = [nProbe EXCEPT !.kin = TRUE]
     \/ /\ nProbe.runs /\ nProbe.open /\ ~nProbe.kin /\ nProbe' = [nProbe EXCEPT !.open = FALSE]
     \/ /\ nProbe.runs
        /\ \E well \in BOOLEAN :
             nProbe' = [nProbe EXCEPT !.runs = FALSE, !.well = well, !.open = @ /\ nProbe.kin]
     \/ /\ nProbe.kin /\ nProbe' = [nProbe EXCEPT !.kin = FALSE, !.open = nProbe.runs]
  /\ UNCHANGED <<native, nStep, nSeen, nStatus, nExpired>>

TimeRunsOut ==
  /\ nStep \in {"read", "wait", "run"} /\ ~nExpired /\ nExpired' = TRUE
  /\ UNCHANGED <<native, nStep, nSeen, nStatus, nProbe>>

\* Everything that happens while a call runs, and between calls.
NativeStep == AdapterStep \/ ReadBreaks \/ RunEnds \/ Replace \/ ProbeActs \/ TimeRunsOut

NativeNext ==
  \/ \E op \in {"identity", "validate", "execute"}, request \in Requests : Call(op, request)
  \/ NativeStep

NativeSpec == NativeInit /\ [][NativeNext]_nativeVars

-----------------------------------------------------------------------------
(* Properties.                                                             *)

\* On posix no call returns, or goes on to run the runtime, while a process of
\* its version probe is left, whichever way the probe ended.
NoProbeLeft ==
  nPlatform = "posix" /\ nStep \in {"idle", "stat again", "identified", "run"} =>
    ~nProbe.runs /\ ~nProbe.kin
=============================================================================
