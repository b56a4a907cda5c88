---------------------------- MODULE Checkpoints ----------------------------
(***************************************************************************)
(* Checkpoints of a work contract, materialized from its event log, and    *)
(* the digest a new session is given of one (work/checkpoints.py).  The    *)
(* log only grows, and a checkpoint may be taken of it at any time.        *)
(*                                                                         *)
(* Texts are sequences of words, <<>> a blank one; a failure id is the      *)
(* sequence of its parts between colons, none of which contains a blank.   *)
(* Lines of a digest have a size each.                                     *)
(***************************************************************************)
EXTENDS Naturals, Sequences, FiniteSets, SequencesExt

CONSTANTS
  Texts,         \* texts of facts, constraints and subgoals, fingerprints too
  FailureIds,    \* ids of failures
  LineSize,      \* LineSize[x]: characters of a line for the text or failure x
  HeaderSize, TitleSize,  \* characters of the first line, and of a section's title
  DigestSizes,   \* limits digests are asked for
  MaxEvents      \* length of the log (bound)

ASSUME CheckpointAssumption ==
  /\ Texts \cup FailureIds \subseteq Seq(STRING) \ {<<>>}
  /\ LineSize \in [Texts \cup FailureIds -> Nat \ {0}]
  /\ HeaderSize \in Nat /\ TitleSize \in Nat /\ DigestSizes \subseteq Nat \ {0}

VARIABLE cLog  \* the event log; an event is identified by its position

\* Events of this contract, and those of others.  An event that lacks its
\* text has a blank one.
WorkEvent ==
  [kind: {"fact", "constraint", "remaining", "completed", "artifact"}, text: Texts \cup {<<>>}]
  \cup [kind: {"failure", "resolved"}, failure: FailureIds]
  \cup [kind: {"foreign"}]

CheckpointTypeOK == cLog \in Seq(WorkEvent)

CheckpointInit == cLog = <<>>

-----------------------------------------------------------------------------

Empty ==
  [facts |-> <<>>, constraints |-> <<>>, completed |-> <<>>, remaining |-> <<>>,
   failures |-> <<>>, artifact |-> <<>>, through |-> 0]

AppendUnique(values, text) ==
  IF text = <<>> \/ text \in ToSet(values) THEN values ELSE Append(values, text)

\* The values but those, in their order.
Dropped(values, those) ==
  LET kept[n \in 0..Len(values)] ==
        IF n = 0 THEN <<>>
        ELSE IF values[n] \in those THEN kept[n - 1] ELSE Append(kept[n - 1], values[n])
  IN kept[Len(values)]
Without(values, text) == Dropped(values, {text})

\* Mutant: a failure reported again is listed again.
DropFailureNever(failures, id) == failures

\* The failures but those whose line begins with the id and a colon, which are
\* also those whose id continues it after a colon.
DropFailure(failures, id) == Dropped(failures, {f \in ToSet(failures) : IsPrefix(id, f)})

\* _apply_event.
ApplyEvent(cp, e) ==
  CASE e.kind = "fact" -> [cp EXCEPT !.facts = AppendUnique(@, e.text)]
    [] e.kind = "constraint" -> [cp EXCEPT !.constraints = AppendUnique(@, e.text)]
    [] e.kind = "completed" ->
         [cp EXCEPT !.completed = AppendUnique(@, e.text), !.remaining = Without(@, e.text)]
    [] e.kind = "remaining" ->
         IF e.text \in ToSet(cp.completed) THEN cp
         ELSE [cp EXCEPT !.remaining = AppendUnique(@, e.text)]
    [] e.kind = "failure" -> [cp EXCEPT !.failures = Append(DropFailure(@, e.failure), e.failure)]
    [] e.kind = "resolved" -> [cp EXCEPT !.failures = DropFailure(@, e.failure)]
    [] e.kind = "artifact" -> IF e.text = <<>> THEN cp ELSE [cp EXCEPT !.artifact = <<e.text>>]

\* materialize_checkpoint, over the first n events: events of other contracts
\* do not count.
Materialize(log) ==
  LET after[n \in 0..Len(log)] ==
        IF n = 0 THEN Empty
        ELSE IF log[n].kind = "foreign" THEN after[n - 1]
        ELSE ApplyEvent([after[n - 1] EXCEPT !.through = n], log[n])
  IN after[Len(log)]

\* The lines of a digest in order of preference: section by section, and the
\* newest first within each.
Section(title, items) == [i \in DOMAIN items |-> [title |-> title, item |-> Reverse(items)[i]]]
DigestLines(cp) ==
  Section("Verified artifact", cp.artifact) \o Section("Active constraints", cp.constraints)
  \o Section("Unresolved failures", cp.failures) \o Section("Remaining subgoals", cp.remaining)
  \o Section("Completed subgoals", cp.completed) \o Section("Facts", cp.facts)

\* What a line takes up: its section's title counts where it is not there yet.
Cost(digest, l) == LineSize[l.item] + IF l.title \in digest.titles THEN 0 ELSE TitleSize

\* Mutant: the first line that does not fit ends the digest.
FitsInOrder(digest, size, max) == digest.omitted = {} /\ digest.size + size <= max

\* Whether something of that size still fits.
Fits(digest, size, max) == digest.size + size <= max

\* render_digest: every line that still fits is shown.  A header that alone is
\* too long is cut.
RenderDigest(cp, max) ==
  LET lines == DigestLines(cp)
      after[n \in 0..Len(lines)] ==
        IF n = 0 THEN [size |-> HeaderSize, titles |-> {}, omitted |-> {}]
        ELSE LET digest == after[n - 1]
                 l == lines[n]
             IN IF Fits(digest, Cost(digest, l), max)
                THEN [digest EXCEPT !.size = @ + Cost(digest, l), !.titles = @ \cup {l.title}]
                ELSE [digest EXCEPT !.omitted = @ \cup {l}]
      full == after[Len(lines)]
  IN [full EXCEPT !.size = IF @ > max THEN max ELSE @]

-----------------------------------------------------------------------------

CheckpointNext ==
  /\ Len(cLog) < MaxEvents
  /\ \E e \in WorkEvent : cLog' = Append(cLog, e)

CheckpointSpec == CheckpointInit /\ [][CheckpointNext]_cLog

-----------------------------------------------------------------------------
(* Properties.                                                             *)

\* What the log says, whatever the order of its events: the texts of a kind;
\* the failures that were reported, and not resolved since.
Said(kind) == {cLog[i].text : i \in {k \in DOMAIN cLog : cLog[k].kind = kind}} \ {<<>>}
Reported == {"failure", "resolved"}
Unresolved ==
  {id \in FailureIds :
     \E i \in DOMAIN cLog :
       /\ cLog[i].kind = "failure" /\ cLog[i].failure = id
       /\ \A k \in (i + 1)..Len(cLog) : cLog[k].kind = "resolved" => cLog[k].failure # id}

\* No failure id in the log continues another one after a colon.
FailuresApart ==
  \A i, k \in DOMAIN cLog :
    /\ cLog[i].kind \in Reported /\ cLog[k].kind \in Reported
    /\ IsPrefix(cLog[i].failure, cLog[k].failure)
    => cLog[i].failure = cLog[k].failure

\* A checkpoint says what the log says, each thing once: a subgoal remains
\* exactly until it was completed, however often and in whichever order it is
\* reported; and the failures listed are unresolved ones, all of them where no
\* id continues another (materialize_checkpoint).
CheckpointSaysLog ==
  LET cp == Materialize(cLog)
      once(values) == Len(values) = Cardinality(ToSet(values))
  IN /\ once(cp.facts) /\ ToSet(cp.facts) = Said("fact")
     /\ once(cp.constraints) /\ ToSet(cp.constraints) = Said("constraint")
     /\ once(cp.completed) /\ ToSet(cp.completed) = Said("completed")
     /\ once(cp.remaining) /\ ToSet(cp.remaining) = Said("remaining") \ Said("completed")
     /\ once(cp.failures) /\ ToSet(cp.failures) \subseteq Unresolved
     /\ FailuresApart => ToSet(cp.failures) = Unresolved

\* A digest keeps to its limit, and leaves out nothing it has room for at its
\* end, though lines are dropped one by one and the title of a section counts
\* with the first of its lines that is shown (render_digest).
DigestIsFull ==
  \A max \in DigestSizes :
    LET digest == RenderDigest(Materialize(cLog), max)
    IN /\ digest.size <= max
       /\ \A l \in digest.omitted : digest.size + Cost(digest, l) > max
=============================================================================
