----------------------------- MODULE JsonLines -----------------------------
(***************************************************************************)
(* Files of one JSON document per line (events/store.py,                   *)
(* benchmarks/store.py).  Whoever appends may be stopped in the middle of  *)
(* a line; reading parses every line, and raises where one is torn.        *)
(***************************************************************************)
EXTENDS Sequences, Naturals

\* What is left of a line whose writing was cut short.
TornLine == [torn |-> TRUE]

\* A line appended to a file.  After a torn line there is no line break: what is
\* appended becomes part of it.
Appended(lines, line) ==
  IF lines # <<>> /\ lines[Len(lines)] = TornLine THEN lines ELSE Append(lines, line)

\* Reading the file does not raise.
Readable(lines) == \A i \in DOMAIN lines : lines[i] # TornLine

\* What the file may be once an append has been stopped.
CutShort(lines) == {lines, Appended(lines, TornLine)}
=============================================================================
