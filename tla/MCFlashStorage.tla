--------------------------- MODULE MCFlashStorage ---------------------------
(* FlashStorage on small instances. *)
EXTENDS FlashStorage, TLC

CONSTANTS p1, p2, m1, m2, good, bad

MCProcs == {p1, p2}
MCMsgs == {m1, m2}

EveryCall == {"enqueue", "claim", "renew", "abandon", "complete"}
\* Both processes make every call of a worker and of a producer.
AllCalls == [p \in MCProcs |-> EveryCall]
\* The same without renew and abandon, to leave room for faults.
CoreCalls == [p \in MCProcs |-> {"enqueue", "claim", "complete"}]
\* One process serves the worker, the other only replays notifications.
ServeAndRecover == p1 :> {"enqueue", "claim", "complete"} @@ p2 :> {"recover"}
\* Both processes poll, only one of them ever completes.
TwoPollers == p1 :> {"enqueue", "claim"} @@ p2 :> {"claim", "complete"}

Symmetry == Permutations(MCProcs) \cup Permutations(MCMsgs)
=============================================================================
