---------------------------- MODULE MCFleetLease ----------------------------
(* FleetLease on small instances. *)
EXTENDS FleetLease, TLC

CONSTANTS c1, c2, v1, l1, l2, a1, a2, k1, k2, v2

\* One controller does everything but recording timeouts, which another
\* process does.
OneWriter == c1 :> {"admit", "renew", "start", "disappear"} @@ c2 :> {"timeout"}
\* One controller starts attempts while another one follows the provider.
TwoWriters == c1 :> {"admit", "disappear"} @@ c2 :> {"start"}

\* A renewable lease that ends, and one without an end that begins later.
MCOffers ==
  {[id |-> l1, acquired |-> 0, expires |-> 2, renewable |-> TRUE],
   [id |-> l2, acquired |-> 1, expires |-> None, renewable |-> FALSE]}

Symmetry == Permutations({a1, a2}) \cup Permutations({k1, k2}) \cup Permutations({v1, v2})
=============================================================================
