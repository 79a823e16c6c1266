----------------------------- MODULE MCConsensus -----------------------------
(* Two namespaces, two values and two requests of the consensus tally. *)
EXTENDS Consensus, TLC

CONSTANTS n1, n2, v1, v2, p, q

Interchangeable ==
    Permutations({n1, n2}) \cup Permutations({v1, v2}) \cup Permutations({p, q})
=============================================================================
