----------------------------- MODULE MCReplica -----------------------------
(* TLC instance of Replica: a packaged kind, a kind of the OSDU authority   *)
(* that is not packaged, and a kind of the user's own.                      *)
EXTENDS Replica, TLC
MCKinds == {"well", "core", "own"}
\* Requests and partitions are interchangeable.
ReplicaSymmetry == Permutations(Requests) \cup Permutations(Partitions)
=============================================================================
