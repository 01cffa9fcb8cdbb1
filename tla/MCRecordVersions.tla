-------------------------- MODULE MCRecordVersions --------------------------
(* TLC instances of RecordVersions.                                        *)
EXTENDS RecordVersions, TLC

\* Requests are interchangeable: each is told apart only by what it does.
RequestSymmetry == Permutations(Requests)
=============================================================================
