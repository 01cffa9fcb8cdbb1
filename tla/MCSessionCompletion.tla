------------------------ MODULE MCSessionCompletion ------------------------
(* TLC instances of SessionCompletion.                                     *)
EXTENDS SessionInvariants, TLC

\* Requests are interchangeable: each is told apart only by what it does.
RequestSymmetry == Permutations(Requests)
=============================================================================
