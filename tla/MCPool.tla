------------------------------- MODULE MCPool -------------------------------
(* Pool for TLC *)
EXTENDS Pool, TLC

\* Callers run the same code.
Symmetry == Permutations(Callers)
=============================================================================
