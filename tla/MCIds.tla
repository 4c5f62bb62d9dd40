------------------------------- MODULE MCIds -------------------------------
(***************************************************************************)
(* Model-checking instance of Ids.                                         *)
(***************************************************************************)
EXTENDS Ids, TLC

\* Servers are interchangeable.
Symmetry == Permutations(Servers)

=============================================================================
