------------------------------ MODULE MCServer ------------------------------
(***************************************************************************)
(* Model-checking instances of Server.                                     *)
(***************************************************************************)
EXTENDS Server, TLC

\* Connections are interchangeable, and so are descriptors.
Symmetry == Permutations(Peers) \cup Permutations(Fds)

=============================================================================
