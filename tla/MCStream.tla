------------------------------ MODULE MCStream ------------------------------
(***************************************************************************)
(* Model-checking instances of Stream.                                     *)
(***************************************************************************)
EXTENDS Stream

\* "ab" and "", with their terminators.
MCLiterals == {<<97, 98, 0>>, <<0>>}

=============================================================================
