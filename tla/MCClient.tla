------------------------------ MODULE MCClient ------------------------------
(***************************************************************************)
(* Model-checking instances of Client.                                     *)
(***************************************************************************)
EXTENDS Client

=============================================================================
