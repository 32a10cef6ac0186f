-------------------------- MODULE MCValidationPage --------------------------
(* No symmetry: liveness properties are checked. *)
EXTENDS ValidationPage
=============================================================================
