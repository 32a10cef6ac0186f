---------------------------- MODULE MCOrcaBridge ----------------------------
(* Two processes with a caller each: the second resumes what the first left. *)
EXTENDS OrcaBridge, TLC

CONSTANTS p1, p2, c1, c2

MCProcOf == (c1 :> p1) @@ (c2 :> p2)
=============================================================================
