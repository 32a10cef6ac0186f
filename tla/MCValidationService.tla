------------------------- MODULE MCValidationService -------------------------
(* Small instances of the service.  Queued runs are interchangeable, as are  *)
(* the others and the workers; the symmetry is used for safety only.          *)
EXTENDS ValidationService, TLC

Symmetry == Permutations(Queued) \cup Permutations(Runs \ Queued) \cup Permutations(Workers)
=============================================================================
