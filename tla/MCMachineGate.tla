--------------------------- MODULE MCMachineGate ---------------------------
(* Runs are interchangeable; so are the images that pass the verifier. *)
EXTENDS MachineGate, TLC

Symmetry == Permutations(Runs) \cup Permutations(Verified)
=============================================================================
