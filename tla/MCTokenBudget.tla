--------------------------- MODULE MCTokenBudget ---------------------------
(* Callers are interchangeable.  The state space is finite as it stands: calls *)
(* stop at the budget, and a call of 0 tokens leaves no trace.                 *)
EXTENDS TokenBudget, TLC

Symmetry == Permutations(Callers)
=============================================================================
