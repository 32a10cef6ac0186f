--------------------------- MODULE MCRunValidation ---------------------------
(* One or two invocations of run_validation(), in one process (the runs that   *)
(* ask about one invocation have the task t1 alone).                           *)
EXTENDS RunValidation, TLC

CONSTANTS w1, t1, t2

OneTask  == t1 :> w1
TwoTasks == (t1 :> w1) @@ (t2 :> w1)
=============================================================================
