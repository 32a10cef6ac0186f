---------------------------- MODULE RunLifecycle ----------------------------
(***************************************************************************)
(* What the service promises of a validation run, whatever carries it      *)
(* out: it is submitted, claimed by one executor, and finished once, with  *)
(* its result and its terminal status in one atomic step.                  *)
(*                                                                         *)
(* The statuses and the outcomes are those of backend/models: a run is     *)
(* done with a verdict (pass or fail) or failed with an error.             *)
(***************************************************************************)
CONSTANT Runs

VARIABLES run,      \* validation_runs.status, "none" before the row is there
          result    \* validation_results.verdict, "none" before the row is there

lifecycleVars == <<run, result>>

Statuses == {"none", "queued", "running", "done", "failed"}
Terminal == {"done", "failed"}
Results  == {"none", "verdict", "error"}

LifecycleTypeOK ==
  /\ run \in [Runs -> Statuses]
  /\ result \in [Runs -> Results]

LifecycleInit ==
  /\ run = [r \in Runs |-> "none"]
  /\ result = [r \in Runs |-> "none"]

Submit(r) ==
  /\ run[r] = "none"
  /\ run' = [run EXCEPT ![r] = "queued"]
  /\ UNCHANGED result

Claim(r) ==
  /\ run[r] = "queued"
  /\ run' = [run EXCEPT ![r] = "running"]
  /\ UNCHANGED result

\* run.status = "done" if verdict in ("pass", "fail") else "failed"
StatusFor(v) == IF v = "verdict" THEN "done" ELSE "failed"

Finish(r, v) ==
  /\ run[r] = "running"
  /\ run' = [run EXCEPT ![r] = StatusFor(v)]
  /\ result' = [result EXCEPT ![r] = v]

LifecycleNext ==
  \E r \in Runs :
    \/ Submit(r)
    \/ Claim(r)
    \/ \E v \in {"verdict", "error"} : Finish(r, v)

LifecycleSpec == LifecycleInit /\ [][LifecycleNext]_lifecycleVars

-----------------------------------------------------------------------------
\* A result is there exactly when its run is over, and agrees with its status.
ResultMatchesStatus ==
  \A r \in Runs :
    /\ result[r] = "none"    <=> run[r] \notin Terminal
    /\ result[r] = "verdict" <=> run[r] = "done"
    /\ result[r] = "error"   <=> run[r] = "failed"
=============================================================================
