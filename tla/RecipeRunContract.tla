-------------------------- MODULE RecipeRunContract --------------------------
(* The run loop with its groups, threads, hooks and audit log (RecipeRun)    *)
(* keeps the contract of a sequential run (RunContract).                     *)
EXTENDS RecipeRun

Outcome == IF phase # "done" THEN "running" ELSE IF success THEN "success" ELSE "failure"

Contract == INSTANCE RunContract WITH
  steps <- recipe, started <- touched, latched <- IsTerminal, reports <- final, outcome <- Outcome

\* Every step of a run is a step of its contract, or shows nothing to its caller
\* (run_steps, execute_parallel_group): whatever workers, hooks and the audit log do,
\* steps start when it is their turn, report once and in order and as done only what was
\* started, the context takes no output of a step that failed, and the run ends in
\* success or failure for the reasons it reports.
KeepsContract == Contract!Spec
=============================================================================
