------------------------------- MODULE MCHold -------------------------------
(* Workflows and workers for TLC, with hold requests.                      *)
EXTENDS MCScheduler, SchedulerHold

\* The workers are interchangeable.
WorkerSymmetry == Permutations(Worker)
=============================================================================
