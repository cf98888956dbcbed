---------------------------- MODULE MCScheduler -----------------------------
(* Workflows and workers for TLC.                                          *)
EXTENDS SchedulerProperties

CONSTANTS w1, w2, a1, a2

ASSUME OwnCriteriaAssumption == OwnCriteria

NoArtifacts == [n \in Node |-> {}]
NoTasks == [n \in Node |-> {}]
SamePriority == [n \in Node |-> 500]
NoRetries == [n \in Node |-> 0]

\* The failures of 0 are final, 1 is tried again once.
SecondRetried == [n \in Node |-> IF n = 1 THEN 1 ELSE 0]

\* 0 <- 1, by a task dependency.
ChainTaskDeps == [n \in Node |-> IF n = 0 THEN {} ELSE {n - 1}]

\* 0 and 1 are independent, 2 depends on both.
JoinTaskDeps == [n \in Node |-> IF n = 2 THEN {0, 1} ELSE {}]

\* 0 and 1 are independent, 2 depends on 0.
SideTaskDeps == [n \in Node |-> IF n = 2 THEN {0} ELSE {}]

\* 1 and 2 depend on 0.
ForkTaskDeps == [n \in Node |-> IF n = 0 THEN {} ELSE {0}]

\* 0 uploads a1, 1 depends on a1 and uploads a2, each is complete with its
\* upload: the workflow of the end-to-end tests.
ArtifactOf(n) == IF n = 0 THEN {a1} ELSE IF n = 1 THEN {a2} ELSE {}
ChainArtifactDeps == [n \in Node |-> IF n = 1 THEN {a1} ELSE {}]
OwnArtifact == [n \in Node |-> ArtifactOf(n)]
SecondArtifact == [n \in Node |-> IF n = 1 THEN ArtifactOf(n) ELSE {}]
=============================================================================
