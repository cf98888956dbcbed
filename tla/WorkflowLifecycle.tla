------------------------- MODULE WorkflowLifecycle --------------------------
(***************************************************************************)
(* What the task manager promises of one workflow, whatever its handlers,  *)
(* its workers and its queue do: a task is released to the workers once    *)
(* all it depends on is there, it may then succeed and stays so, and the   *)
(* workflow is reported as succeeded only when its criteria are met.       *)
(***************************************************************************)
CONSTANTS
    Task,              \* tasks of the workflow
    Item,              \* artifacts
    NeedsTasks,        \* NeedsTasks[t]: tasks that must succeed before t
    NeedsItems,        \* NeedsItems[t]: artifacts that must exist before t
    GoalTasks,         \* tasks that must succeed for the workflow to succeed
    GoalItems          \* artifacts that must exist for the workflow to succeed

VARIABLES
    released,          \* tasks handed over for execution at least once
    succeeded,         \* tasks that have succeeded
    available,         \* artifacts that exist
    verdict            \* what is reported of the workflow

lifecycleVars == <<released, succeeded, available, verdict>>

LifecycleInit ==
    /\ released = {}
    /\ succeeded = {}
    /\ available = {}
    /\ verdict = "none"

Submit ==
    /\ verdict = "none"
    /\ verdict' = "running"
    /\ UNCHANGED <<released, succeeded, available>>

Release(t) ==
    /\ t \notin released
    /\ NeedsTasks[t] \subseteq succeeded
    /\ NeedsItems[t] \subseteq available
    /\ released' = released \cup {t}
    /\ UNCHANGED <<succeeded, available, verdict>>

Produce ==
    /\ available' \in SUBSET Item
    /\ available \subseteq available'
    /\ UNCHANGED <<released, succeeded, verdict>>

Succeed(t) ==
    /\ t \in released
    /\ succeeded' = succeeded \cup {t}
    /\ UNCHANGED <<released, available, verdict>>

\* A verdict may still change after it was first reported.
ReportSuccess ==
    /\ GoalTasks \subseteq succeeded
    /\ GoalItems \subseteq available
    /\ verdict' = "succeeded"
    /\ UNCHANGED <<released, succeeded, available>>

ReportFailure ==
    /\ released # {}
    /\ verdict' = "failed"
    /\ UNCHANGED <<released, succeeded, available>>

LifecycleNext ==
    \/ Submit \/ Produce \/ ReportSuccess \/ ReportFailure
    \/ \E t \in Task : Release(t) \/ Succeed(t)

LifecycleSpec == LifecycleInit /\ [][LifecycleNext]_lifecycleVars
=============================================================================
