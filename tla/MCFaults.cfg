\* Two independent tasks and one that needs both; the task manager may be restarted
\* at any time, tasks may fail in every way and one worker may stop.
SPECIFICATION Spec
CONSTANTS
    NumTasks = 3
    w1 = w1
    w2 = w2
    a1 = a1
    a2 = a2
    None = None
    Worker = {w1, w2}
    Artifact = {}
    TaskDeps <- JoinTaskDeps
    ArtifactDeps <- NoArtifacts
    Results <- NoArtifacts
    ArtifactCriteria <- NoArtifacts
    TaskCriteria <- NoTasks
    MaxRetryCount <- NoRetries
    Priority <- SamePriority
    WorkflowTaskCriteria = {2}
    WorkflowArtifactCriteria = {}
    FailureModes = {"parse", "build", "process"}
    MayBeLate = {}
    MayStop = {w1}
    MayRestart = TRUE
    MaxFailures = 3
INVARIANTS
    NothingRunsAhead
    AtMostOneExecution
PROPERTY
    ImplementsLifecycle
