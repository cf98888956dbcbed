\* Two tasks depend on the first, which may fail.
SPECIFICATION Spec
CONSTANTS
    NumTasks = 3
    w1 = w1
    w2 = w2
    a1 = a1
    a2 = a2
    None = None
    Worker = {w1, w2}
    Artifact = {}
    TaskDeps <- ForkTaskDeps
    ArtifactDeps <- NoArtifacts
    Results <- NoArtifacts
    ArtifactCriteria <- NoArtifacts
    TaskCriteria <- NoTasks
    MaxRetryCount <- NoRetries
    Priority <- SamePriority
    WorkflowTaskCriteria = {1, 2}
    WorkflowArtifactCriteria = {}
    FailureModes = {"process"}
    MayBeLate = {}
    MayStop = {}
    MayRestart = FALSE
    MaxFailures = 3
INVARIANT FailedWorkflowHasNoPendingTask
