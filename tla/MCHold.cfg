\* Two independent tasks and one that needs the first; two workers ask for a task to
\* hold, and each request makes one attempt.
SPECIFICATION HoldSpec
CONSTANTS
    NumTasks = 3
    w1 = w1
    w2 = w2
    a1 = a1
    a2 = a2
    None = None
    Worker = {w1, w2}
    Artifact = {}
    TaskDeps <- SideTaskDeps
    ArtifactDeps <- NoArtifacts
    Results <- NoArtifacts
    ArtifactCriteria <- NoArtifacts
    TaskCriteria <- NoTasks
    MaxRetryCount <- NoRetries
    Priority <- SamePriority
    WorkflowTaskCriteria = {1, 2}
    WorkflowArtifactCriteria = {}
    FailureModes = {}
    MayBeLate = {}
    MayStop = {}
    MayRestart = FALSE
    MaxFailures = 3
    MaxTries = 1
INVARIANT HeldOnce
SYMMETRY WorkerSymmetry
