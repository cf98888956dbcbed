\* The workflow of the end-to-end tests, in which nothing fails.
SPECIFICATION Spec
CONSTANTS
    NumTasks = 2
    w1 = w1
    w2 = w2
    a1 = a1
    a2 = a2
    None = None
    Worker = {w1, w2}
    Artifact = {a1, a2}
    TaskDeps <- NoTasks
    ArtifactDeps <- ChainArtifactDeps
    Results <- OwnArtifact
    ArtifactCriteria <- OwnArtifact
    TaskCriteria <- NoTasks
    MaxRetryCount <- NoRetries
    Priority <- SamePriority
    WorkflowTaskCriteria = {}
    WorkflowArtifactCriteria = {a2}
    FailureModes = {}
    MayBeLate = {}
    MayStop = {}
    MayRestart = FALSE
    MaxFailures = 3
PROPERTY ReportsAreNotFatal
