\* Two tasks in a row, each may fail once; the one worker asks for a task to hold
\* and may be late with its heartbeats.
SPECIFICATION HoldSpec
CONSTANTS
    NumTasks = 2
    w1 = w1
    w2 = w2
    a1 = a1
    a2 = a2
    None = None
    Worker = {w1}
    Artifact = {}
    TaskDeps <- ChainTaskDeps
    ArtifactDeps <- NoArtifacts
    Results <- NoArtifacts
    ArtifactCriteria <- NoArtifacts
    TaskCriteria <- NoTasks
    MaxRetryCount <- NoRetries
    Priority <- SamePriority
    WorkflowTaskCriteria = {1}
    WorkflowArtifactCriteria = {}
    FailureModes = {"process"}
    MayBeLate = {w1}
    MayStop = {}
    MayRestart = FALSE
    MaxFailures = 1
    MaxTries = 4
INVARIANTS
    SucceededWorkflowMeetsCriteria
PROPERTY
    SucceededIsFinal
