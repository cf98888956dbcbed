\* Two tasks that may fail while they run, the second of which is tried again once:
\* it needs the artifact of the first, and it and the workflow are complete with its own.
SPECIFICATION FairSpec
CONSTANTS
    NumTasks = 2
    w1 = w1
    w2 = w2
    a1 = a1
    a2 = a2
    None = None
    Worker = {w1, w2}
    Artifact = {a1, a2}
    TaskDeps <- NoTasks
    ArtifactDeps <- ChainArtifactDeps
    Results <- OwnArtifact
    ArtifactCriteria <- SecondArtifact
    TaskCriteria <- NoTasks
    MaxRetryCount <- SecondRetried
    Priority <- SamePriority
    WorkflowTaskCriteria = {}
    WorkflowArtifactCriteria = {a2}
    FailureModes = {"process"}
    MayBeLate = {}
    MayStop = {}
    MayRestart = FALSE
    MaxFailures = 3
INVARIANTS
    TypeOK
    AtMostOneExecution
    NoQueuedTaskLost
    NoTaskBeforeItsDependencies
    SucceededWorkflowMeetsCriteria
PROPERTIES
    WorkflowEnds
    WorkersReleased
