SPECIFICATION FairRenderingSpec
CONSTANTS
    f1 = f1
    f2 = f2
    f3 = f3
    w1 = w1
    w2 = w2
    File = {f1, f2, f3}
    Worker = {w1, w2}
    Source <- MCSource
    Duration <- MCDuration
    Layers <- MCLayers
    Workflow <- MCWorkflow
    MaxVideos = 3
    MaxDrops = 1
    MaxFaults = 1
    MaxKills = 1
INVARIANTS
    StoredArtifactsAreRight
    VideoIsTheScene
    PlansAreAccepted
    SelectionComesThrough
PROPERTY RenderedVideoIsStored
