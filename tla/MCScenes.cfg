SPECIFICATION FairScenesSpec
CONSTANTS
    f1 = f1
    f2 = f2
    None = None
    Null = Null
    File = {f1, f2}
    Layer = {1, 2}
    Draft <- MCDraft
    Setup <- MCSetup
INVARIANTS
    ScenesTypeOK
    WorkflowsUseAvailableClips
    FinishedSceneWasRendered
    AcknowledgedClipsAreKept
    NullLayersAreRemoved
PROPERTY RenderedVideoIsListed
CHECK_DEADLOCK FALSE
