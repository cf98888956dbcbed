\* The home page only, where a file may be selected twice.
SPECIFICATION Spec
CONSTANTS
    f1 = f1
    f2 = f2
    f3 = f3
    w1 = w1
    w2 = w2
    File = {f1, f2, f3}
    Worker = {w1, w2}
    Source <- MCSource
    Duration <- MCDuration
    Layers = {}
    Workflow = {}
    MaxVideos = 2
    MaxDrops = 1
    MaxFaults = 1
    MaxKills = 1
INVARIANT
    VideosAreMergedAsListed
