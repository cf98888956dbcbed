SPECIFICATION Spec
CONSTANTS
    f1 = f1
    f2 = f2
    p1 = p1
    None = None
    File = {f2}
    Path = {p1}
    Browser = {}
    NameOf <- OneName
    NumParts <- Parts
    Probe <- Probes
    MaxSends <- Parts
    StorageMayFail = FALSE
    MayRestart = FALSE
INVARIANT
    CompleteUploadIsFinished
