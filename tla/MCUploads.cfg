SPECIFICATION FairUploadSpec
CONSTANTS
    f1 = f1
    f2 = f2
    p1 = p1
    None = None
    File = {f1, f2}
    Path = {p1}
    Browser = {f1}
    NameOf <- OneName
    NumParts <- Parts
    Probe <- Probes
    MaxSends <- Parts
    StorageMayFail = TRUE
    MayRestart = TRUE
INVARIANTS
    UploadTypeOK
    ObjectsAreWholeFiles
    AcknowledgedUploadIsFinished
PROPERTIES
    ImplementsFileLifecycle
    BrowserUploadsEnd
