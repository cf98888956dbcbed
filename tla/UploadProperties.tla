-------------------------- MODULE UploadProperties --------------------------
(***************************************************************************)
(* What uploads promise, stated over the state of module Upload.           *)
(***************************************************************************)
EXTENDS Upload

Number == UNION {Part(f) : f \in File}
Chunk == {<<f, k>> : f \in File, k \in Number}
Metadata == {Unsupported} \cup {analyzeFile(Probe[f]) : f \in File}

PartType ==
    [number : Number, status : {"uploading", "completed", "failed"}, etag : Chunk \cup {None}]

RequestType ==
    [op : {"addFile", "addFilePart", "analyzeUpload"}, file : File, part : Number \cup {None},
     try : Nat, at : {"find", "push", "setId", "store", "complete", "fail", "finish", "mark",
                      "analyze", "describe"},
     s3 : Nat \cup {None}, list : Seq(PartType), metadata : Metadata \cup {None}]

\* Every variable holds a value of its type, every handler in flight included.
UploadTypeOK ==
    /\ multipart \in Seq([path : Path, chunks : SUBSET [number : Number, etag : Chunk], open : BOOLEAN])
    /\ object \in [Path -> Seq(Chunk) \cup {None}]
    /\ registration \in [File -> {"none", "sent", "listed", "rejected"}]
    /\ finished \in [File -> BOOLEAN]
    /\ metadata \in [File -> Metadata \cup {None}]
    /\ s3UploadId \in [File -> (1..Len(multipart)) \cup {None}]
    /\ parts \in [File -> Seq(PartType)]
    /\ uploadedSize \in [File -> Nat]
    /\ requests \subseteq RequestType
    /\ DOMAIN sent = File /\ DOMAIN acked = File
    /\ \A f \in File : sent[f] \in [Part(f) -> Nat] /\ acked[f] \subseteq Part(f)
    /\ disturbed \in BOOLEAN

\* An object in the storage is a whole file, every part once and in order,
\* although parts may arrive at once, out of order or twice, be spread over two
\* multipart uploads, and be counted by size only.
ObjectsAreWholeFiles ==
    \A p \in Path : object[p] # None => \E f \in File : NameOf[f] = p /\ object[p] = Chunks(f)

\* A client that sent every part once and had each answered with success finds
\* its file finished and stored: no part is acknowledged for an upload that
\* can no longer be completed.
AcknowledgedUploadIsFinished ==
    \A f \in File :
        (/\ acked[f] = Part(f)
         /\ \A k \in Part(f) : sent[f][k] = 1) => finished[f] /\ object[NameOf[f]] # None

\* What may be said of a file: something that its path may hold.
Allowed(f) ==
    {Unsupported} \cup {analyzeFile(Probe[g]) : g \in {g \in File : NameOf[g] = NameOf[f]}}

\* The upload seen by the rest of the system.
Lifecycle == INSTANCE FileLifecycle WITH
    Item <- File, Nothing <- None,
    Description <- [f \in File |-> Allowed(f)],
    stored <- {f \in File : object[NameOf[f]] # None},
    complete <- {f \in File : finished[f]},
    description <- metadata

\* The handlers implement the lifecycle of a file: whatever parts are sent again
\* or at once, a file is finished after it is stored and described once.
ImplementsFileLifecycle == Lifecycle!LifecycleSpec

\* The handlers of a process that runs go on, and so does a browser.
UploadFairness ==
    /\ \A f \in File : WF_vars(\E r \in requests : r.file = f /\ HandlerStep(r))
    /\ \A f \in Browser : WF_vars(SendAddFile(f)) /\ \A k \in Part(f) : WF_vars(SendPart(f, k))

FairUploadSpec == Spec /\ UploadFairness

\* A file of the frontend ends up finished and described, unless its name is
\* taken, the storage fails or the api is restarted.
BrowserUploadsEnd ==
    \A f \in Browser : <>(disturbed \/ registration[f] = "rejected" \/ (finished[f] /\ metadata[f] # None))

\* "should finish the file if the upload, size has been reached": an upload that
\* has received its size is finished, once its handlers are done.
CompleteUploadIsFinished ==
    \A f \in File :
        (/\ uploadedSize[f] >= NumParts[f]
         /\ ~disturbed
         /\ \A r \in requests : r.file # f) => finished[f]
=============================================================================
