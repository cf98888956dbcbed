------------------------------- MODULE Upload -------------------------------
(***************************************************************************)
(* Files of one workspace on their way into the object storage: the file   *)
(* entries of the workspace (api/src/workspaces), the uploads in parts     *)
(* (api/src/upload) and the analysis of what was uploaded.                 *)
(*                                                                         *)
(* A file stands for one request of a client to add it.  Its content is    *)
(* cut into parts 1..NumParts[f] of the same size, the size in which       *)
(* expectedSize and uploadedSize are counted: with equal parts a part that *)
(* is counted twice can stand in for a missing one.  The files in Browser  *)
(* are uploaded by the frontend, part after part; the others by clients    *)
(* that send parts in any order, at once and again.                        *)
(***************************************************************************)
EXTENDS StorageService, VideoAnalyser, FiniteSets, Functions

CONSTANTS
    File,              \* the files clients want to add
    Browser,           \* those the frontend uploads
    NameOf,            \* NameOf[f]: the file's name, the end of its path
    NumParts,          \* NumParts[f]: number of parts it is cut into
    Probe,             \* Probe[f]: what ffprobe says of its content
    MaxSends,          \* MaxSends[f]: how many parts its client sends, at most
    StorageMayFail,    \* whether calls of the storage may fail
    MayRestart         \* whether the api may be restarted

Part(f) == 1..NumParts[f]

ASSUME UploadAssumption ==
    /\ None \notin File
    /\ Browser \subseteq File
    /\ NameOf \in [File -> Path]
    /\ NumParts \in [File -> Nat \ {0}]
    /\ MaxSends \in [File -> Nat]
    /\ StorageMayFail \in BOOLEAN /\ MayRestart \in BOOLEAN

VARIABLES
    registration,      \* registration[f]: what came of the request to add f
    finished,          \* finished[f]: the entry's uploadFinished
    metadata,          \* metadata[f]: the entry's metadata, None while undefined
    s3UploadId,        \* s3UploadId[f]: the upload's _s3UploadId
    parts,             \* parts[f]: the upload's parts, in the order of $push
    uploadedSize,      \* uploadedSize[f]
    requests,          \* handlers in flight
    sent,              \* sent[f][k]: how often part k was sent
    acked,             \* acked[f]: the parts answered with success
    disturbed          \* a call of the storage has failed, or the api restarted

entryVars == <<registration, finished, metadata>>
uploadVars == <<s3UploadId, parts, uploadedSize>>
clientVars == <<sent, acked>>
vars == <<storageVars, entryVars, uploadVars, clientVars, requests, disturbed>>

Init ==
    /\ StorageInit
    /\ registration = [f \in File |-> "none"]
    /\ finished = [f \in File |-> FALSE]
    /\ metadata = [f \in File |-> None]
    /\ s3UploadId = [f \in File |-> None]
    /\ parts = [f \in File |-> <<>>]
    /\ uploadedSize = [f \in File |-> 0]
    /\ requests = {}
    /\ sent = [f \in File |-> [k \in Part(f) |-> 0]]
    /\ acked = [f \in File |-> {}]
    /\ disturbed = FALSE

-----------------------------------------------------------------------------
(* Handlers: a record with the handler, the operation it waits for and its *)
(* local variables: the multipart upload it uses, the parts its last       *)
(* update returned, the metadata it is about to store.                     *)

Request(op, f, k, try) ==
    [op |-> op, file |-> f, part |-> k, try |-> try, at |-> "find",
     s3 |-> None, list |-> <<>>, metadata |-> None]

Becomes(r, q) == requests' = (requests \ {r}) \cup {q}
Ends(r) == requests' = requests \ {r}
Acknowledge(f, k) == acked' = [acked EXCEPT ![f] = @ \cup {k}]

Chunks(f) == [k \in Part(f) |-> <<f, k>>]

ASSUME NoneAssumption == \A f \in File : Chunks(f) # None

-----------------------------------------------------------------------------
(* Adding a file to the workspace                                          *)

SendAddFile(f) ==
    /\ registration[f] = "none"
    /\ registration' = [registration EXCEPT ![f] = "sent"]
    /\ requests' = requests \cup {Request("addFile", f, None, 1)}
    /\ UNCHANGED <<storageVars, finished, metadata, uploadVars, clientVars, disturbed>>

NameTaken(f) == \E g \in File : registration[g] = "listed" /\ NameOf[g] = NameOf[f]

\* The workspace is read and the name looked up in the copy.
FindWorkspace(r) ==
    /\ r.op = "addFile" /\ r.at = "find"
    /\ \/ /\ NameTaken(r.file)
          /\ registration' = [registration EXCEPT ![r.file] = "rejected"]
          /\ Ends(r)
       \/ /\ ~NameTaken(r.file)
          /\ Becomes(r, [r EXCEPT !.at = "push"])
          /\ UNCHANGED registration
    /\ UNCHANGED <<storageVars, finished, metadata, uploadVars, clientVars, disturbed>>

\* The upload has been created; its entry is pushed unconditionally.
PushFile(r) ==
    /\ r.op = "addFile" /\ r.at = "push"
    /\ registration' = [registration EXCEPT ![r.file] = "listed"]
    /\ Ends(r)
    /\ UNCHANGED <<storageVars, finished, metadata, uploadVars, clientVars, disturbed>>

-----------------------------------------------------------------------------
(* Uploading a part                                                        *)

\* The frontend sends a part when the one before it was answered with success,
\* and never again.
MaySend(f, k) ==
    /\ registration[f] = "listed"
    /\ f \in Browser => sent[f][k] = 0 /\ 1..(k - 1) \subseteq acked[f]
    /\ FoldFunction(+, 0, sent[f]) < MaxSends[f]

SendPart(f, k) ==
    /\ MaySend(f, k)
    /\ sent' = [sent EXCEPT ![f][k] = @ + 1]
    /\ requests' = requests \cup {Request("addFilePart", f, k, sent[f][k] + 1)}
    /\ UNCHANGED <<storageVars, entryVars, uploadVars, acked, disturbed>>

\* Mutant of FindUpload: the id is made up before the storage has started it.
FindUploadUnstarted(r) ==
    /\ r.op = "addFilePart" /\ r.at = "find"
    /\ Becomes(r, [r EXCEPT !.at = "setId", !.s3 = Len(multipart) + 1])
    /\ UNCHANGED <<storageVars, entryVars, uploadVars, clientVars, disturbed>>

\* The upload is read; if the copy has no multipart upload, one is started.
FindUpload(r) ==
    /\ r.op = "addFilePart" /\ r.at = "find"
    /\ \/ /\ s3UploadId[r.file] = None
          /\ startMultiPartUpload(NameOf[r.file])
          /\ Becomes(r, [r EXCEPT !.at = "setId", !.s3 = Len(multipart) + 1])
       \/ /\ s3UploadId[r.file] # None
          /\ Becomes(r, [r EXCEPT !.at = "push", !.s3 = s3UploadId[r.file]])
          /\ UNCHANGED multipart
    /\ UNCHANGED <<object, entryVars, uploadVars, clientVars, disturbed>>

\* The id is stored whether or not another handler has stored one meanwhile.
CreateS3MultipartUpload(r) ==
    /\ r.op = "addFilePart" /\ r.at = "setId"
    /\ s3UploadId' = [s3UploadId EXCEPT ![r.file] = r.s3]
    /\ Becomes(r, [r EXCEPT !.at = "push"])
    /\ UNCHANGED <<storageVars, entryVars, parts, uploadedSize, clientVars, disturbed>>

NewPart(k) == [number |-> k, status |-> "uploading", etag |-> None]

\* Mutant of AddPartToUpload: a part that is listed is not listed again.
AddPartOnce(r) ==
    /\ r.op = "addFilePart" /\ r.at = "push"
    /\ \/ /\ \E i \in DOMAIN parts[r.file] : parts[r.file][i].number = r.part
          /\ UNCHANGED parts
       \/ /\ \A i \in DOMAIN parts[r.file] : parts[r.file][i].number # r.part
          /\ parts' = [parts EXCEPT ![r.file] = Append(@, NewPart(r.part))]
    /\ Becomes(r, [r EXCEPT !.at = "store"])
    /\ UNCHANGED <<storageVars, entryVars, s3UploadId, uploadedSize, clientVars, disturbed>>

AddPartToUpload(r) ==
    /\ r.op = "addFilePart" /\ r.at = "push"
    /\ parts' = [parts EXCEPT ![r.file] = Append(@, NewPart(r.part))]
    /\ Becomes(r, [r EXCEPT !.at = "store"])
    /\ UNCHANGED <<storageVars, entryVars, s3UploadId, uploadedSize, clientVars, disturbed>>

StorePart(r) ==
    /\ r.op = "addFilePart" /\ r.at = "store"
    /\ uplaodPart(r.s3, r.part, Chunks(r.file)[r.part])
    /\ Becomes(r, [r EXCEPT !.at = "complete"])
    /\ UNCHANGED <<object, entryVars, uploadVars, clientVars, disturbed>>

\* The storage fails, or the multipart upload has been completed.
StorePartFails(r) ==
    /\ r.op = "addFilePart" /\ r.at = "store"
    /\ \/ StorageMayFail /\ disturbed' = TRUE
       \/ ~multipart[r.s3].open /\ UNCHANGED disturbed
    /\ Becomes(r, [r EXCEPT !.at = "fail"])
    /\ UNCHANGED <<storageVars, entryVars, uploadVars, clientVars>>

\* "parts.$" is the first element with the number, in the order of $push.
WithFirst(list, k, status, etag) ==
    [i \in DOMAIN list |->
        IF list[i].number = k /\ \A j \in 1..(i - 1) : list[j].number # k
        THEN [list[i] EXCEPT !.status = status, !.etag = IF etag = None THEN @ ELSE etag]
        ELSE list[i]]

\* The request is answered with an error.
SetUploadPartFailed(r) ==
    /\ r.op = "addFilePart" /\ r.at = "fail"
    /\ parts' = [parts EXCEPT ![r.file] = WithFirst(@, r.part, "failed", None)]
    /\ Ends(r)
    /\ UNCHANGED <<storageVars, entryVars, s3UploadId, uploadedSize, clientVars, disturbed>>

\* Mutant of IsComplete: off by one.
PassedSize(size, f) == size > NumParts[f]

IsComplete(size, f) == size = NumParts[f]

\* Mutant of SetUploadPartCompletedAndUpdateSize: the file is marked as finished
\* without the multipart upload having been completed.
CompletedUnassembled(r) ==
    LET f == r.file
        list == WithFirst(parts[f], r.part, "completed", Chunks(f)[r.part])
    IN  /\ r.op = "addFilePart" /\ r.at = "complete"
        /\ parts' = [parts EXCEPT ![f] = list]
        /\ uploadedSize' = [uploadedSize EXCEPT ![f] = @ + 1]
        /\ Becomes(r, [r EXCEPT !.at = "mark"])
        /\ UNCHANGED <<storageVars, entryVars, s3UploadId, clientVars, disturbed>>

\* One update marks the part and adds its size; the handler goes on with the
\* document that update returned.
SetUploadPartCompletedAndUpdateSize(r) ==
    LET f == r.file
        list == WithFirst(parts[f], r.part, "completed", Chunks(f)[r.part])
    IN  /\ r.op = "addFilePart" /\ r.at = "complete"
        /\ parts' = [parts EXCEPT ![f] = list]
        /\ uploadedSize' = [uploadedSize EXCEPT ![f] = @ + 1]
        /\ \/ /\ IsComplete(uploadedSize[f] + 1, f)
              /\ Becomes(r, [r EXCEPT !.at = "finish", !.list = list])
              /\ UNCHANGED acked
           \/ /\ ~IsComplete(uploadedSize[f] + 1, f)
              /\ Acknowledge(f, r.part)
              /\ Ends(r)
        /\ UNCHANGED <<storageVars, entryVars, s3UploadId, sent, disturbed>>

FinishMultiPartUpload(r) ==
    /\ r.op = "addFilePart" /\ r.at = "finish"
    /\ finishMultiPartUpload(r.s3, r.list)
    /\ Becomes(r, [r EXCEPT !.at = "mark", !.list = <<>>])
    /\ UNCHANGED <<entryVars, uploadVars, clientVars, disturbed>>

\* Mutant of FinishRefused: the error is logged and the request answered with
\* success.
FinishErrorIgnored(r) ==
    /\ r.op = "addFilePart" /\ r.at = "finish"
    /\ ~Acceptable(r.s3, r.list)
    /\ Acknowledge(r.file, r.part)
    /\ Ends(r)
    /\ UNCHANGED <<storageVars, entryVars, uploadVars, sent, disturbed>>

\* S3 refuses the list or fails: the request is answered with an error, and the
\* upload stays as it is.
FinishRefused(r) ==
    /\ r.op = "addFilePart" /\ r.at = "finish"
    /\ \/ ~Acceptable(r.s3, r.list) /\ UNCHANGED disturbed
       \/ StorageMayFail /\ disturbed' = TRUE
    /\ Ends(r)
    /\ UNCHANGED <<storageVars, entryVars, uploadVars, clientVars>>

\* The request is answered; the analysis goes on without it.
FileUploadFinishedAt(r) ==
    /\ r.op = "addFilePart" /\ r.at = "mark"
    /\ finished' = [finished EXCEPT ![r.file] = TRUE]
    /\ Acknowledge(r.file, r.part)
    /\ Becomes(r, [r EXCEPT !.op = "analyzeUpload", !.at = "analyze"])
    /\ UNCHANGED <<storageVars, registration, metadata, uploadVars, sent, disturbed>>

-----------------------------------------------------------------------------
(* Analysis                                                                *)

\* What ffprobe says of the object: the probe of the file whose content it is.
Analysis(p) ==
    IF \E f \in File : object[p] = Chunks(f)
    THEN analyzeFile(Probe[CHOOSE f \in File : object[p] = Chunks(f)])
    ELSE Unsupported

\* Download and analysis, or an error on the way.
AnalyzeUpload(r) ==
    /\ r.op = "analyzeUpload" /\ r.at = "analyze"
    /\ \/ /\ Becomes(r, [r EXCEPT !.at = "describe", !.metadata = Analysis(NameOf[r.file])])
          /\ UNCHANGED disturbed
       \/ /\ StorageMayFail
          /\ Becomes(r, [r EXCEPT !.at = "describe", !.metadata = Unsupported])
          /\ disturbed' = TRUE
    /\ UNCHANGED <<storageVars, entryVars, uploadVars, clientVars>>

AddMetadataToFile(r) ==
    /\ r.op = "analyzeUpload" /\ r.at = "describe"
    /\ metadata' = [metadata EXCEPT ![r.file] = r.metadata]
    /\ Ends(r)
    /\ UNCHANGED <<storageVars, registration, finished, uploadVars, clientVars, disturbed>>

\* The process is restarted: its handlers are gone, their clients get an error.
Restart ==
    /\ MayRestart
    /\ requests # {}
    /\ requests' = {}
    /\ disturbed' = TRUE
    /\ UNCHANGED <<storageVars, entryVars, uploadVars, clientVars>>

-----------------------------------------------------------------------------
HandlerStep(r) ==
    \/ FindWorkspace(r)
    \/ PushFile(r)
    \/ FindUpload(r)
    \/ CreateS3MultipartUpload(r)
    \/ AddPartToUpload(r)
    \/ StorePart(r)
    \/ StorePartFails(r)
    \/ SetUploadPartFailed(r)
    \/ SetUploadPartCompletedAndUpdateSize(r)
    \/ FinishMultiPartUpload(r)
    \/ FinishRefused(r)
    \/ FileUploadFinishedAt(r)
    \/ AnalyzeUpload(r)
    \/ AddMetadataToFile(r)

\* Every client has got its answers and has nothing left to send.
Done ==
    /\ requests = {}
    /\ \A f \in File : registration[f] # "none" /\ \A k \in Part(f) : ~MaySend(f, k)
    /\ UNCHANGED vars

Next ==
    \/ \E f \in File : SendAddFile(f) \/ \E k \in Part(f) : SendPart(f, k)
    \/ \E r \in requests : HandlerStep(r)
    \/ Restart
    \/ Done

Spec == Init /\ [][Next]_vars
=============================================================================
