--------------------------- MODULE StorageService ---------------------------
(***************************************************************************)
(* The api's access to the S3 bucket (api/src/storage).  The rules by      *)
(* which S3 accepts parts are the store's own; the api relies on them.     *)
(***************************************************************************)
EXTENDS Naturals, Sequences

CONSTANTS
    Path,              \* keys of objects
    None               \* "undefined"

VARIABLES
    multipart,         \* multipart[id]: the upload S3 has started under id
    object             \* object[p]: the chunks of the object at p, or None

storageVars == <<multipart, object>>

StorageInit ==
    /\ multipart = <<>>
    /\ object = [p \in Path |-> None]

\* Every call starts another upload, also for a path that has one.
startMultiPartUpload(path) ==
    multipart' = Append(multipart, [path |-> path, chunks |-> {}, open |-> TRUE])

\* Keeps the chunk under its number; a number sent again is replaced.  The ETag
\* is a digest of the content: it is the chunk itself here.
uplaodPart(id, number, chunk) ==
    /\ multipart[id].open
    /\ multipart' =
         [multipart EXCEPT ![id].chunks =
             {c \in @ : c.number # number} \cup {[number |-> number, etag |-> chunk]}]

\* S3 puts an object together from a list of numbers and ETags when the numbers
\* ascend and each was uploaded with that ETag.
Acceptable(id, list) ==
    /\ multipart[id].open
    /\ list # <<>>
    /\ \A i \in 1..Len(list) :
         /\ [number |-> list[i].number, etag |-> list[i].etag] \in multipart[id].chunks
         /\ \A j \in 1..(i - 1) : list[j].number < list[i].number

finishMultiPartUpload(id, list) ==
    /\ Acceptable(id, list)
    /\ multipart' = [multipart EXCEPT ![id].open = FALSE]
    /\ object' = [object EXCEPT ![multipart[id].path] = [i \in 1..Len(list) |-> list[i].etag]]
=============================================================================
