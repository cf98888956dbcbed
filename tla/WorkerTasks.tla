---------------------------- MODULE WorkerTasks -----------------------------
(***************************************************************************)
(* Workers carrying out tasks (worker/lib/tasks/types): the files a task   *)
(* needs are downloaded into the worker's directory, ffmpeg makes a file   *)
(* of them, which is uploaded as the task's result, and the directory is   *)
(* cleared.  A worker carries out one task at a time.  The directory       *)
(* outlives the process of the worker.                                     *)
(*                                                                         *)
(* The content of a file is a tuple: a source, what ffmpeg makes of other  *)
(* contents, or Partial, what a process leaves that was killed.            *)
(***************************************************************************)
EXTENDS SequencesExt

CONSTANTS Worker, Source   \* the workers; the storage's keys before any task

VARIABLES
    storage,           \* storage[k]: the content of the object of key k
    disk,              \* disk[w][p]: the content of file p in w's directory
    work               \* work[w]: the task w carries out and how far it is

workerVars == <<storage, disk, work>>

Partial == <<"partial">>
Idle == [at |-> "idle"]

WorkersInit ==
    /\ storage = [k \in Source |-> <<"source", k>>]
    /\ disk = [w \in Worker |-> <<>>]
    /\ work = [w \in Worker |-> Idle]

Is(w, point) == work[w].at = point
Sets(w, k) == work' = [work EXCEPT ![w] = k]

\* The files f and one of key k with the content v, in place of the one there was.
With(f, k, v) == [x \in DOMAIN f \cup {k} |-> IF x = k THEN v ELSE f[x]]

-----------------------------------------------------------------------------
\* The keys a task downloads: one, or those it splices.
FileKeys(task) == task.parameters.keys

\* The files that are spliced are collected in a HashSet, which lists them in the
\* order of their first occurrence.
Listed(task) ==
    {i \in DOMAIN FileKeys(task) : \A j \in 1..(i - 1) : FileKeys(task)[j] # FileKeys(task)[i]}

\* Where ffmpeg writes to.
Destination(task) ==
    CASE task.name = "Split"         -> <<"output.mp4">>
      [] task.name = "Splice"        -> <<Last(task.results[1])>>
      [] task.name = "ConvertFormat" -> FileKeys(task)[1] \o <<"converted">>

\* What ffmpeg makes of files with the content c.
Encoded(task, c) ==
    CASE task.name = "Split"         -> <<"cut", c[FileKeys(task)[1]], task.parameters.cut>>
      [] task.name = "Splice"        -> <<"splice", [i \in Listed(task) |-> c[FileKeys(task)[i]]]>>
      [] task.name = "ConvertFormat" -> <<"converted", c[FileKeys(task)[1]]>>

\* The message is received, and the task started.
StartTask(w, task) ==
    /\ Is(w, "idle")
    /\ Sets(w, [task |-> task, at |-> "download", left |-> FileKeys(task)])
    /\ UNCHANGED <<storage, disk>>

\* A download overwrites the file.
Download(w) ==
    /\ Is(w, "download")
    /\ LET key == Head(work[w].left)
       IN  /\ key \in DOMAIN storage
           /\ disk' = [disk EXCEPT ![w] = With(@, key, storage[key])]
           /\ Sets(w, IF Len(work[w].left) = 1
                      THEN [task |-> work[w].task, at |-> "encode"]
                      ELSE [work[w] EXCEPT !.left = Tail(@)])
    /\ UNCHANGED storage

Reports(w, outcome) == Sets(w, [task |-> work[w].task, at |-> outcome])
CleansUpAndReports(w, outcome) == Sets(w, [task |-> work[w].task, at |-> "cleanUp", outcome |-> outcome])

\* The downloads are outside of the try block: nothing is cleaned up.
DownloadFails(w) ==
    /\ Is(w, "download")
    /\ Reports(w, "failed")
    /\ UNCHANGED <<storage, disk>>

\* A file ffmpeg has been asked to write is there already: it is not overwritten.
Refuses(w) == Destination(work[w].task) \in DOMAIN disk[w]

\* ffmpeg succeeds; Split deletes the file it has cut.
RunFFmpeg(w) ==
    LET task == work[w].task
        sources == IF task.name = "Split" THEN {FileKeys(task)[1]} ELSE {}
        others == [p \in DOMAIN disk[w] \ sources |-> disk[w][p]]
    IN  /\ Is(w, "encode")
        /\ ~Refuses(w)
        /\ disk' = [disk EXCEPT ![w] = With(others, Destination(task), Encoded(task, disk[w]))]
        /\ Sets(w, [task |-> task, at |-> "upload"])
        /\ UNCHANGED storage

\* Mutant of RunFFmpegRefused: the exit code is not looked at.
ExitCodeIgnored(w) ==
    /\ Is(w, "encode")
    /\ Refuses(w)
    /\ Sets(w, [task |-> work[w].task, at |-> "upload"])
    /\ UNCHANGED <<storage, disk>>

RunFFmpegRefused(w) ==
    /\ Is(w, "encode")
    /\ Refuses(w)
    /\ CleansUpAndReports(w, "failed")
    /\ UNCHANGED <<storage, disk>>

\* ffmpeg fails otherwise, and may leave a part of the output.
RunFFmpegFails(w) ==
    /\ Is(w, "encode")
    /\ ~Refuses(w)
    /\ \/ UNCHANGED disk
       \/ disk' = [disk EXCEPT ![w] = With(@, Destination(work[w].task), Partial)]
    /\ CleansUpAndReports(w, "failed")
    /\ UNCHANGED storage

Upload(w) ==
    LET task == work[w].task
    IN  /\ Is(w, "upload")
        /\ storage' = With(storage, task.results[1], disk[w][Destination(task)])
        /\ CleansUpAndReports(w, "completed")
        /\ UNCHANGED disk

UploadFails(w) ==
    /\ Is(w, "upload")
    /\ CleansUpAndReports(w, "failed")
    /\ UNCHANGED <<storage, disk>>

\* Mutant of CleanUp: only what succeeded is cleaned up.
CleanUpAfterSuccess(w) ==
    /\ Is(w, "cleanUp")
    /\ disk' = [disk EXCEPT ![w] = IF work[w].outcome = "completed" THEN <<>> ELSE @]
    /\ Reports(w, work[w].outcome)
    /\ UNCHANGED storage

CleanUp(w) ==
    /\ Is(w, "cleanUp")
    /\ disk' = [disk EXCEPT ![w] = <<>>]
    /\ Reports(w, work[w].outcome)
    /\ UNCHANGED storage

\* The process is killed; ffmpeg may have written a part of its output.
Kill(w) ==
    /\ ~Is(w, "idle")
    /\ Sets(w, Idle)
    /\ \/ UNCHANGED disk
       \/ /\ Is(w, "encode") /\ ~Refuses(w)
          /\ disk' = [disk EXCEPT ![w] = With(@, Destination(work[w].task), Partial)]
    /\ UNCHANGED storage

WorkerStep(w) ==
    \/ Download(w)
    \/ RunFFmpeg(w)
    \/ RunFFmpegRefused(w)
    \/ Upload(w)
    \/ CleanUp(w)

WorkerFault(w) == DownloadFails(w) \/ RunFFmpegFails(w) \/ UploadFails(w)
=============================================================================
