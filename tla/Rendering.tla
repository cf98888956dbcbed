----------------------------- MODULE Rendering ------------------------------
(***************************************************************************)
(* One scene from the list of videos it is made of to the video in the     *)
(* object storage: the home page, the render plan, what the task manager   *)
(* accepts of it, and the workers.  A client may also send a workflow of   *)
(* its own.                                                                *)
(*                                                                         *)
(* Of the scheduler, the subject of module Scheduler, only what it ensures *)
(* is kept: a task is carried out by one worker at a time, when its        *)
(* artifacts have been reported, and again after a failure while it has    *)
(* attempts left.  A task whose worker was killed may or may not be given  *)
(* to a worker again.                                                      *)
(***************************************************************************)
EXTENDS RenderPlan, WorkerTasks, FiniteSets

CONSTANTS
    File,              \* the videos there are, all uploaded
    Layers,            \* the layers of scenes sent by other clients
    Workflow,          \* workflows (task lists) sent by other clients
    MaxVideos, MaxDrops, MaxFaults, MaxKills    \* bounds

\* A scene is a list of lists of clips.
IsScene(s) ==
    /\ IsSeq(s) /\ \A k \in DOMAIN s : IsSeq(s[k])
    /\ \A k \in DOMAIN s : \A i \in DOMAIN s[k] : s[k][i].from \in Int

\* A task has files to download, and its result is no file that is there already.
IsTask(task) ==
    /\ task.name \in {"Split", "Splice", "ConvertFormat"}
    /\ IsSeq(FileKeys(task)) /\ FileKeys(task) # <<>>
    /\ task.results[1] \notin Source

\* No two tasks have the same result, unless they do the same.
IsWorkflow(list) ==
    /\ \A n \in DOMAIN list : IsTask(list[n])
    /\ \A m, n \in DOMAIN list : list[m].results[1] = list[n].results[1] => list[m] = list[n]

\* Only videos have been uploaded.
ASSUME RenderingAssumption ==
    /\ Source \subseteq {FileKey(f) : f \in File}
    /\ Duration \in [File -> Nat]
    /\ \A s \in Layers : IsScene(s)
    /\ \A list \in Workflow : IsWorkflow(list)

VARIABLES
    videos,            \* the list of the home page
    selected,          \* the files that were selected, in this order
    drops,             \* how often a video was dragged
    layers,            \* the scene's layers
    stage,             \* "arrange", "scene", "sent", "rejected", "planless"
    tasks,             \* the tasks of the workflow
    edges,             \* the edges of its DAG
    published,         \* the artifacts reported to the task manager
    completed,         \* the tasks that have completed
    failures,          \* failures[n]: how often task n has failed
    faults, kills      \* failures of the environment so far

sceneVars == <<videos, selected, drops, layers>>
managerVars == <<published, completed, failures>>
vars == <<sceneVars, stage, tasks, edges, managerVars, faults, kills, workerVars>>

Init ==
    /\ WorkersInit
    /\ videos = <<>> /\ selected = <<>> /\ drops = 0 /\ layers = <<>>
    /\ stage = "arrange" /\ tasks = <<>> /\ edges = <<>>
    /\ published = {} /\ completed = {} /\ failures = <<>>
    /\ faults = 0 /\ kills = 0

-----------------------------------------------------------------------------
(* The scene                                                               *)

\* A file may be selected again.
SelectVideo(f) ==
    /\ stage = "arrange"
    /\ Len(videos) < MaxVideos
    /\ videos' = Append(videos, f)
    /\ selected' = Append(selected, f)
    /\ UNCHANGED <<drops, layers, stage, tasks, edges, managerVars, faults, kills, workerVars>>

Drop(i, j) ==
    /\ stage = "arrange"
    /\ drops < MaxDrops /\ i # j
    /\ drops' = drops + 1
    /\ videos' = onDrop(videos, i, j)
    /\ UNCHANGED <<selected, layers, stage, tasks, edges, managerVars, faults, kills, workerVars>>

\* The files are uploaded first, all at once.  Of a file that is listed twice the
\* second upload may find its name taken, and then no scene is created; or both
\* find it free (workspaces.service.ts:37).
CreateHomeScene ==
    /\ stage = "arrange" /\ videos # <<>>
    /\ layers' = homeLayer(videos)
    /\ stage' = "scene"
    /\ UNCHANGED <<videos, selected, drops, tasks, edges, managerVars, faults, kills, workerVars>>

\* Another client sends a scene.
CreateScene ==
    /\ stage = "arrange" /\ videos = <<>>
    /\ layers' \in Layers
    /\ stage' = "scene"
    /\ UNCHANGED <<videos, selected, drops, tasks, edges, managerVars, faults, kills, workerVars>>

-----------------------------------------------------------------------------
(* The workflow                                                            *)

\* The task manager parses the workflow it is sent.
Submit(list) ==
    /\ tasks' = list
    /\ edges' = parse(list).edges
    /\ failures' = [n \in DOMAIN list |-> 0]
    /\ stage' = IF parse(list).error = "none" THEN "sent" ELSE "rejected"
    /\ UNCHANGED <<sceneVars, published, completed, faults, kills, workerVars>>

RenderScene ==
    /\ stage = "scene"
    /\ \/ createRenderPlan(layers) # <<>> /\ Submit(createRenderPlan(layers))
       \/ /\ createRenderPlan(layers) = <<>>
          /\ stage' = "planless"
          /\ UNCHANGED <<sceneVars, tasks, edges, managerVars, faults, kills, workerVars>>

SendWorkflow ==
    /\ stage = "arrange" /\ videos = <<>>
    /\ \E list \in Workflow : Submit(list)

Unfinished(n) == n \notin completed /\ failures[n] <= tasks[n].maxRetryCount

GiveTask(n, w) ==
    /\ stage = "sent"
    /\ Unfinished(n)
    /\ StartTask(w, tasks[n])
    /\ \A v \in Worker : ~Is(v, "idle") => work[v].task # tasks[n]
    /\ ~hasOpenDependencies(edges, n, completed, published)
    /\ UNCHANGED <<sceneVars, stage, tasks, edges, managerVars, faults, kills>>

NodesOf(w) == {n \in DOMAIN tasks : tasks[n] = work[w].task}

\* The worker reports the task completed, and its results.
ReportCompleted(w) ==
    /\ Is(w, "completed")
    /\ completed' = completed \cup NodesOf(w)
    /\ published' = published \cup ToSet(work[w].task.results)
    /\ Sets(w, Idle)
    /\ UNCHANGED <<sceneVars, stage, tasks, edges, failures, faults, kills, storage, disk>>

ReportFailed(w) ==
    /\ Is(w, "failed")
    /\ failures' = [n \in DOMAIN tasks |-> failures[n] + (IF n \in NodesOf(w) THEN 1 ELSE 0)]
    /\ Sets(w, Idle)
    /\ UNCHANGED <<sceneVars, stage, tasks, edges, published, completed, faults, kills, storage, disk>>

-----------------------------------------------------------------------------
WorkerGoesOn(w) ==
    \/ ReportCompleted(w) \/ ReportFailed(w)
    \/ WorkerStep(w) /\ UNCHANGED <<sceneVars, stage, tasks, edges, managerVars, faults, kills>>

Fault(w) ==
    /\ faults < MaxFaults
    /\ WorkerFault(w)
    /\ faults' = faults + 1
    /\ UNCHANGED <<sceneVars, stage, tasks, edges, managerVars, kills>>

WorkerKilled(w) ==
    /\ kills < MaxKills
    /\ Kill(w)
    /\ kills' = kills + 1
    /\ UNCHANGED <<sceneVars, stage, tasks, edges, managerVars, faults>>

Finished ==
    /\ stage \in {"rejected", "planless"} \/ (stage = "sent" /\ \A n \in DOMAIN tasks : ~Unfinished(n))
    /\ \A w \in Worker : Is(w, "idle")
    /\ UNCHANGED vars

Next ==
    \/ \E f \in File : SelectVideo(f)
    \/ \E i, j \in DOMAIN videos : Drop(i, j)
    \/ CreateHomeScene \/ CreateScene \/ RenderScene \/ SendWorkflow
    \/ \E n \in DOMAIN tasks, w \in Worker : GiveTask(n, w)
    \/ \E w \in Worker : WorkerGoesOn(w) \/ Fault(w) \/ WorkerKilled(w)
    \/ Finished

Spec == Init /\ [][Next]_vars
=============================================================================
