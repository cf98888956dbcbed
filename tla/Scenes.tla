------------------------------- MODULE Scenes -------------------------------
(***************************************************************************)
(* One scene of a workspace: clients create, edit, render and delete it    *)
(* (api/src/scenes), the task manager renders it, and the list of finished *)
(* videos of the frontend polls for it.                                    *)
(*                                                                         *)
(* A handler is a record in "requests"; every access to the database is a  *)
(* step of its own, and a handler that has read the scene goes on with its *)
(* copy.  The scene is one document, updated with MongoDB's operators,     *)
(* which are given by what they do to an array: a layer that is unset      *)
(* becomes Null, and a push beyond the end fills up with Null.  A clip is  *)
(* named by its file; times and names of clips are left out.  The files    *)
(* change as FileLifecycle allows, which module Upload implements.         *)
(***************************************************************************)
EXTENDS Naturals, FiniteSets, SequencesExt

CONSTANTS
    File,              \* files of the workspace, and clip ids
    Layer,             \* the layer indices clients use, from 1
    None,              \* no value: a missing scene, an id that is lost
    Null,              \* a layer that is null
    Draft,             \* the scenes that may be created: [clips, layers]
    Setup              \* [scene, files, budget]: where clients start, the files that
                       \* are described, how many requests of each kind they send

\* A clip in a document is its id, or has lost it.
ClipId == File \cup {None}
Layers == Seq(Seq(ClipId) \cup {Null})
DraftDocument == [clips : Seq(ClipId), layers : Layers]
SceneDocument == [clips : Seq(ClipId), layers : Layers, workflow : Nat \cup {None}, finished : BOOLEAN]

\* Clients start with a scene none of whose layers is null; what they send may be
\* any draft.
ASSUME ScenesAssumption ==
    /\ None \notin File \cup Nat \cup {"supported", "unsupported"} \cup SceneDocument
    /\ Null \notin Seq(ClipId)
    /\ Layer \subseteq Nat \ {0}
    /\ Draft \subseteq DraftDocument
    /\ \A s \in Setup :
         /\ s.files \subseteq File
         /\ s.scene # None => s.scene \in DraftDocument /\ Null \notin ToSet(s.scene.layers)

VARIABLES
    stored, complete, description,   \* the files, as in FileLifecycle
    scene,             \* the scene's document, or None
    requests,          \* handlers in flight
    workflows,         \* workflows[w]: the workflow started w-th
    events,            \* workflows whose workflow_finished is in the queue
    shown,             \* whether the list of videos shows the scene's video
    polling,           \* whether the list still polls
    budget,            \* budget[op]: how many requests of a kind are sent at most
    asked,             \* the requests sent
    acked              \* those answered with success

fileVars == <<stored, complete, description>>
listVars == <<shown, polling>>
clientVars == <<budget, asked, acked>>
vars == <<fileVars, scene, requests, workflows, events, listVars, clientVars>>

Files == INSTANCE FileLifecycle WITH
    Item <- File, Nothing <- None,
    Description <- [f \in File |-> {"supported", "unsupported"}]

\* A document as it is inserted.
NewScene(draft) ==
    [clips |-> draft.clips, layers |-> draft.layers, workflow |-> None, finished |-> FALSE]

Init ==
    \E s \in Setup :
        /\ scene = IF s.scene = None THEN None ELSE NewScene(s.scene)
        /\ stored = s.files /\ complete = s.files
        /\ description = [f \in File |-> IF f \in s.files THEN "supported" ELSE None]
        /\ budget = s.budget
        /\ requests = {} /\ workflows = <<>> /\ events = {}
        /\ shown = FALSE /\ polling = TRUE
        /\ asked = {} /\ acked = {}

-----------------------------------------------------------------------------
(* Requests                                                                *)

ToLayer == {"addClipToLayer", "removeClipFromLayer", "updateClipInLayer"}
OnDefinition == {"addClipToScene", "removeClipFromScene", "updateClipInScene"}
OnScene == {"create", "addLayer", "removeLayer", "update", "remove", "render", "restart"}
Op == ToLayer \cup OnDefinition \cup OnScene

\* What a request of a kind names: a clip, a layer, a draft.
Arguments(op) ==
    [clip : IF op \in ToLayer \cup OnDefinition THEN File ELSE {None},
     layer : IF op \in ToLayer \cup {"removeLayer"} THEN Layer ELSE {None},
     draft : IF op = "create" THEN Draft ELSE {None}]

SentOf(op) == {q \in asked : q.op = op}

Key(op, a) == [op |-> op, arg |-> a, nr |-> Cardinality(SentOf(op))]

\* create and addLayer do not read the scene first.
FirstPoint(op) == CASE op = "create" -> "validate" [] op = "addLayer" -> "write" [] OTHER -> "find"

Send(op, a) ==
    /\ Cardinality(SentOf(op)) < budget[op]
    /\ asked' = asked \cup {Key(op, a)}
    /\ requests' = requests \cup {[key |-> Key(op, a), at |-> FirstPoint(op), copy |-> a.draft]}
    /\ UNCHANGED <<fileVars, scene, workflows, events, listVars, budget, acked>>

Becomes(r, point, copy) == requests' = (requests \ {r}) \cup {[r EXCEPT !.at = point, !.copy = copy]}

\* Answered with an error: not found, a conflict, or an exception on a value
\* that is missing.
Refuse(r) ==
    /\ requests' = requests \ {r}
    /\ UNCHANGED <<fileVars, scene, workflows, events, listVars, clientVars>>

Acknowledge(r) ==
    /\ requests' = requests \ {r}
    /\ acked' = acked \cup {r.key}

At(r, op, point) == r.key.op = op /\ r.at = point

-----------------------------------------------------------------------------
(* Reading and checking                                                    *)

IsLayer(s, i) == i \in DOMAIN s.layers
IsInLayer(s, i, c) == IsLayer(s, i) /\ s.layers[i] # Null /\ Contains(s.layers[i], c)

\* What the handlers require of the scene they find.
Accepts(s, op, a) ==
    CASE op = "removeLayer"         -> IsLayer(s, a.layer)
      [] op = "addClipToScene"      -> ~Contains(s.clips, a.clip)
      [] op = "removeClipFromScene" -> Contains(s.clips, a.clip)
      [] op = "updateClipInScene"   -> Contains(s.clips, a.clip)
      [] op = "addClipToLayer"      -> IsLayer(s, a.layer) /\ s.layers[a.layer] # Null
      [] op = "removeClipFromLayer" -> IsInLayer(s, a.layer, a.clip)
      [] op = "updateClipInLayer"   -> IsInLayer(s, a.layer, a.clip)
      [] OTHER                      -> TRUE

\* The copy of the scene a handler goes on with: those that validate it keep it,
\* addClipToLayer with its clip pushed.
Copy(op, a) ==
    CASE op = "render"         -> scene
      [] op = "addClipToLayer" -> [scene EXCEPT !.layers[a.layer] = Append(@, a.clip)]
      [] OTHER                 -> None

findOne(r) ==
    LET op == r.key.op
        a == r.key.arg
    IN  /\ r.at = "find"
        /\ \/ /\ scene # None /\ Accepts(scene, op, a)
              /\ Becomes(r, IF op \in {"render", "addClipToLayer", "addClipToScene"}
                            THEN "validate" ELSE "write", Copy(op, a))
              /\ UNCHANGED <<fileVars, scene, workflows, events, listVars, clientVars>>
           \/ /\ ~(scene # None /\ Accepts(scene, op, a))
              /\ Refuse(r)

\* Every file of the workspace is listed; the clips of the layers are defined.
\* Unless files may still be uploading, they are finished and described.
validateClipAvailability(s, partialUploadAllowed) ==
    /\ \A c \in ToSet(s.clips) :
         /\ c \in File
         /\ partialUploadAllowed \/ (c \in complete /\ description[c] # None)
         /\ description[c] # "unsupported"
    /\ \A l \in ToSet(s.layers) : l # Null /\ ToSet(l) \subseteq ToSet(s.clips)

\* Mutant of IsValid: a scene is rendered although files are still uploading.
IsValidPartly(r) ==
    r.key.op # "addClipToScene" => validateClipAvailability(r.copy, TRUE)

\* The check that follows the workspace having been read.
IsValid(r) ==
    r.key.op # "addClipToScene" => validateClipAvailability(r.copy, r.key.op # "render")

Validate(r) ==
    /\ r.at = "validate"
    /\ \/ /\ IsValid(r)
          /\ Becomes(r, "write", r.copy)
          /\ UNCHANGED <<fileVars, scene, workflows, events, listVars, clientVars>>
       \/ /\ ~IsValid(r)
          /\ Refuse(r)

-----------------------------------------------------------------------------
(* Updates of the document                                                 *)

\* A handler's last update: it changes the scene and answers, or finds no scene
\* to update and fails.
Update(r, point, s) ==
    /\ r.at = point
    /\ \/ /\ scene # None
          /\ scene' = s
          /\ Acknowledge(r)
          /\ UNCHANGED <<fileVars, workflows, events, listVars, budget, asked>>
       \/ scene = None /\ Refuse(r)

Others(list, x) == {i \in DOMAIN list : list[i] # x}

\* The k-th of the numbers in S.
Nth(S, k) == CHOOSE i \in S : Cardinality({j \in S : j <= i}) = k

\* What is not x, in its order.
Without(list, x) == [k \in 1..Cardinality(Others(list, x)) |-> list[Nth(Others(list, x), k)]]

\* list with the first of the clips c replaced by one without an id.
WithoutIdOf(list, c) ==
    [i \in DOMAIN list |->
        IF list[i] = c /\ \A j \in 1..(i - 1) : list[j] # c THEN None ELSE list[i]]

\* "layers.i.clips" pushed to: the array is extended up to i.
PushedTo(layers, i, c) ==
    [j \in 1..(IF i > Len(layers) THEN i ELSE Len(layers)) |->
        IF j = i THEN IF i \in DOMAIN layers THEN Append(layers[i], c) ELSE <<c>>
        ELSE IF j \in DOMAIN layers THEN layers[j] ELSE Null]

NeverCreated == scene = None /\ \A q \in acked : q.op \notin {"create", "remove"}

\* The only scene is the one created first; others are documents of their own.
Create(r) ==
    /\ At(r, "create", "write")
    /\ scene' = IF NeverCreated THEN NewScene(r.copy) ELSE scene
    /\ Acknowledge(r)
    /\ UNCHANGED <<fileVars, workflows, events, listVars, budget, asked>>

addLayerToScene(r) ==
    At(r, "addLayer", "write") /\ Update(r, "write", [scene EXCEPT !.layers = Append(@, <<>>)])

\* The first update of removeLayerFromScene: the layer is unset.
UnsetLayer(r) ==
    LET i == r.key.arg.layer
    IN  /\ At(r, "removeLayer", "write")
        /\ scene' = IF scene # None /\ IsLayer(scene, i)
                    THEN [scene EXCEPT !.layers[i] = Null] ELSE scene
        /\ Becomes(r, "pull", None)
        /\ UNCHANGED <<fileVars, workflows, events, listVars, clientVars>>

\* Mutant of PullNullLayers: the second update is left out.
KeepNullLayers(r) == At(r, "removeLayer", "pull") /\ Update(r, "pull", scene)

\* The second one: every layer that is null is removed.
PullNullLayers(r) ==
    /\ At(r, "removeLayer", "pull")
    /\ Update(r, "pull", [scene EXCEPT !.layers = Without(@, Null)])

addClipToScene(r) ==
    /\ At(r, "addClipToScene", "write")
    /\ Update(r, "write", [scene EXCEPT !.clips = Append(@, r.key.arg.clip)])

removeClipFromScene(r) ==
    /\ At(r, "removeClipFromScene", "write")
    /\ Update(r, "write", [scene EXCEPT !.clips = Without(@, r.key.arg.clip)])

\* The definition is replaced by what the client sent, which has no id.  A
\* definition that is gone is not matched.
updateClipInScene(r) ==
    /\ At(r, "updateClipInScene", "write")
    /\ \/ /\ scene # None => Contains(scene.clips, r.key.arg.clip)
          /\ Update(r, "write", [scene EXCEPT !.clips = WithoutIdOf(@, r.key.arg.clip)])
       \/ /\ scene # None /\ ~Contains(scene.clips, r.key.arg.clip)
          /\ Refuse(r)

\* Mutant of addClipToLayer: the copy that was validated is saved.
SaveCopyWithClip(r) ==
    /\ At(r, "addClipToLayer", "write")
    /\ Update(r, "write", [scene EXCEPT !.layers = r.copy.layers])

\* The database refuses to push to a layer that is null.
addClipToLayer(r) ==
    LET i == r.key.arg.layer
    IN  /\ At(r, "addClipToLayer", "write")
        /\ \/ /\ scene # None => ~(IsLayer(scene, i) /\ scene.layers[i] = Null)
              /\ Update(r, "write", [scene EXCEPT !.layers = PushedTo(@, i, r.key.arg.clip)])
           \/ /\ scene # None /\ IsLayer(scene, i) /\ scene.layers[i] = Null
              /\ Refuse(r)

\* There may be nothing to pull from any more, which is no error.
removeClipFromLayer(r) ==
    LET i == r.key.arg.layer
    IN  /\ At(r, "removeClipFromLayer", "write")
        /\ Update(r, "write", IF IsInLayer(scene, i, r.key.arg.clip)
                              THEN [scene EXCEPT !.layers[i] = Without(@, r.key.arg.clip)]
                              ELSE scene)

\* As in updateClipInScene, the id is lost.
updateClipInLayer(r) ==
    LET i == r.key.arg.layer
    IN  /\ At(r, "updateClipInLayer", "write")
        /\ \/ /\ scene # None => IsInLayer(scene, i, r.key.arg.clip)
              /\ Update(r, "write", [scene EXCEPT !.layers[i] = WithoutIdOf(@, r.key.arg.clip)])
           \/ /\ scene # None /\ ~IsInLayer(scene, i, r.key.arg.clip)
              /\ Refuse(r)

\* The video is replaced, and with it the workflow and whether it has finished.
update(r) ==
    /\ At(r, "update", "write")
    /\ Update(r, "write", [scene EXCEPT !.workflow = None, !.finished = FALSE])

remove(r) ==
    /\ At(r, "remove", "write")
    /\ scene' = None
    /\ Acknowledge(r)
    /\ UNCHANGED <<fileVars, workflows, events, listVars, budget, asked>>

-----------------------------------------------------------------------------
(* Rendering                                                               *)

\* Mutant of CanPlan: an empty layer is planned, too.
PlansEmptyLayer(s) == Len(s.layers) = 1

\* The only strategy renders one layer, and fails on an empty one.
CanPlan(s) == \E l \in ToSet(s.layers) : s.layers = <<l>> /\ l # <<>>

\* The task manager has created the workflow.  The request is answered while the
\* workflow is being registered.
renderScene(r) ==
    /\ At(r, "render", "write")
    /\ \/ /\ CanPlan(r.copy)
          /\ workflows' = Append(workflows, [status |-> "running", clips |-> ToSet(r.copy.layers[1])])
          /\ acked' = acked \cup {r.key}
          /\ Becomes(r, "register", Len(workflows) + 1)
          /\ UNCHANGED <<fileVars, scene, events, listVars, budget, asked>>
       \/ ~CanPlan(r.copy) /\ Refuse(r)

registerWorkflowForScene(r) ==
    /\ At(r, "render", "register")
    /\ scene' = IF scene = None THEN None ELSE [scene EXCEPT !.workflow = r.copy]
    /\ requests' = requests \ {r}
    /\ UNCHANGED <<fileVars, workflows, events, listVars, clientVars>>

\* Mutant of WorkflowEnds: the task manager does not send workflow_finished.
EndsSilently(w) ==
    /\ workflows[w].status = "running"
    /\ \E s \in {"succeeded", "failed"} : workflows' = [workflows EXCEPT ![w].status = s]
    /\ UNCHANGED <<fileVars, scene, requests, events, listVars, clientVars>>

\* A workflow that fails is not announced.
WorkflowEnds(w) ==
    /\ workflows[w].status = "running"
    /\ \E s \in {"succeeded", "failed"} :
         /\ workflows' = [workflows EXCEPT ![w].status = s]
         /\ events' = IF s = "succeeded" THEN events \cup {w} ELSE events
    /\ UNCHANGED <<fileVars, scene, requests, listVars, clientVars>>

\* The message is taken off the queue before it is handled.
workflowFinished(w) ==
    /\ w \in events
    /\ events' = events \ {w}
    /\ requests' = requests \cup
         {[key |-> [op |-> "workflowFinished", arg |-> None, nr |-> 0], at |-> "write", copy |-> w]}
    /\ UNCHANGED <<fileVars, scene, workflows, listVars, clientVars>>

\* Mutant of finishProcessingOfWorkflow: whichever workflow the scene waits for.
FinishAnyScene(r) ==
    /\ At(r, "workflowFinished", "write")
    /\ scene' = IF scene # None THEN [scene EXCEPT !.finished = TRUE] ELSE scene
    /\ requests' = requests \ {r}
    /\ UNCHANGED <<fileVars, workflows, events, listVars, clientVars>>

\* The update of the scene that is registered with this workflow, if there is one.
finishProcessingOfWorkflow(r) ==
    /\ At(r, "workflowFinished", "write")
    /\ scene' = IF scene # None /\ scene.workflow = r.copy
                THEN [scene EXCEPT !.finished = TRUE] ELSE scene
    /\ requests' = requests \ {r}
    /\ UNCHANGED <<fileVars, workflows, events, listVars, clientVars>>

-----------------------------------------------------------------------------
(* The list of finished videos, and the environment                        *)

\* findAll appends a download link to a scene that is finished.
HasDownloadUrl == scene # None /\ scene.finished

fetchVideos ==
    /\ polling
    /\ shown' = HasDownloadUrl
    /\ UNCHANGED <<fileVars, scene, requests, workflows, events, polling, clientVars>>

\* Restarted, the api has lost its handlers.  A poll that got no answer ends the
\* list's subscription.
Restart ==
    /\ Cardinality(SentOf("restart")) < budget["restart"]
    /\ asked' = asked \cup {Key("restart", None)}
    /\ requests' = {}
    /\ polling' \in {polling, FALSE}
    /\ UNCHANGED <<fileVars, scene, workflows, events, shown, budget, acked>>

FilesGoOn ==
    /\ \E f \in File : (f \notin stored /\ Files!Store({f})) \/ Files!Finish(f) \/ Files!Describe(f)
    /\ UNCHANGED <<scene, requests, workflows, events, listVars, clientVars>>

-----------------------------------------------------------------------------
HandlerStep(r) ==
    \/ findOne(r)
    \/ Validate(r)
    \/ Create(r)
    \/ addLayerToScene(r)
    \/ UnsetLayer(r)
    \/ PullNullLayers(r)
    \/ addClipToScene(r)
    \/ removeClipFromScene(r)
    \/ updateClipInScene(r)
    \/ addClipToLayer(r)
    \/ removeClipFromLayer(r)
    \/ updateClipInLayer(r)
    \/ update(r)
    \/ remove(r)
    \/ renderScene(r)
    \/ registerWorkflowForScene(r)
    \/ finishProcessingOfWorkflow(r)

Next ==
    \/ \E op \in Op \ {"restart"} : \E a \in Arguments(op) : Send(op, a)
    \/ \E r \in requests : HandlerStep(r)
    \/ \E w \in DOMAIN workflows : WorkflowEnds(w) \/ workflowFinished(w)
    \/ fetchVideos
    \/ Restart
    \/ FilesGoOn

Spec == Init /\ [][Next]_vars
=============================================================================
