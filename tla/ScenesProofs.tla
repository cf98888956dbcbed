---------------------------- MODULE ScenesProofs ----------------------------
(***************************************************************************)
(* Proofs about module Scenes, for any files, any drafts and any requests  *)
(* of any number of clients.                                               *)
(*                                                                         *)
(* A scene is rendered from the copy a handler has read and validated,     *)
(* while others edit the scene and files go on.  That is safe because the  *)
(* copy is not read again and what it was validated against is final: a    *)
(* file that is finished and described stays so (FilesOnlyAdvance), and a  *)
(* workflow that has succeeded does too (WorkflowEndsOnce).                *)
(***************************************************************************)
EXTENDS ScenesProperties, FiniteSetTheorems, TLAPS

\* A file that may be rendered.
Usable(c) == c \in File /\ c \in complete /\ description[c] = "supported"

\* A copy of the scene that may be rendered: clips that are usable, and layers
\* that have no others.
Renderable(s) ==
    /\ \A c \in ToSet(s.clips) : Usable(c)
    /\ \A l \in ToSet(s.layers) : ToSet(l) \subseteq ToSet(s.clips)

HasSucceeded(w) == w \in 1..Len(workflows) /\ workflows[w].status = "succeeded"

RequestSound(r) ==
    /\ DOMAIN r = {"key", "at", "copy"}
    /\ At(r, "render", "write") => Renderable(r.copy)
    /\ At(r, "render", "register") => r.copy \in 1..Len(workflows)
    /\ r.key.op = "workflowFinished" => r.at = "write" /\ HasSucceeded(r.copy)

SceneSound(s) ==
    s # None =>
        /\ DOMAIN s = {"clips", "layers", "workflow", "finished"}
        /\ s.finished \in BOOLEAN
        /\ s.finished => s.workflow # None /\ \E w \in 1..Len(workflows) : HasSucceeded(w)

\* The scene with other clips and layers.
IsEdited(s) ==
    DOMAIN s = DOMAIN scene /\ s.workflow = scene.workflow /\ s.finished = scene.finished

Workflow == [status : {"running", "succeeded", "failed"}, clips : SUBSET File]

\* The inductive invariant.
ScenesInv ==
    /\ description \in [File -> {"supported", "unsupported", None}]
    /\ workflows \in Seq(Workflow)
    /\ \A w \in 1..Len(workflows) : \A c \in workflows[w].clips : Usable(c)
    /\ \A w \in events : HasSucceeded(w)
    /\ SceneSound(scene)
    /\ \A r \in requests : RequestSound(r)

\* What the invariant says of every other part of the state once some files and
\* workflows have got further.
Advances ==
    /\ \A c : Usable(c) => Usable(c)'
    /\ \A w : HasSucceeded(w) => HasSucceeded(w)'
    /\ workflows' \in Seq(Workflow)
    /\ Len(workflows) <= Len(workflows')

\* Clients start without handlers and workflows, with a scene that waits for none.
LEMMA ScenesInitial == Init => ScenesInv
<1> SUFFICES ASSUME Init PROVE ScenesInv
  OBVIOUS
<1>1. description \in [File -> {"supported", "unsupported", None}]
  BY DEF Init
<1>2. workflows = <<>> /\ events = {} /\ requests = {}
  BY DEF Init
<1>3. workflows \in Seq(Workflow) /\ Len(workflows) = 0
  BY <1>2
<1>4. PICK s \in Setup : scene = IF s.scene = None THEN None ELSE NewScene(s.scene)
  BY DEF Init
<1>5. SceneSound(scene)
  BY <1>4 DEF SceneSound, NewScene
<1>6. QED BY <1>1, <1>2, <1>3, <1>5 DEF ScenesInv

\* What is known of a request stays true while files and workflows advance.
LEMMA RequestStaysSound ==
    ASSUME Advances, workflows \in Seq(Workflow), NEW r, RequestSound(r)
    PROVE  RequestSound(r)'
<1>1. At(r, "render", "write") => Renderable(r.copy)'
  BY DEF Advances, RequestSound, Renderable
<1>2. At(r, "render", "register") => r.copy \in 1..Len(workflows')
  <2>1. Len(workflows) \in Nat /\ Len(workflows') \in Nat
    BY DEF Advances
  <2>2. QED BY <2>1 DEF Advances, RequestSound
<1>3. r.key.op = "workflowFinished" => r.at = "write" /\ HasSucceeded(r.copy)'
  BY DEF Advances, RequestSound
<1>4. QED BY <1>1, <1>2, <1>3 DEF RequestSound, At

\* So does what is known of a scene.
LEMMA SceneStaysSound ==
    ASSUME Advances, workflows \in Seq(Workflow), NEW s, SceneSound(s)
    PROVE  SceneSound(s)'
<1> SUFFICES ASSUME s # None, s.finished
             PROVE  \E w \in 1..Len(workflows') : HasSucceeded(w)'
  BY DEF SceneSound
<1>1. PICK w \in 1..Len(workflows) : HasSucceeded(w)
  BY DEF SceneSound
<1>2. HasSucceeded(w)'
  BY <1>1 DEF Advances
<1>3. QED BY <1>2 DEF HasSucceeded

\* A step that changes neither files nor workflows, leaves a sound scene and adds
\* sound handlers only.
LEMMA SoundStep ==
    ASSUME ScenesInv, UNCHANGED <<fileVars, workflows>>, events' \subseteq events,
           SceneSound(scene'),
           \A q \in requests' : q \in requests \/ RequestSound(q)
    PROVE  ScenesInv'
<1>1. UNCHANGED <<stored, complete, description, workflows>>
  BY DEF fileVars
<1>2. Advances
  BY <1>1 DEF ScenesInv, Advances, Usable, HasSucceeded
<1>3. workflows \in Seq(Workflow)
  BY DEF ScenesInv
<1>4. SceneSound(scene)'
  BY <1>1 DEF SceneSound, HasSucceeded
<1>5. ASSUME NEW q \in requests' PROVE RequestSound(q)'
  <2>1. RequestSound(q)
    BY <1>5 DEF ScenesInv
  <2>2. QED BY <2>1, <1>2, <1>3, RequestStaysSound
<1>6. \A w \in events' : HasSucceeded(w)'
  BY <1>2 DEF ScenesInv, Advances
<1>7. \A w \in 1..Len(workflows') : \A c \in workflows'[w].clips : Usable(c)'
  BY <1>1, <1>2 DEF ScenesInv, Advances
<1>8. QED BY <1>1, <1>4, <1>5, <1>6, <1>7 DEF ScenesInv

\* A new handler has read nothing yet: renderings start by finding the scene.
LEMMA SendSound ==
    ASSUME ScenesInv, NEW op \in Op \ {"restart"}, NEW a, Send(op, a)
    PROVE  ScenesInv'
<1> DEFINE new == [key |-> Key(op, a), at |-> FirstPoint(op), copy |-> a.draft]
<1>1. Key(op, a).op = op
  BY DEF Key
<1>2. op # "workflowFinished"
  BY DEF Op, ToLayer, OnDefinition, OnScene
<1>3. op = "render" => FirstPoint(op) = "find"
  BY DEF FirstPoint
<1>4. RequestSound(new)
  BY <1>1, <1>2, <1>3 DEF RequestSound, At
<1>5. \A q \in requests' : q \in requests \/ q = new
  BY DEF Send
<1> HIDE DEF new
<1>6. UNCHANGED <<fileVars, scene, workflows, events>>
  BY DEF Send
<1>7. SceneSound(scene')
  BY <1>6 DEF ScenesInv
<1>8. QED BY <1>4, <1>5, <1>6, <1>7, SoundStep

\* Nothing but the handler goes.
LEMMA RefuseSound ==
    ASSUME ScenesInv, NEW r \in requests, Refuse(r)
    PROVE  ScenesInv'
BY SoundStep DEF Refuse, ScenesInv

\* The handler goes on at a point where nothing is required of its copy.
LEMMA BecomesSound ==
    ASSUME ScenesInv, NEW r \in requests, NEW point, NEW copy, Becomes(r, point, copy),
           r.key.op # "workflowFinished",
           r.key.op = "render" => point \notin {"write", "register"},
           UNCHANGED <<fileVars, workflows, events>>, SceneSound(scene')
    PROVE  ScenesInv'
<1>1. PICK q : q = [r EXCEPT !.at = point, !.copy = copy]
  OBVIOUS
<1>2. DOMAIN q = DOMAIN r /\ q.key = r.key /\ q.at = point
  BY <1>1 DEF ScenesInv, RequestSound
<1>3. requests' = (requests \ {r}) \cup {q}
  BY <1>1 DEF Becomes
<1>4. RequestSound(q)
  BY <1>2 DEF ScenesInv, RequestSound, At
<1>5. QED BY <1>3, <1>4, SoundStep

\* A handler that finds what it asked for has validated nothing yet.
LEMMA FindSound ==
    ASSUME ScenesInv, NEW r \in requests, findOne(r)
    PROVE  ScenesInv'
<1>1. CASE Refuse(r)
  BY <1>1, RefuseSound
<1>2. CASE ~Refuse(r)
  <2> DEFINE point == IF r.key.op \in {"render", "addClipToLayer", "addClipToScene"}
                      THEN "validate" ELSE "write"
  <2>1. Becomes(r, point, Copy(r.key.op, r.key.arg)) /\ r.at = "find"
    BY <1>2 DEF findOne
  <2>2. UNCHANGED <<fileVars, scene, workflows, events>>
    BY <1>2 DEF findOne
  <2>3. r.key.op # "workflowFinished"
    BY <2>1 DEF ScenesInv, RequestSound
  <2>4. r.key.op = "render" => point \notin {"write", "register"}
    OBVIOUS
  <2>5. SceneSound(scene')
    BY <2>2 DEF ScenesInv
  <2> HIDE DEF point
  <2>6. PICK copy : copy = Copy(r.key.op, r.key.arg)
    OBVIOUS
  <2>7. Becomes(r, point, copy)
    BY <2>1, <2>6
  <2> QED BY <2>2, <2>3, <2>4, <2>5, <2>7, BecomesSound
<1>3. QED BY <1>1, <1>2

\* What a rendering goes on with has been validated: the clips of the scene are
\* uploaded, analysed and supported.
LEMMA ValidateSound ==
    ASSUME ScenesInv, NEW r \in requests, Validate(r)
    PROVE  ScenesInv'
<1>1. CASE Refuse(r)
  BY <1>1, RefuseSound
<1>2. CASE ~Refuse(r)
  <2>1. IsValid(r) /\ Becomes(r, "write", r.copy) /\ r.at = "validate"
    BY <1>2 DEF Validate
  <2>2. UNCHANGED <<fileVars, scene, workflows, events>>
    BY <1>2 DEF Validate
  <2>3. RequestSound(r)
    BY DEF ScenesInv
  <2>4. r.key.op # "workflowFinished"
    BY <2>1, <2>3 DEF RequestSound
  <2>5. r.key.op = "render" => Renderable(r.copy)
    <3> SUFFICES ASSUME r.key.op = "render" PROVE Renderable(r.copy)
      OBVIOUS
    <3>1. validateClipAvailability(r.copy, FALSE)
      BY <2>1 DEF IsValid
    <3>2. ASSUME NEW c \in ToSet(r.copy.clips) PROVE Usable(c)
      BY <3>1 DEF validateClipAvailability, ScenesInv, Usable
    <3>3. \A l \in ToSet(r.copy.layers) : ToSet(l) \subseteq ToSet(r.copy.clips)
      BY <3>1 DEF validateClipAvailability
    <3>4. QED BY <3>2, <3>3 DEF Renderable
  <2>6. PICK q : q = [[r EXCEPT !.at = "write"] EXCEPT !.copy = r.copy]
    OBVIOUS
  <2>7. requests' = (requests \ {r}) \cup {q}
    BY <2>1, <2>6 DEF Becomes
  <2>8. DOMAIN q = DOMAIN r /\ q.key = r.key /\ q.at = "write" /\ q.copy = r.copy
    BY <2>3, <2>6 DEF RequestSound
  <2>9. RequestSound(q)
    BY <2>3, <2>4, <2>5, <2>8 DEF RequestSound, At
  <2>10. SceneSound(scene')
    BY <2>2 DEF ScenesInv
  <2>11. QED BY <2>2, <2>7, <2>9, <2>10, SoundStep
<1>3. QED BY <1>1, <1>2

\* A handler's last update.
LEMMA UpdateSound ==
    ASSUME ScenesInv, NEW r \in requests, NEW point, NEW s, Update(r, point, s),
           scene # None => SceneSound(s)
    PROVE  ScenesInv'
<1>1. CASE Refuse(r)
  BY <1>1, RefuseSound
<1>2. CASE ~Refuse(r)
  <2>1. SceneSound(scene')
    BY <1>2 DEF Update
  <2>2. requests' = requests \ {r}
    BY <1>2 DEF Update, Acknowledge
  <2>3. UNCHANGED <<fileVars, workflows, events>>
    BY <1>2 DEF Update
  <2>4. QED BY <2>1, <2>2, <2>3, SoundStep
<1>3. QED BY <1>1, <1>2

\* Clips and layers may be edited at will.
LEMMA EditSound ==
    ASSUME ScenesInv, scene # None, NEW s, IsEdited(s)
    PROVE  SceneSound(s)
BY DEF IsEdited, ScenesInv, SceneSound

\* An action that updates clips or layers and answers.
LEMMA UpdateOfClips ==
    ASSUME ScenesInv, NEW r \in requests, NEW point, NEW s, Update(r, point, s),
           scene # None => IsEdited(s)
    PROVE  ScenesInv'
BY EditSound, UpdateSound

\* An empty layer is added.
LEMMA addLayerToSceneSound ==
    ASSUME ScenesInv, NEW r \in requests, addLayerToScene(r)
    PROVE  ScenesInv'
<1>1. SceneSound(scene)
  BY DEF ScenesInv
<1>2. PICK s : s = [scene EXCEPT !.layers = Append(@, <<>>)]
  OBVIOUS
<1>3. scene # None => IsEdited(s)
  BY <1>1, <1>2 DEF SceneSound, IsEdited
<1>4. Refuse(r) \/ Update(r, "write", s)
  BY <1>2 DEF addLayerToScene
<1>5. QED BY <1>3, <1>4, RefuseSound, UpdateOfClips

\* Layers that are null are pulled.
LEMMA PullNullLayersSound ==
    ASSUME ScenesInv, NEW r \in requests, PullNullLayers(r)
    PROVE  ScenesInv'
<1>1. SceneSound(scene)
  BY DEF ScenesInv
<1>2. PICK s : s = [scene EXCEPT !.layers = Without(@, Null)]
  OBVIOUS
<1>3. scene # None => IsEdited(s)
  BY <1>1, <1>2 DEF SceneSound, IsEdited
<1>4. Refuse(r) \/ Update(r, "pull", s)
  BY <1>2 DEF PullNullLayers
<1>5. QED BY <1>3, <1>4, RefuseSound, UpdateOfClips

\* A definition is pushed.
LEMMA addClipToSceneSound ==
    ASSUME ScenesInv, NEW r \in requests, addClipToScene(r)
    PROVE  ScenesInv'
<1>1. SceneSound(scene)
  BY DEF ScenesInv
<1>2. PICK s : s = [scene EXCEPT !.clips = Append(@, r.key.arg.clip)]
  OBVIOUS
<1>3. scene # None => IsEdited(s)
  BY <1>1, <1>2 DEF SceneSound, IsEdited
<1>4. Refuse(r) \/ Update(r, "write", s)
  BY <1>2 DEF addClipToScene
<1>5. QED BY <1>3, <1>4, RefuseSound, UpdateOfClips

\* Definitions of a clip are pulled.
LEMMA removeClipFromSceneSound ==
    ASSUME ScenesInv, NEW r \in requests, removeClipFromScene(r)
    PROVE  ScenesInv'
<1>1. SceneSound(scene)
  BY DEF ScenesInv
<1>2. PICK s : s = [scene EXCEPT !.clips = Without(@, r.key.arg.clip)]
  OBVIOUS
<1>3. scene # None => IsEdited(s)
  BY <1>1, <1>2 DEF SceneSound, IsEdited
<1>4. Refuse(r) \/ Update(r, "write", s)
  BY <1>2 DEF removeClipFromScene
<1>5. QED BY <1>3, <1>4, RefuseSound, UpdateOfClips

\* A definition is replaced.
LEMMA updateClipInSceneSound ==
    ASSUME ScenesInv, NEW r \in requests, updateClipInScene(r)
    PROVE  ScenesInv'
<1>1. SceneSound(scene)
  BY DEF ScenesInv
<1>2. PICK s : s = [scene EXCEPT !.clips = WithoutIdOf(@, r.key.arg.clip)]
  OBVIOUS
<1>3. scene # None => IsEdited(s)
  BY <1>1, <1>2 DEF SceneSound, IsEdited
<1>4. Refuse(r) \/ Update(r, "write", s)
  BY <1>2 DEF updateClipInScene
<1>5. QED BY <1>3, <1>4, RefuseSound, UpdateOfClips

\* A clip is pushed to a layer.
LEMMA addClipToLayerSound ==
    ASSUME ScenesInv, NEW r \in requests, addClipToLayer(r)
    PROVE  ScenesInv'
<1>1. SceneSound(scene)
  BY DEF ScenesInv
<1>2. PICK s : s = [scene EXCEPT !.layers = PushedTo(@, r.key.arg.layer, r.key.arg.clip)]
  OBVIOUS
<1>3. scene # None => IsEdited(s)
  BY <1>1, <1>2 DEF SceneSound, IsEdited
<1>4. Refuse(r) \/ Update(r, "write", s)
  BY <1>2 DEF addClipToLayer
<1>5. QED BY <1>3, <1>4, RefuseSound, UpdateOfClips

\* A clip is pulled from its layer, if that is still there.
LEMMA removeClipFromLayerSound ==
    ASSUME ScenesInv, NEW r \in requests, removeClipFromLayer(r)
    PROVE  ScenesInv'
<1>1. SceneSound(scene)
  BY DEF ScenesInv
<1>2. PICK s : s = IF IsInLayer(scene, r.key.arg.layer, r.key.arg.clip)
               THEN [scene EXCEPT !.layers[r.key.arg.layer] = Without(@, r.key.arg.clip)]
               ELSE scene
  OBVIOUS
<1>3. scene # None => IsEdited(s)
  BY <1>1, <1>2 DEF SceneSound, IsEdited
<1>4. Refuse(r) \/ Update(r, "write", s)
  BY <1>2 DEF removeClipFromLayer
<1>5. QED BY <1>3, <1>4, RefuseSound, UpdateOfClips

\* A clip of a layer is replaced.
LEMMA updateClipInLayerSound ==
    ASSUME ScenesInv, NEW r \in requests, updateClipInLayer(r)
    PROVE  ScenesInv'
<1>1. SceneSound(scene)
  BY DEF ScenesInv
<1>2. PICK s : s = [scene EXCEPT !.layers[r.key.arg.layer] = WithoutIdOf(@, r.key.arg.clip)]
  OBVIOUS
<1>3. scene # None => IsEdited(s)
  BY <1>1, <1>2 DEF SceneSound, IsEdited
<1>4. Refuse(r) \/ Update(r, "write", s)
  BY <1>2 DEF updateClipInLayer
<1>5. QED BY <1>3, <1>4, RefuseSound, UpdateOfClips

\* A layer is unset, and the handler goes on.
LEMMA UnsetLayerSound ==
    ASSUME ScenesInv, NEW r \in requests, UnsetLayer(r)
    PROVE  ScenesInv'
<1>1. SceneSound(scene)
  BY DEF ScenesInv
<1>2. PICK s : s = [scene EXCEPT !.layers[r.key.arg.layer] = Null]
  OBVIOUS
<1>3. scene # None => IsEdited(s)
  BY <1>1, <1>2 DEF SceneSound, IsEdited
<1>4. scene' = scene \/ (scene # None /\ scene' = s)
  BY <1>2 DEF UnsetLayer
<1>5. SceneSound(scene')
  BY <1>1, <1>3, <1>4, EditSound
<1>6. UNCHANGED <<fileVars, workflows, events>>
  BY DEF UnsetLayer
<1>7. Becomes(r, "pull", None) /\ r.key.op = "removeLayer"
  BY DEF UnsetLayer, At
<1>8. QED BY <1>5, <1>6, <1>7, BecomesSound

\* A scene is created.
LEMMA CreateSound ==
    ASSUME ScenesInv, NEW r \in requests, Create(r)
    PROVE  ScenesInv'
<1>1. SceneSound(NewScene(r.copy)) /\ SceneSound(scene)
  BY DEF ScenesInv, SceneSound, NewScene
<1>2. SceneSound(scene')
  BY <1>1 DEF Create
<1>3. requests' = requests \ {r} /\ UNCHANGED <<fileVars, workflows, events>>
  BY DEF Create, Acknowledge
<1>4. QED BY <1>2, <1>3, SoundStep

\* The video is replaced: the scene waits for no workflow and is not finished.
LEMMA updateSound ==
    ASSUME ScenesInv, NEW r \in requests, update(r)
    PROVE  ScenesInv'
<1>1. PICK s : s = [[scene EXCEPT !.workflow = None] EXCEPT !.finished = FALSE]
  OBVIOUS
<1>2. scene # None => DOMAIN s = DOMAIN scene /\ s.finished = FALSE
  BY <1>1 DEF ScenesInv, SceneSound
<1>3. scene # None => SceneSound(s)
  BY <1>2 DEF ScenesInv, SceneSound
<1>4. Update(r, "write", s)
  BY <1>1 DEF update
<1>5. QED BY <1>3, <1>4, UpdateSound

\* The scene is deleted.
LEMMA removeSound ==
    ASSUME ScenesInv, NEW r \in requests, remove(r)
    PROVE  ScenesInv'
<1>1. SceneSound(scene')
  BY DEF remove, SceneSound
<1>2. requests' = requests \ {r} /\ UNCHANGED <<fileVars, workflows, events>>
  BY DEF remove, Acknowledge
<1>3. QED BY <1>1, <1>2, SoundStep

\* The scene is registered with a workflow that was started, and keeps what it
\* was: finished or not.
LEMMA registerSound ==
    ASSUME ScenesInv, NEW r \in requests, registerWorkflowForScene(r)
    PROVE  ScenesInv'
<1>1. PICK s : s = [scene EXCEPT !.workflow = r.copy]
  OBVIOUS
<1>2. r.copy \in 1..Len(workflows) /\ Len(workflows) \in Nat
  BY DEF registerWorkflowForScene, ScenesInv, RequestSound
<1>3. r.copy # None
  BY <1>2, ScenesAssumption
<1>4. ASSUME scene # None PROVE SceneSound(s)
  <2>1. DOMAIN s = DOMAIN scene /\ s.workflow = r.copy /\ s.finished = scene.finished
    BY <1>1, <1>4 DEF ScenesInv, SceneSound
  <2>2. QED BY <1>3, <1>4, <2>1 DEF ScenesInv, SceneSound
<1>5. scene' = None \/ (scene # None /\ scene' = s)
  BY <1>1 DEF registerWorkflowForScene
<1>6. SceneSound(scene')
  BY <1>4, <1>5 DEF SceneSound
<1>7. requests' = requests \ {r} /\ UNCHANGED <<fileVars, workflows, events>>
  BY DEF registerWorkflowForScene
<1>8. QED BY <1>6, <1>7, SoundStep

\* Only a workflow that has succeeded finishes a scene, and only the scene that
\* is registered with it.
LEMMA finishProcessingSound ==
    ASSUME ScenesInv, NEW r \in requests, finishProcessingOfWorkflow(r)
    PROVE  ScenesInv'
<1>1. PICK s : s = [scene EXCEPT !.finished = TRUE]
  OBVIOUS
<1>2. HasSucceeded(r.copy) /\ r.copy \in 1..Len(workflows) /\ Len(workflows) \in Nat
  BY DEF finishProcessingOfWorkflow, At, ScenesInv, RequestSound, HasSucceeded
<1>3. r.copy # None
  BY <1>2, ScenesAssumption
<1>4. ASSUME scene # None, scene.workflow = r.copy PROVE SceneSound(s)
  <2>1. DOMAIN s = DOMAIN scene /\ s.workflow = r.copy /\ s.finished = TRUE
    BY <1>1, <1>4 DEF ScenesInv, SceneSound
  <2>2. QED BY <1>2, <1>3, <1>4, <2>1 DEF ScenesInv, SceneSound
<1>5. scene' = scene \/ (scene # None /\ scene.workflow = r.copy /\ scene' = s)
  BY <1>1 DEF finishProcessingOfWorkflow
<1>6. SceneSound(scene')
  BY <1>4, <1>5 DEF ScenesInv
<1>7. requests' = requests \ {r} /\ UNCHANGED <<fileVars, workflows, events>>
  BY DEF finishProcessingOfWorkflow
<1>8. QED BY <1>6, <1>7, SoundStep

\* A workflow that is announced has succeeded.
LEMMA workflowFinishedSound ==
    ASSUME ScenesInv, NEW w, workflowFinished(w)
    PROVE  ScenesInv'
<1> DEFINE new == [key |-> [op |-> "workflowFinished", arg |-> None, nr |-> 0],
                   at |-> "write", copy |-> w]
<1>1. HasSucceeded(w)
  BY DEF workflowFinished, ScenesInv
<1>2. RequestSound(new)
  BY <1>1 DEF RequestSound, At
<1>3. \A q \in requests' : q \in requests \/ q = new
  BY DEF workflowFinished
<1> HIDE DEF new
<1>4. UNCHANGED <<fileVars, scene, workflows>> /\ events' \subseteq events
  BY DEF workflowFinished
<1>5. SceneSound(scene')
  BY <1>4 DEF ScenesInv
<1>6. QED BY <1>2, <1>3, <1>4, <1>5, SoundStep

\* The invariant holds again when files and workflows have advanced and the
\* scene has not changed.
LEMMA AdvanceSound ==
    ASSUME ScenesInv, Advances, UNCHANGED scene,
           description' \in [File -> {"supported", "unsupported", None}],
           \A w \in 1..Len(workflows') : \A c \in workflows'[w].clips : Usable(c)',
           \A w \in events' : w \in events \/ HasSucceeded(w)',
           \A q \in requests' : q \in requests \/ RequestSound(q)'
    PROVE  ScenesInv'
<1>1. workflows \in Seq(Workflow)
  BY DEF ScenesInv
<1>2. ASSUME NEW q \in requests' PROVE RequestSound(q)'
  <2>1. CASE q \in requests
    <3>1. RequestSound(q)
      BY <2>1 DEF ScenesInv
    <3>2. QED BY <3>1, <1>1, RequestStaysSound
  <2>2. QED BY <1>2, <2>1
<1>3. SceneSound(scene)'
  <2>1. PICK s : s = scene
    OBVIOUS
  <2>2. SceneSound(s)
    BY <2>1 DEF ScenesInv
  <2>3. SceneSound(s)'
    BY <1>1, <2>2, SceneStaysSound
  <2>4. scene' = s
    BY <2>1
  <2>5. QED BY <2>3, <2>4 DEF SceneSound
<1>4. \A w \in events' : HasSucceeded(w)'
  BY DEF ScenesInv, Advances
<1>5. workflows' \in Seq(Workflow)
  BY DEF Advances
<1>6. QED BY <1>2, <1>3, <1>4, <1>5 DEF ScenesInv

\* A file that is finished and described stays so.
LEMMA FilesOnlyAdvance ==
    ASSUME ScenesInv, FilesGoOn
    PROVE  /\ \A c : Usable(c) => Usable(c)'
           /\ description' \in [File -> {"supported", "unsupported", None}]
<1>1. PICK f \in File :
         \/ Files!Store({f})
         \/ Files!Finish(f)
         \/ Files!Describe(f)
  BY DEF FilesGoOn
<1>2. CASE Files!Store({f}) \/ Files!Finish(f)
  BY <1>2 DEF Files!Store, Files!Finish, ScenesInv, Usable
<1>3. CASE Files!Describe(f)
  <2>1. description[f] = None /\ complete' = complete
    BY <1>3 DEF Files!Describe
  <2>2. PICK d \in {"supported", "unsupported"} : description' = [description EXCEPT ![f] = d]
    BY <1>3 DEF Files!Describe
  <2>3. None # "supported"
    BY ScenesAssumption
  <2>4. description \in [File -> {"supported", "unsupported", None}]
    BY DEF ScenesInv
  <2>5. \A c \in File : description[c] = "supported" => description'[c] = "supported"
    BY <2>1, <2>2, <2>3, <2>4
  <2>6. QED BY <2>1, <2>2, <2>4, <2>5 DEF Usable
<1>4. QED BY <1>1, <1>2, <1>3

\* Files go on.
LEMMA FilesGoOnSound ==
    ASSUME ScenesInv, FilesGoOn
    PROVE  ScenesInv'
<1>1. UNCHANGED <<scene, requests, workflows, events>>
  BY DEF FilesGoOn
<1>2. \A w : HasSucceeded(w) => HasSucceeded(w)'
  BY <1>1 DEF HasSucceeded
<1>3. Advances
  BY <1>1, <1>2, FilesOnlyAdvance DEF Advances, ScenesInv
<1>4. \A w \in 1..Len(workflows') : \A c \in workflows'[w].clips : Usable(c)'
  BY <1>1, FilesOnlyAdvance DEF ScenesInv
<1>5. QED BY <1>1, <1>3, <1>4, FilesOnlyAdvance, AdvanceSound

\* A workflow ends once: what has succeeded does not change.
LEMMA WorkflowEndsOnce ==
    ASSUME ScenesInv, NEW w \in DOMAIN workflows, WorkflowEnds(w)
    PROVE  ScenesInv'
<1>1. PICK st \in {"succeeded", "failed"} :
        /\ workflows' = [workflows EXCEPT ![w].status = st]
        /\ events' = IF st = "succeeded" THEN events \cup {w} ELSE events
  BY DEF WorkflowEnds
<1>2. PICK ended : ended = [workflows[w] EXCEPT !.status = st]
  OBVIOUS
<1>3. workflows \in Seq(Workflow) /\ w \in 1..Len(workflows) /\ workflows[w] \in Workflow
  BY DEF ScenesInv
<1>4. ended \in Workflow /\ ended.status = st /\ ended.clips = workflows[w].clips
  BY <1>2, <1>3 DEF Workflow
<1>5. workflows' = [workflows EXCEPT ![w] = ended]
  BY <1>1, <1>2
<1>6. /\ workflows' \in Seq(Workflow) /\ Len(workflows') = Len(workflows)
      /\ \A v \in 1..Len(workflows) : workflows'[v] = IF v = w THEN ended ELSE workflows[v]
  BY <1>3, <1>4, <1>5
<1>7. UNCHANGED <<fileVars, scene, requests>> /\ workflows[w].status = "running"
  BY DEF WorkflowEnds
<1>8. \A c : Usable(c)' <=> Usable(c)
  BY <1>7 DEF Usable, fileVars
<1>9. \A v : HasSucceeded(v) => HasSucceeded(v)'
  BY <1>6, <1>7 DEF HasSucceeded
<1>10. Advances
  BY <1>6, <1>8, <1>9 DEF Advances
<1>11. \A v \in 1..Len(workflows') : \A c \in workflows'[v].clips : Usable(c)'
  BY <1>3, <1>4, <1>6, <1>8 DEF ScenesInv
<1>12. \A v \in events' : v \in events \/ HasSucceeded(v)'
  BY <1>1, <1>3, <1>4, <1>6 DEF HasSucceeded
<1>13. description' \in [File -> {"supported", "unsupported", None}]
  BY <1>7 DEF ScenesInv, fileVars
<1>14. QED BY <1>7, <1>10, <1>11, <1>12, <1>13, AdvanceSound

\* A rendering that was validated starts a workflow whose clips are usable.
LEMMA renderSound ==
    ASSUME ScenesInv, NEW r \in requests, renderScene(r)
    PROVE  ScenesInv'
<1>1. CASE Refuse(r)
  BY <1>1, RefuseSound
<1>2. CASE ~Refuse(r)
  <2> DEFINE n == Len(workflows) + 1
  <2>1. PICK started : started = [status |-> "running", clips |-> ToSet(r.copy.layers[1])]
    OBVIOUS
  <2>2. /\ CanPlan(r.copy) /\ Becomes(r, "register", n)
        /\ workflows' = Append(workflows, started)
        /\ UNCHANGED <<fileVars, scene, events>>
    BY <1>2, <2>1 DEF renderScene
  <2>3. RequestSound(r) /\ At(r, "render", "write") /\ Renderable(r.copy)
    BY DEF renderScene, ScenesInv, RequestSound
  <2>4. \A c \in started.clips : Usable(c)
    <3>1. PICK l \in ToSet(r.copy.layers) : r.copy.layers = <<l>>
      BY <2>2 DEF CanPlan
    <3>2. started.clips = ToSet(l)
      BY <2>1, <3>1
    <3>3. QED BY <2>3, <3>1, <3>2 DEF Renderable
  <2>5. started \in Workflow
    BY <2>1, <2>4 DEF Workflow, Usable
  <2>6. workflows \in Seq(Workflow)
    BY DEF ScenesInv
  <2>7. /\ workflows' \in Seq(Workflow) /\ Len(workflows') = n /\ Len(workflows) \in Nat
        /\ workflows'[n] = started
        /\ \A v \in 1..Len(workflows) : workflows'[v] = workflows[v]
    BY <2>2, <2>5, <2>6
  <2>8. \A c : Usable(c)' <=> Usable(c)
    BY <2>2 DEF Usable, fileVars
  <2>9. Advances
    BY <2>7, <2>8 DEF Advances, HasSucceeded
  <2>10. \A v \in 1..Len(workflows') : \A c \in workflows'[v].clips : Usable(c)'
    BY <2>4, <2>7, <2>8 DEF ScenesInv
  <2>11. PICK q : q = [[r EXCEPT !.at = "register"] EXCEPT !.copy = n]
    OBVIOUS
  <2>12. requests' = (requests \ {r}) \cup {q}
    BY <2>2, <2>11 DEF Becomes
  <2>13. DOMAIN q = DOMAIN r /\ q.key = r.key /\ q.at = "register" /\ q.copy = n
    BY <2>3, <2>11 DEF RequestSound
  <2>14. RequestSound(q)'
    BY <2>3, <2>7, <2>13 DEF RequestSound, At
  <2>15. description' \in [File -> {"supported", "unsupported", None}]
    BY <2>2 DEF ScenesInv, fileVars
  <2>16. QED BY <2>2, <2>9, <2>10, <2>12, <2>14, <2>15, AdvanceSound
<1>3. QED BY <1>1, <1>2

\* A restart loses handlers, and a poll changes what is shown.
LEMMA RestartAndPollSound ==
    ASSUME ScenesInv, Restart \/ fetchVideos \/ UNCHANGED vars
    PROVE  ScenesInv'
<1>1. UNCHANGED <<fileVars, scene, workflows, events>>
  BY DEF Restart, fetchVideos, vars
<1>2. requests' \subseteq requests
  BY DEF Restart, fetchVideos, vars
<1>3. SceneSound(scene')
  BY <1>1 DEF ScenesInv
<1>4. QED BY <1>1, <1>2, <1>3, SoundStep

\* Every step of a handler preserves the invariant.
LEMMA HandlerSound ==
    ASSUME ScenesInv, NEW r \in requests, HandlerStep(r)
    PROVE  ScenesInv'
BY FindSound, ValidateSound, CreateSound, addLayerToSceneSound, UnsetLayerSound,
   PullNullLayersSound, addClipToSceneSound, removeClipFromSceneSound,
   updateClipInSceneSound, addClipToLayerSound, removeClipFromLayerSound,
   updateClipInLayerSound, updateSound, removeSound, renderSound, registerSound,
   finishProcessingSound
DEF HandlerStep

\* Every step does.
LEMMA ScenesStep == ScenesInv /\ [Next]_vars => ScenesInv'
<1> SUFFICES ASSUME ScenesInv, [Next]_vars PROVE ScenesInv'
  OBVIOUS
<1>1. CASE \E op \in Op \ {"restart"} : \E a \in Arguments(op) : Send(op, a)
  BY <1>1, SendSound
<1>2. CASE \E r \in requests : HandlerStep(r)
  BY <1>2, HandlerSound
<1>3. CASE \E w \in DOMAIN workflows : WorkflowEnds(w) \/ workflowFinished(w)
  BY <1>3, WorkflowEndsOnce, workflowFinishedSound
<1>4. CASE Restart \/ fetchVideos \/ UNCHANGED vars
  BY <1>4, RestartAndPollSound
<1>5. CASE FilesGoOn
  BY <1>5, FilesGoOnSound
<1>6. QED BY <1>1, <1>2, <1>3, <1>4, <1>5 DEF Next

\* The invariant holds in every reachable state.
THEOREM ScenesInvAlways == Spec => []ScenesInv
BY ScenesInitial, ScenesStep, PTL DEF Spec

\* However scenes are edited and files arrive while a rendering is validated, the
\* task manager is given clips that are uploaded, analysed and supported only.
THEOREM ScenesAreRenderedWhole == Spec => []WorkflowsUseAvailableClips
<1>1. ScenesInv => WorkflowsUseAvailableClips
  BY DEF ScenesInv, WorkflowsUseAvailableClips, Usable
<1>2. QED BY <1>1, ScenesInvAlways, PTL

\* A scene that offers its video is registered with a workflow, and a workflow
\* has succeeded, however renderings, replacements of the video and the messages
\* of workflows interleave.
THEOREM FinishedScenesWereRendered == Spec => []FinishedSceneWasRendered
<1>1. ScenesInv => FinishedSceneWasRendered
  BY DEF ScenesInv, SceneSound, FinishedSceneWasRendered, HasDownloadUrl, HasSucceeded
<1>2. QED BY <1>1, ScenesInvAlways, PTL

-----------------------------------------------------------------------------
(* What the updates do to a list.                                          *)

LEMMA UpToNumber ==
    ASSUME NEW n \in Nat
    PROVE  IsFiniteSet(1..n) /\ Cardinality(1..n) = n
<1>1. 1 \in Int /\ n \in Int
  OBVIOUS
<1>2. IsFiniteSet(1..n) /\ Cardinality(1..n) = IF 1 > n THEN 0 ELSE n - 1 + 1
  BY <1>1, FS_Interval
<1>3. QED BY <1>2

\* The numbers of a set are counted in their order, each once.
LEMMA NthDef ==
    ASSUME NEW N \in Nat, NEW S \in SUBSET (1..N)
    PROVE  /\ IsFiniteSet(S) /\ Cardinality(S) \in 0..N
           /\ \A k \in 1..Cardinality(S) : Nth(S, k) \in S
           /\ \A i \in S : \E k \in 1..Cardinality(S) : Nth(S, k) = i
<1> DEFINE count == Cardinality(S)
<1>1. IsFiniteSet(S) /\ count \in Nat /\ count <= N /\ count = Cardinality(S)
  <2>1. IsFiniteSet(1..N) /\ Cardinality(1..N) = N
    BY UpToNumber
  <2>2. IsFiniteSet(S) /\ Cardinality(S) <= Cardinality(1..N)
    BY <2>1, FS_Subset
  <2>3. Cardinality(S) \in Nat
    BY <2>2, FS_CardinalityType
  <2> QED BY <2>1, <2>2, <2>3
<1> HIDE DEF count
<1> DEFINE UpTo(i) == {j \in S : j <= i}
<1>2. ASSUME NEW i \in S
      PROVE  IsFiniteSet(UpTo(i)) /\ Cardinality(UpTo(i)) \in 1..count
  <2>1. UpTo(i) \subseteq S /\ i \in UpTo(i)
    OBVIOUS
  <2> HIDE DEF UpTo
  <2>2. IsFiniteSet(UpTo(i)) /\ Cardinality(UpTo(i)) <= count /\ Cardinality(UpTo(i)) \in Nat
    BY <1>1, <2>1, FS_Subset, FS_CardinalityType
  <2>3. Cardinality(UpTo(i)) # 0
    BY <2>1, <2>2, FS_EmptySet
  <2> QED BY <1>1, <2>2, <2>3
<1>3. ASSUME NEW a \in S, NEW b \in S, a < b PROVE Cardinality(UpTo(a)) # Cardinality(UpTo(b))
  <2>1. a \in Int /\ b \in Int /\ \A c \in S : c \in Int
    OBVIOUS
  <2>2. b <= b /\ ~(b <= a)
    BY <1>3, <2>1
  <2>3. \A c \in S : c <= a => c <= b
    BY <1>3, <2>1
  <2>4. UpTo(a) \subseteq UpTo(b) /\ b \in UpTo(b) /\ b \notin UpTo(a)
    BY <1>3, <2>2, <2>3
  <2> HIDE DEF UpTo
  <2> QED BY <1>2, <2>4, FS_Subset
<1>4. ASSUME NEW i \in S, NEW j \in S, Cardinality(UpTo(i)) = Cardinality(UpTo(j)) PROVE i = j
  <2>1. i \in 1..N /\ j \in 1..N
    OBVIOUS
  <2> HIDE DEF UpTo
  <2> QED BY <1>3, <1>4, <2>1
<1>5. PICK f : f = [i \in S |-> Cardinality(UpTo(i))]
  OBVIOUS
<1>6. f \in Injection(S, 1..count)
  <2> HIDE DEF UpTo
  <2>1. f \in [S -> 1..count]
    BY <1>2, <1>5
  <2> QED BY <1>4, <1>5, <2>1 DEF Injection, IsInjective
<1>7. f \in Surjection(S, 1..count)
  BY <1>1, <1>6, UpToNumber, FS_Injection
<1>8. ASSUME NEW k \in 1..count PROVE Nth(S, k) \in S /\ f[Nth(S, k)] = k
  <2>1. PICK i \in S : f[i] = k
    BY <1>7 DEF Surjection
  <2>2. PICK n : n = CHOOSE m \in S : Cardinality(UpTo(m)) = k
    OBVIOUS
  <2>3. n \in S /\ Cardinality(UpTo(n)) = k
    <3> HIDE DEF UpTo
    <3> QED BY <1>5, <2>1, <2>2
  <2>4. Nth(S, k) = n
    BY <2>2, Zenon DEF Nth
  <2> HIDE DEF UpTo
  <2> QED BY <1>5, <2>3, <2>4
<1>9. ASSUME NEW i \in S PROVE \E k \in 1..count : Nth(S, k) = i
  <2>1. f[i] \in 1..count
    BY <1>6 DEF Injection
  <2>2. Nth(S, f[i]) \in S /\ f[Nth(S, f[i])] = f[i]
    BY <1>8, <2>1
  <2>3. Nth(S, f[i]) = i
    <3> HIDE DEF UpTo
    <3> QED BY <1>4, <1>5, <2>2
  <2> QED BY <2>1, <2>3
<1>10. QED BY <1>1, <1>8, <1>9 DEF count

\* What is left without x: the elements that are not x, each of them.
LEMMA WithoutDef ==
    ASSUME NEW T, NEW list \in Seq(T), NEW x, NEW left, left = Without(list, x)
    PROVE  /\ left \in Seq(T) /\ Len(left) = Cardinality(Others(list, x))
           /\ \A k \in 1..Len(left) :
                 Nth(Others(list, x), k) \in Others(list, x) /\ left[k] = list[Nth(Others(list, x), k)]
           /\ \A i \in Others(list, x) : \E k \in 1..Len(left) : Nth(Others(list, x), k) = i
<1> DEFINE S == Others(list, x)
           count == Cardinality(S)
<1>1. left = [k \in 1..count |-> list[Nth(S, k)]]
  BY DEF Without
<1>2. S = Others(list, x) /\ count = Cardinality(S)
  OBVIOUS
<1> HIDE DEF S, count
<1>3. PICK N \in Nat : DOMAIN list = 1..N
  OBVIOUS
<1>4. S \subseteq 1..N
  BY <1>2, <1>3 DEF Others
<1>5. /\ count \in Nat
      /\ \A k \in 1..count : Nth(S, k) \in S
      /\ \A i \in S : \E k \in 1..count : Nth(S, k) = i
  <2>1. /\ Cardinality(S) \in 0..N
        /\ \A k \in 1..Cardinality(S) : Nth(S, k) \in S
        /\ \A i \in S : \E k \in 1..Cardinality(S) : Nth(S, k) = i
    BY <1>4, NthDef
  <2> QED BY <1>2, <2>1
<1>6. \A k \in 1..count : left[k] = list[Nth(S, k)]
  BY <1>1
<1>7. DOMAIN left = 1..count /\ left = [k \in 1..count |-> left[k]]
  BY <1>1
<1>8. \A i \in 1..N : list[i] \in T
  BY <1>3
<1>9. \A k \in 1..count : left[k] \in T
  BY <1>4, <1>5, <1>6, <1>8
<1>10. left \in [1..count -> T]
  BY <1>7, <1>9
<1>11. left \in Seq(T)
  BY <1>5, <1>10
<1>12. Len(left) = count
  BY <1>5, <1>7, <1>11
<1>13. QED BY <1>2, <1>5, <1>6, <1>11, <1>12

-----------------------------------------------------------------------------
(* The handlers in flight and the documents they work with.                *)

\* How a handler goes on that is not over.
MovesOn(r, q) ==
    /\ q.key = r.key /\ r.key.op # "workflowFinished"
    /\ \/ /\ r.at = "find" /\ scene # None /\ Accepts(scene, r.key.op, r.key.arg)
          /\ q.at = IF r.key.op \in {"render", "addClipToLayer", "addClipToScene"}
                    THEN "validate" ELSE "write"
          /\ q.copy = Copy(r.key.op, r.key.arg)
          /\ scene' = scene
       \/ r.at = "validate" /\ q.at = "write" /\ q.copy = r.copy /\ IsValid(r) /\ scene' = scene
       \/ At(r, "removeLayer", "write") /\ q.at = "pull"
       \/ At(r, "render", "write") /\ q.at = "register" /\ scene' = scene

\* What a handler's step does to the requests.
HandlerGoesOn(r) ==
    /\ asked' = asked
    /\ acked' = acked \/ (acked' = acked \cup {r.key} /\ r.key.op # "workflowFinished")
    /\ \/ requests' = requests \ {r}
       \/ \E q : MovesOn(r, q) /\ requests' = (requests \ {r}) \cup {q}

\* A handler that goes on keeps its key.
LEMMA BecomesKeepsKey ==
    ASSUME ScenesInv, NEW r \in requests, NEW point, NEW copy, Becomes(r, point, copy)
    PROVE  \E q : /\ q.key = r.key /\ q.at = point /\ q.copy = copy
                  /\ requests' = (requests \ {r}) \cup {q}
<1>1. PICK q : q = [[r EXCEPT !.at = point] EXCEPT !.copy = copy]
  OBVIOUS
<1>2. DOMAIN r = {"key", "at", "copy"}
  BY DEF ScenesInv, RequestSound
<1>3. q.key = r.key /\ q.at = point /\ q.copy = copy
  BY <1>1, <1>2
<1>4. requests' = (requests \ {r}) \cup {q}
  BY <1>1 DEF Becomes
<1>5. QED BY <1>3, <1>4

LEMMA FindGoesOn ==
    ASSUME ScenesInv, NEW r \in requests, findOne(r)
    PROVE  HandlerGoesOn(r)
<1>1. CASE Refuse(r)
  BY <1>1 DEF Refuse, HandlerGoesOn, clientVars
<1>2. CASE ~Refuse(r)
  <2>1. r.at = "find" /\ r.key.op # "workflowFinished"
    BY DEF findOne, ScenesInv, RequestSound
  <2>2. PICK point : point = IF r.key.op \in {"render", "addClipToLayer", "addClipToScene"}
                             THEN "validate" ELSE "write"
    OBVIOUS
  <2>3. PICK copy : copy = Copy(r.key.op, r.key.arg)
    OBVIOUS
  <2>4. /\ scene # None /\ Accepts(scene, r.key.op, r.key.arg)
        /\ Becomes(r, point, copy) /\ UNCHANGED <<scene, clientVars>>
    BY <1>2, <2>2, <2>3 DEF findOne
  <2>5. PICK q : /\ q.key = r.key /\ q.at = point /\ q.copy = copy
                 /\ requests' = (requests \ {r}) \cup {q}
    BY <2>4, BecomesKeepsKey
  <2>6. MovesOn(r, q)
    BY <2>1, <2>2, <2>3, <2>4, <2>5 DEF MovesOn
  <2> QED BY <2>4, <2>5, <2>6 DEF HandlerGoesOn, clientVars
<1>3. QED BY <1>1, <1>2

LEMMA ValidateGoesOn ==
    ASSUME ScenesInv, NEW r \in requests, Validate(r)
    PROVE  HandlerGoesOn(r)
<1>1. CASE Refuse(r)
  BY <1>1 DEF Refuse, HandlerGoesOn, clientVars
<1>2. CASE ~Refuse(r)
  <2>1. r.at = "validate" /\ r.key.op # "workflowFinished"
    BY DEF Validate, ScenesInv, RequestSound
  <2>2. IsValid(r) /\ Becomes(r, "write", r.copy) /\ UNCHANGED <<scene, clientVars>>
    BY <1>2 DEF Validate
  <2>3. PICK q : /\ q.key = r.key /\ q.at = "write" /\ q.copy = r.copy
                 /\ requests' = (requests \ {r}) \cup {q}
    BY <2>2, BecomesKeepsKey
  <2>4. MovesOn(r, q)
    BY <2>1, <2>2, <2>3 DEF MovesOn
  <2> QED BY <2>2, <2>3, <2>4 DEF HandlerGoesOn, clientVars
<1>3. QED BY <1>1, <1>2

LEMMA UnsetGoesOn ==
    ASSUME ScenesInv, NEW r \in requests, UnsetLayer(r)
    PROVE  HandlerGoesOn(r)
<1>1. At(r, "removeLayer", "write") /\ Becomes(r, "pull", None) /\ UNCHANGED clientVars
  BY DEF UnsetLayer
<1>2. PICK q : /\ q.key = r.key /\ q.at = "pull" /\ q.copy = None
               /\ requests' = (requests \ {r}) \cup {q}
  BY <1>1, BecomesKeepsKey
<1>3. MovesOn(r, q)
  BY <1>1, <1>2 DEF MovesOn, At
<1>4. QED BY <1>1, <1>2, <1>3 DEF HandlerGoesOn, clientVars

LEMMA renderGoesOn ==
    ASSUME ScenesInv, NEW r \in requests, renderScene(r)
    PROVE  HandlerGoesOn(r)
<1>1. CASE Refuse(r)
  BY <1>1 DEF Refuse, HandlerGoesOn, clientVars
<1>2. CASE ~Refuse(r)
  <2>1. At(r, "render", "write")
    BY DEF renderScene
  <2>2. /\ Becomes(r, "register", Len(workflows) + 1) /\ acked' = acked \cup {r.key}
        /\ scene' = scene /\ asked' = asked
    BY <1>2 DEF renderScene
  <2>3. PICK q : /\ q.key = r.key /\ q.at = "register"
                 /\ requests' = (requests \ {r}) \cup {q}
    BY <2>2, BecomesKeepsKey
  <2>4. MovesOn(r, q)
    BY <2>1, <2>2, <2>3 DEF MovesOn, At
  <2>5. r.key.op # "workflowFinished"
    BY <2>1 DEF At
  <2> QED BY <2>2, <2>3, <2>4, <2>5 DEF HandlerGoesOn
<1>3. QED BY <1>1, <1>2

\* The other steps of handlers are their last ones.
LEMMA UpdateEnds ==
    ASSUME NEW r, NEW op, NEW point, NEW s, At(r, op, point), op # "workflowFinished",
           Update(r, point, s) \/ Refuse(r)
    PROVE  HandlerGoesOn(r)
BY DEF Update, Refuse, Acknowledge, HandlerGoesOn, At, clientVars

LEMMA EndsAnswered ==
    ASSUME NEW r, addLayerToScene(r) \/ PullNullLayers(r) \/ addClipToScene(r)
              \/ removeClipFromScene(r) \/ update(r) \/ removeClipFromLayer(r)
    PROVE  HandlerGoesOn(r)
<1>1. ASSUME NEW op, NEW point, At(r, op, point), op # "workflowFinished",
             \E s : Update(r, point, s)
      PROVE  HandlerGoesOn(r)
  BY <1>1, UpdateEnds
<1>2. CASE addLayerToScene(r)
  BY <1>1, <1>2 DEF addLayerToScene
<1>3. CASE PullNullLayers(r)
  BY <1>1, <1>3 DEF PullNullLayers
<1>4. CASE addClipToScene(r)
  BY <1>1, <1>4 DEF addClipToScene
<1>5. CASE removeClipFromScene(r)
  BY <1>1, <1>5 DEF removeClipFromScene
<1>6. CASE update(r)
  BY <1>1, <1>6 DEF update
<1>7. CASE removeClipFromLayer(r)
  BY <1>1, <1>7 DEF removeClipFromLayer
<1>8. QED BY <1>2, <1>3, <1>4, <1>5, <1>6, <1>7

LEMMA EndsAnsweredOrRefused ==
    ASSUME NEW r, updateClipInScene(r) \/ addClipToLayer(r) \/ updateClipInLayer(r)
    PROVE  HandlerGoesOn(r)
<1>1. ASSUME NEW op, NEW point, At(r, op, point), op # "workflowFinished",
             (\E s : Update(r, point, s)) \/ Refuse(r)
      PROVE  HandlerGoesOn(r)
  BY <1>1, UpdateEnds
<1>2. CASE updateClipInScene(r)
  BY <1>1, <1>2 DEF updateClipInScene
<1>3. CASE addClipToLayer(r)
  BY <1>1, <1>3 DEF addClipToLayer
<1>4. CASE updateClipInLayer(r)
  BY <1>1, <1>4 DEF updateClipInLayer
<1>5. QED BY <1>2, <1>3, <1>4

LEMMA EndsOtherwise ==
    ASSUME NEW r, Create(r) \/ remove(r) \/ registerWorkflowForScene(r) \/ finishProcessingOfWorkflow(r)
    PROVE  HandlerGoesOn(r)
BY DEF Create, remove, registerWorkflowForScene, finishProcessingOfWorkflow, Acknowledge, At,
       HandlerGoesOn, clientVars

\* Whatever a handler does.
LEMMA HandlersGoOn ==
    ASSUME ScenesInv, NEW r \in requests, HandlerStep(r)
    PROVE  HandlerGoesOn(r)
BY FindGoesOn, ValidateGoesOn, UnsetGoesOn, renderGoesOn, EndsAnswered, EndsAnsweredOrRefused,
   EndsOtherwise, Zenon DEF HandlerStep

KeyKnown(q) ==
    /\ q.op \in Op
    /\ q.op # "restart" => q.arg \in Arguments(q.op)
    /\ q.nr \in Nat /\ q.nr < Cardinality(SentOf(q.op))

\* What is known of the requests: each has a key of its own, and one handler at
\* most.
RequestsKnown ==
    /\ IsFiniteSet(asked) /\ acked \subseteq asked
    /\ \A q \in asked : KeyKnown(q)
    /\ \A r \in requests : r.key.op # "workflowFinished" => r.key \in asked
    /\ \A r, q \in requests : (r.key = q.key /\ r.key.op # "workflowFinished") => r = q

LEMMA SentAreFinite ==
    ASSUME IsFiniteSet(asked), NEW op
    PROVE  IsFiniteSet(SentOf(op)) /\ Cardinality(SentOf(op)) \in Nat
<1>1. SentOf(op) \subseteq asked
  BY DEF SentOf
<1>2. QED BY <1>1, FS_Subset, FS_CardinalityType

\* The key of a new request is new.
LEMMA KeyIsNew ==
    ASSUME RequestsKnown, NEW op \in Op, NEW a, NEW k, k = Key(op, a), asked' = asked \cup {k},
           op # "restart" => a \in Arguments(op)
    PROVE  /\ k \notin asked /\ k.op = op /\ k.arg = a
           /\ IsFiniteSet(asked')
           /\ \A q \in asked' : KeyKnown(q)'
<1>1. k.op = op /\ k.arg = a /\ k.nr = Cardinality(SentOf(op))
  BY DEF Key
<1>2. IsFiniteSet(asked)
  BY DEF RequestsKnown
<1>3. Cardinality(SentOf(op)) \in Nat /\ IsFiniteSet(SentOf(op))
  BY <1>2, SentAreFinite
<1>4. k \notin asked
  BY <1>1, <1>3 DEF RequestsKnown, KeyKnown
<1>5. IsFiniteSet(asked')
  BY <1>2, FS_AddElement
<1>6. SentOf(op)' = SentOf(op) \cup {k} /\ k \notin SentOf(op)
  BY <1>1, <1>4 DEF SentOf
<1>7. Cardinality(SentOf(op)') = Cardinality(SentOf(op)) + 1
  BY <1>3, <1>6, FS_AddElement
<1>8. \A p : p # op => SentOf(p)' = SentOf(p)
  BY <1>1 DEF SentOf
<1>9. ASSUME NEW q \in asked PROVE KeyKnown(q)'
  <2>1. KeyKnown(q)
    BY DEF RequestsKnown
  <2>2. CASE q.op = op
    <3>1. q.nr < Cardinality(SentOf(op)) + 1
      BY <2>1, <2>2, <1>3 DEF KeyKnown
    <3> QED BY <2>1, <2>2, <3>1, <1>7 DEF KeyKnown
  <2>3. CASE q.op # op
    BY <2>1, <2>3, <1>8 DEF KeyKnown
  <2> QED BY <2>2, <2>3
<1>10. KeyKnown(k)'
  <2>1. k.nr \in Nat /\ k.nr < Cardinality(SentOf(op)')
    BY <1>1, <1>3, <1>7
  <2> QED BY <2>1, <1>1 DEF KeyKnown
<1>11. QED BY <1>1, <1>4, <1>5, <1>9, <1>10

LEMMA RequestsInitial == Init => RequestsKnown
<1>1. Init => IsFiniteSet({}) /\ asked = {} /\ acked = {} /\ requests = {}
  BY FS_EmptySet DEF Init
<1>2. QED BY <1>1 DEF RequestsKnown

LEMMA SendKnows ==
    ASSUME RequestsKnown, NEW op \in Op \ {"restart"}, NEW a \in Arguments(op), Send(op, a)
    PROVE  RequestsKnown'
<1>1. PICK k : k = Key(op, a)
  OBVIOUS
<1>2. PICK new : new = [key |-> k, at |-> FirstPoint(op), copy |-> a.draft]
  OBVIOUS
<1>3. new.key = k
  BY <1>2
<1>4. asked' = asked \cup {k} /\ requests' = requests \cup {new} /\ acked' = acked
  BY <1>1, <1>2 DEF Send
<1>5. op \in Op
  OBVIOUS
<1>6. k \notin asked /\ IsFiniteSet(asked') /\ \A q \in asked' : KeyKnown(q)'
  BY <1>1, <1>4, <1>5, KeyIsNew
<1>7. acked' \subseteq asked'
  BY <1>4 DEF RequestsKnown
<1>8. \A r \in requests' : r.key.op # "workflowFinished" => r.key \in asked'
  BY <1>3, <1>4 DEF RequestsKnown
<1>9. \A r, q \in requests' : (r.key = q.key /\ r.key.op # "workflowFinished") => r = q
  BY <1>3, <1>4, <1>6 DEF RequestsKnown
<1>10. QED BY <1>6, <1>7, <1>8, <1>9 DEF RequestsKnown

LEMMA GoOnKnows ==
    ASSUME RequestsKnown, NEW r \in requests, HandlerGoesOn(r)
    PROVE  RequestsKnown'
<1>1. asked' = asked /\ acked' \subseteq asked
  BY DEF HandlerGoesOn, RequestsKnown
<1>2. \/ requests' = requests \ {r}
      \/ \E q : /\ q.key = r.key /\ r.key.op # "workflowFinished"
                /\ requests' = (requests \ {r}) \cup {q}
  BY DEF HandlerGoesOn, MovesOn
<1>3. \A p \in requests' : p.key.op # "workflowFinished" => p.key \in asked'
  BY <1>1, <1>2 DEF RequestsKnown
<1>4. \A p, q \in requests' : (p.key = q.key /\ p.key.op # "workflowFinished") => p = q
  BY <1>2 DEF RequestsKnown
<1>5. \A q \in asked : KeyKnown(q)' <=> KeyKnown(q)
  BY <1>1 DEF KeyKnown, SentOf
<1>6. QED BY <1>1, <1>3, <1>4, <1>5 DEF RequestsKnown

LEMMA RestartKnows ==
    ASSUME RequestsKnown, Restart
    PROVE  RequestsKnown'
<1>1. PICK k : k = Key("restart", None)
  OBVIOUS
<1>2. asked' = asked \cup {k} /\ requests' = {} /\ acked' = acked
  BY <1>1 DEF Restart
<1>3. "restart" \in Op
  BY DEF Op, OnScene
<1>4. IsFiniteSet(asked') /\ \A q \in asked' : KeyKnown(q)'
  BY <1>1, <1>2, <1>3, KeyIsNew
<1>5. QED BY <1>2, <1>4 DEF RequestsKnown

\* A message starts a handler without a request.
LEMMA MessageKnows ==
    ASSUME RequestsKnown, UNCHANGED <<asked, acked>>,
           \A q \in requests' : q \in requests \/ q.key.op = "workflowFinished"
    PROVE  RequestsKnown'
<1>1. \A q \in asked : KeyKnown(q)' <=> KeyKnown(q)
  BY DEF KeyKnown, SentOf
<1>2. QED BY <1>1 DEF RequestsKnown

LEMMA workflowFinishedKnows ==
    ASSUME RequestsKnown, NEW w, workflowFinished(w)
    PROVE  RequestsKnown'
<1>1. PICK new : new = [key |-> [op |-> "workflowFinished", arg |-> None, nr |-> 0],
                        at |-> "write", copy |-> w]
  OBVIOUS
<1>2. requests' = requests \cup {new} /\ new.key.op = "workflowFinished"
  BY <1>1 DEF workflowFinished
<1>3. UNCHANGED <<asked, acked>>
  BY DEF workflowFinished, clientVars
<1>4. QED BY <1>2, <1>3, MessageKnows

\* Every step keeps the keys apart.
LEMMA RequestsStep ==
    ASSUME ScenesInv, RequestsKnown, [Next]_vars
    PROVE  RequestsKnown'
<1>1. CASE \E op \in Op \ {"restart"} : \E a \in Arguments(op) : Send(op, a)
  BY <1>1, SendKnows
<1>2. CASE \E r \in requests : HandlerStep(r)
  BY <1>2, HandlersGoOn, GoOnKnows
<1>3. CASE \E w \in DOMAIN workflows : workflowFinished(w)
  BY <1>3, workflowFinishedKnows
<1>4. CASE \/ \E w \in DOMAIN workflows : WorkflowEnds(w)
           \/ fetchVideos \/ FilesGoOn \/ UNCHANGED vars
  <2>1. UNCHANGED <<requests, asked, acked>>
    BY <1>4 DEF WorkflowEnds, fetchVideos, FilesGoOn, vars, clientVars
  <2> QED BY <2>1, MessageKnows
<1>5. CASE Restart
  BY <1>5, RestartKnows
<1>6. QED BY <1>1, <1>2, <1>3, <1>4, <1>5 DEF Next

-----------------------------------------------------------------------------
(* What the updates do to layers.                                          *)

\* No layer is lost and none becomes null.
NoNewNull(from, to) ==
    /\ Len(from) <= Len(to)
    /\ \A j \in 1..Len(to) : to[j] = Null => j \in 1..Len(from) /\ from[j] = Null

\* Clip c stays where it is.
Keeps(from, to, c) ==
    \A i \in 1..Len(from) : from[i] # Null =>
        /\ i \in 1..Len(to) /\ to[i] # Null
        /\ \A k \in DOMAIN from[i] : from[i][k] = c => k \in DOMAIN to[i] /\ to[i][k] = c

\* Clip c is at a place where it was not.
IsNewPlace(from, to, c, i, k) ==
    /\ i \in 1..Len(to) /\ to[i] # Null /\ k \in DOMAIN to[i] /\ to[i][k] = c
    /\ i \in 1..Len(from) /\ from[i] # Null => k \notin DOMAIN from[i]

LayerType == Seq(ClipId) \cup {Null}

LEMMA LayersDef ==
    ASSUME NEW layers \in Layers
    PROVE  /\ layers \in Seq(LayerType) /\ Len(layers) \in Nat /\ DOMAIN layers = 1..Len(layers)
           /\ \A i \in 1..Len(layers) : layers[i] # Null => layers[i] \in Seq(ClipId)
<1>1. layers \in Seq(LayerType)
  BY DEF Layers, LayerType
<1>2. QED BY <1>1 DEF LayerType

LEMMA LayersIf ==
    ASSUME NEW n \in Nat, NEW to, DOMAIN to = 1..n, to = [j \in 1..n |-> to[j]],
           \A j \in 1..n : to[j] \in LayerType
    PROVE  to \in Layers /\ Len(to) = n
<1>1. to \in [1..n -> LayerType]
  OBVIOUS
<1>2. to \in Seq(LayerType)
  BY <1>1
<1>3. Len(to) = n
  BY <1>2
<1>4. QED BY <1>2, <1>3 DEF Layers, LayerType

\* An empty layer is added.
LEMMA AppendDef ==
    ASSUME NEW from \in Layers, NEW to, to = Append(from, <<>>)
    PROVE  to \in Layers /\ NoNewNull(from, to) /\ \A c : Keeps(from, to, c)
<1>1. from \in Seq(LayerType) /\ Len(from) \in Nat /\ DOMAIN from = 1..Len(from)
  BY LayersDef
<1>2. PICK l : l = <<>>
  OBVIOUS
<1>3. l \in LayerType /\ l # Null
  <2>1. l \in Seq(ClipId)
    BY <1>2
  <2> QED BY <2>1, ScenesAssumption DEF LayerType
<1>4. to = Append(from, l)
  BY <1>2
<1>5. /\ to \in Seq(LayerType) /\ Len(to) = Len(from) + 1 /\ to[Len(from) + 1] = l
      /\ \A i \in 1..Len(from) : to[i] = from[i]
  BY <1>1, <1>3, <1>4
<1>6. to \in Layers
  BY <1>5 DEF Layers, LayerType
<1>7. NoNewNull(from, to)
  BY <1>1, <1>3, <1>5 DEF NoNewNull
<1>8. \A c : Keeps(from, to, c)
  BY <1>1, <1>5 DEF Keeps
<1>9. QED BY <1>6, <1>7, <1>8

\* A layer is replaced.
LEMMA EditDef ==
    ASSUME NEW from \in Layers, NEW i \in 1..Len(from), NEW l \in LayerType,
           NEW to, to = [from EXCEPT ![i] = l]
    PROVE  /\ to \in Layers /\ Len(to) = Len(from)
           /\ \A j \in 1..Len(from) : to[j] = IF j = i THEN l ELSE from[j]
           /\ l # Null => NoNewNull(from, to)
<1>1. from \in Seq(LayerType) /\ Len(from) \in Nat /\ DOMAIN from = 1..Len(from)
  BY LayersDef
<1>2. /\ to \in Seq(LayerType) /\ Len(to) = Len(from)
      /\ \A j \in 1..Len(from) : to[j] = IF j = i THEN l ELSE from[j]
  BY <1>1
<1>3. to \in Layers
  BY <1>2 DEF Layers, LayerType
<1>4. l # Null => NoNewNull(from, to)
  BY <1>1, <1>2 DEF NoNewNull
<1>5. QED BY <1>2, <1>3, <1>4

\* A layer is unset.
LEMMA UnsetDef ==
    ASSUME NEW from \in Layers, NEW i \in 1..Len(from), NEW to, to = [from EXCEPT ![i] = Null]
    PROVE  /\ Len(to) = Len(from)
           /\ \A j \in 1..Len(from) : to[j] = IF j = i THEN Null ELSE from[j]
<1>1. from \in Seq(LayerType) /\ Len(from) \in Nat /\ DOMAIN from = 1..Len(from) /\ Null \in LayerType
  BY LayersDef DEF LayerType
<1>2. QED BY <1>1

\* A clip is pushed to a layer that is not null.
LEMMA PushDef ==
    ASSUME NEW from \in Layers, NEW i \in Nat \ {0}, NEW c \in File,
           i \in 1..Len(from) => from[i] # Null,
           NEW to, to = PushedTo(from, i, c)
    PROVE  /\ to \in Layers
           /\ i <= Len(from) + 1 => NoNewNull(from, to)
           /\ \A d : Keeps(from, to, d)
           /\ \E k : IsNewPlace(from, to, c, i, k)
<1>1. /\ from \in Seq(LayerType) /\ Len(from) \in Nat /\ DOMAIN from = 1..Len(from)
      /\ \A j \in 1..Len(from) : from[j] # Null => from[j] \in Seq(ClipId)
  BY LayersDef
<1>2. PICK n \in Nat : n = IF i > Len(from) THEN i ELSE Len(from)
  BY <1>1
<1>3. PICK pushed : pushed = IF i \in 1..Len(from) THEN Append(from[i], c) ELSE <<c>>
  OBVIOUS
<1>4. PICK old : old = IF i \in 1..Len(from) THEN Len(from[i]) ELSE 0
  OBVIOUS
<1>5. /\ pushed \in Seq(ClipId) /\ old \in Nat /\ Len(pushed) = old + 1 /\ pushed[old + 1] = c
      /\ i \in 1..Len(from) => \A k \in 1..old : pushed[k] = from[i][k]
  <2>1. c \in ClipId
    BY DEF ClipId
  <2>2. CASE i \in 1..Len(from)
    <3>1. from[i] \in Seq(ClipId)
      BY <1>1, <2>2
    <3>2. pushed = Append(from[i], c) /\ old = Len(from[i])
      BY <1>3, <1>4, <2>2
    <3> QED BY <2>1, <3>1, <3>2
  <2>3. CASE i \notin 1..Len(from)
    BY <1>3, <1>4, <2>1, <2>3
  <2> QED BY <2>2, <2>3
<1>6. pushed # Null /\ pushed \in LayerType /\ DOMAIN pushed = 1..(old + 1)
  BY <1>5, ScenesAssumption DEF LayerType
<1>7. to = [j \in 1..n |-> IF j = i THEN pushed ELSE IF j \in 1..Len(from) THEN from[j] ELSE Null]
  BY <1>1, <1>2, <1>3 DEF PushedTo
<1>8. /\ DOMAIN to = 1..n /\ to = [j \in 1..n |-> to[j]] /\ i \in 1..n /\ Len(from) <= n
      /\ to[i] = pushed
      /\ \A j \in 1..n : j # i => to[j] = IF j \in 1..Len(from) THEN from[j] ELSE Null
  <2>a. i \in Nat /\ i >= 1 /\ Len(from) \in Nat /\ n \in Nat
    BY <1>1
  <2>1. i \in 1..n /\ Len(from) <= n
    BY <2>a, <1>2
  <2>2. DOMAIN to = 1..n /\ to = [j \in 1..n |-> to[j]]
    BY <1>7
  <2>3. to[i] = pushed
    BY <1>7, <2>1
  <2>4. \A j \in 1..n : j # i => to[j] = IF j \in 1..Len(from) THEN from[j] ELSE Null
    BY <1>7
  <2> QED BY <2>1, <2>2, <2>3, <2>4
<1>9. \A j \in 1..n : to[j] \in LayerType
  BY <1>1, <1>6, <1>8 DEF LayerType
<1>10. to \in Layers /\ Len(to) = n
  BY <1>8, <1>9, LayersIf
<1>11. i <= Len(from) + 1 => NoNewNull(from, to)
  <2> SUFFICES ASSUME i <= Len(from) + 1 PROVE NoNewNull(from, to)
    OBVIOUS
  <2>1. ASSUME NEW j \in 1..n, to[j] = Null PROVE j \in 1..Len(from) /\ from[j] = Null
    <3>1. j # i
      BY <2>1, <1>6, <1>8
    <3>a. i \in Nat /\ i >= 1 /\ Len(from) \in Nat /\ j \in Nat /\ j >= 1 /\ j <= n /\ n \in Nat
      BY <1>1
    <3>2. j \in 1..Len(from)
      BY <3>a, <1>2, <3>1
    <3> QED BY <2>1, <3>1, <3>2, <1>8
  <2> QED BY <2>1, <1>8, <1>10 DEF NoNewNull
<1>12. ASSUME NEW d PROVE Keeps(from, to, d)
  <2>1. ASSUME NEW j \in 1..Len(from), from[j] # Null
        PROVE  /\ j \in 1..Len(to) /\ to[j] # Null
               /\ \A k \in DOMAIN from[j] : from[j][k] = d => k \in DOMAIN to[j] /\ to[j][k] = d
    <3>1. j \in 1..n
      BY <1>1, <1>8
    <3>2. CASE j # i
      BY <2>1, <3>1, <3>2, <1>8, <1>10
    <3>3. CASE j = i
      <4>1. from[i] \in Seq(ClipId) /\ DOMAIN from[i] = 1..old
        BY <1>1, <1>4, <2>1, <3>3
      <4>2. \A k \in 1..old : k \in 1..(old + 1) /\ pushed[k] = from[i][k]
        BY <1>5, <2>1, <3>3
      <4> QED BY <3>1, <3>3, <4>1, <4>2, <1>6, <1>8, <1>10
    <3> QED BY <3>2, <3>3
  <2> QED BY <2>1 DEF Keeps
<1>13. IsNewPlace(from, to, c, i, old + 1)
  <2>1. i \in 1..Len(from) => old + 1 \notin DOMAIN from[i]
    <3> SUFFICES ASSUME i \in 1..Len(from) PROVE old + 1 \notin DOMAIN from[i]
      OBVIOUS
    <3>1. from[i] \in Seq(ClipId) /\ DOMAIN from[i] = 1..old
      BY <1>1, <1>4
    <3> QED BY <3>1, <1>5
  <2>2. old + 1 \in DOMAIN pushed
    BY <1>5, <1>6
  <2> QED BY <2>1, <2>2, <1>5, <1>6, <1>8, <1>10 DEF IsNewPlace
<1>14. QED BY <1>10, <1>11, <1>12, <1>13

\* Clips lose their id, or are removed.
LEMMA WithoutIdOfDef ==
    ASSUME NEW list \in Seq(ClipId), NEW d, NEW left, left = WithoutIdOf(list, d)
    PROVE  /\ left \in Seq(ClipId) /\ DOMAIN left = DOMAIN list
           /\ \A k \in DOMAIN list : list[k] # d => left[k] = list[k]
<1>1. PICK n \in Nat : DOMAIN list = 1..n
  OBVIOUS
<1>2. left = [i \in 1..n |-> IF list[i] = d /\ \A j \in 1..(i - 1) : list[j] # d
                             THEN None ELSE list[i]]
  BY <1>1 DEF WithoutIdOf
<1>3. \A i \in 1..n : list[i] \in ClipId /\ None \in ClipId
  BY <1>1 DEF ClipId
<1>4. \A i \in 1..n : left[i] = None \/ left[i] = list[i]
  BY <1>2
<1>5. DOMAIN left = 1..n /\ left = [i \in 1..n |-> left[i]]
  BY <1>2
<1>6. left \in [1..n -> ClipId]
  BY <1>3, <1>4, <1>5
<1>7. left \in Seq(ClipId)
  BY <1>6
<1>8. \A k \in 1..n : list[k] # d => left[k] = list[k]
  BY <1>2
<1>9. QED BY <1>1, <1>5, <1>7, <1>8

\* A layer whose clip lost its id.
LEMMA ForgetDef ==
    ASSUME NEW from \in Layers, NEW i \in 1..Len(from), from[i] # Null, NEW d,
           NEW to, to = [from EXCEPT ![i] = WithoutIdOf(from[i], d)]
    PROVE  to \in Layers /\ NoNewNull(from, to) /\ \A c : c # d => Keeps(from, to, c)
<1>1. PICK l : l = WithoutIdOf(from[i], d)
  OBVIOUS
<1>2. /\ Len(from) \in Nat
      /\ \A j \in 1..Len(from) : from[j] # Null => from[j] \in Seq(ClipId)
  BY LayersDef
<1>3. /\ l \in Seq(ClipId) /\ DOMAIN l = DOMAIN from[i]
      /\ \A k \in DOMAIN from[i] : from[i][k] # d => l[k] = from[i][k]
  BY <1>1, <1>2, WithoutIdOfDef
<1>4. l \in LayerType /\ l # Null
  BY <1>3, ScenesAssumption DEF LayerType
<1>5. to = [from EXCEPT ![i] = l]
  BY <1>1
<1>6. /\ to \in Layers /\ Len(to) = Len(from) /\ NoNewNull(from, to)
      /\ \A j \in 1..Len(from) : to[j] = IF j = i THEN l ELSE from[j]
  <2>1. from \in Layers /\ i \in 1..Len(from) /\ l \in LayerType
    BY <1>4
  <2>2. /\ to \in Layers /\ Len(to) = Len(from)
        /\ \A j \in 1..Len(from) : to[j] = IF j = i THEN l ELSE from[j]
        /\ l # Null => NoNewNull(from, to)
    BY <2>1, <1>5, EditDef, Zenon
  <2> QED BY <2>2, <1>4
<1>7. \A c : c # d => Keeps(from, to, c)
  BY <1>3, <1>4, <1>6 DEF Keeps
<1>8. QED BY <1>6, <1>7

\* A layer one of whose clips was removed.
LEMMA WithdrawDef ==
    ASSUME NEW from \in Layers, NEW i \in 1..Len(from), from[i] # Null, NEW d,
           NEW to, to = [from EXCEPT ![i] = Without(from[i], d)]
    PROVE  /\ to \in Layers /\ Len(to) = Len(from) /\ NoNewNull(from, to)
           /\ from[i] \in Seq(ClipId)
           /\ \A j \in 1..Len(from) : to[j] = IF j = i THEN Without(from[i], d) ELSE from[j]
<1>1. PICK l : l = Without(from[i], d)
  OBVIOUS
<1>2. from[i] \in Seq(ClipId)
  BY LayersDef
<1>3. l \in Seq(ClipId)
  BY <1>1, <1>2, WithoutDef
<1>4. l \in LayerType /\ l # Null
  BY <1>3, ScenesAssumption DEF LayerType
<1>5. to = [from EXCEPT ![i] = l]
  BY <1>1
<1>6. /\ to \in Layers /\ Len(to) = Len(from) /\ NoNewNull(from, to)
      /\ \A j \in 1..Len(from) : to[j] = IF j = i THEN l ELSE from[j]
  <2>1. from \in Layers /\ i \in 1..Len(from) /\ l \in LayerType
    BY <1>4
  <2>2. /\ to \in Layers /\ Len(to) = Len(from)
        /\ \A j \in 1..Len(from) : to[j] = IF j = i THEN l ELSE from[j]
        /\ l # Null => NoNewNull(from, to)
    BY <2>1, <1>5, EditDef, Zenon
  <2> QED BY <2>2, <1>4
<1>7. QED BY <1>1, <1>2, <1>6

\* Layers that are null are removed: at most one is lost when one was null.
LEMMA PullDef ==
    ASSUME NEW from \in Layers, NEW to, to = Without(from, Null)
    PROVE  /\ to \in Layers /\ \A i \in 1..Len(to) : to[i] # Null
           /\ (\A i, j \in 1..Len(from) : from[i] = Null /\ from[j] = Null => i = j)
              => Len(from) <= Len(to) + 1
<1>1. from \in Seq(LayerType) /\ Len(from) \in Nat /\ DOMAIN from = 1..Len(from)
  BY LayersDef
<1>2. PICK S : S = Others(from, Null)
  OBVIOUS
<1>3. /\ to \in Seq(LayerType) /\ Len(to) = Cardinality(S)
      /\ \A k \in 1..Len(to) : Nth(S, k) \in S /\ to[k] = from[Nth(S, k)]
  BY <1>1, <1>2, WithoutDef
<1>4. S = {i \in 1..Len(from) : from[i] # Null}
  BY <1>1, <1>2 DEF Others
<1>5. \A i \in 1..Len(to) : to[i] # Null
  BY <1>3, <1>4
<1>6. ASSUME \A i, j \in 1..Len(from) : from[i] = Null /\ from[j] = Null => i = j
      PROVE  Len(from) <= Len(to) + 1
  <2>1. IsFiniteSet(1..Len(from)) /\ Cardinality(1..Len(from)) = Len(from)
    BY <1>1, UpToNumber
  <2>2. IsFiniteSet(S) /\ S \subseteq 1..Len(from)
    BY <2>1, <1>4, FS_Subset
  <2>3. CASE \E i \in 1..Len(from) : from[i] = Null
    <3>1. PICK i \in 1..Len(from) : from[i] = Null
      BY <2>3
    <3>2. 1..Len(from) = S \cup {i}
      BY <1>4, <1>6, <3>1
    <3>3. i \notin S
      BY <1>4, <3>1
    <3>4. Cardinality(S \cup {i}) = Cardinality(S) + 1
      BY <2>2, <3>3, FS_AddElement
    <3>5. Len(from) = Len(to) + 1
      BY <3>2, <3>4, <2>1, <1>3
    <3> QED BY <3>5, <1>1
  <2>4. CASE ~ \E i \in 1..Len(from) : from[i] = Null
    <3>1. S = 1..Len(from)
      BY <1>4, <2>4
    <3>2. Len(from) = Len(to)
      BY <3>1, <2>1, <1>3
    <3> QED BY <3>2, <1>1
  <2> QED BY <2>3, <2>4
<1>7. to \in Layers
  BY <1>3 DEF Layers, LayerType
<1>8. QED BY <1>5, <1>6, <1>7

-----------------------------------------------------------------------------
(* What the steps of handlers do to the scene.                             *)

\* The scene gets these layers, and may change otherwise.
GetsLayers(layers) ==
    scene # None /\ scene' # None /\ scene' \in SceneDocument /\ scene'.layers = layers
    /\ scene'.workflow \in {scene.workflow, None} \cup 1..Len(workflows)

ScenesChange(r) ==
    LET i == r.key.arg.layer
        c == r.key.arg.clip
    IN  \/ /\ scene' = scene
           /\ r.key.op = "addClipToLayer" => acked' = acked
           /\ At(r, "removeLayer", "pull") => scene = None
        \/ scene' = None /\ r.key.op = "remove" /\ r.key \in acked'
        \/ At(r, "create", "write") /\ NeverCreated /\ scene' = NewScene(r.copy)
        \/ r.key.op \notin {"addClipToLayer", "removeLayer"} /\ GetsLayers(scene.layers)
        \/ At(r, "addLayer", "write") /\ GetsLayers(Append(scene.layers, <<>>))
        \/ /\ At(r, "removeLayer", "write") /\ i \in 1..Len(scene.layers)
           /\ GetsLayers([scene.layers EXCEPT ![i] = Null])
           /\ \E q : MovesOn(r, q) /\ q.at = "pull" /\ requests' = (requests \ {r}) \cup {q}
        \/ At(r, "removeLayer", "pull") /\ GetsLayers(Without(scene.layers, Null))
        \/ /\ At(r, "addClipToLayer", "write") /\ (i \in 1..Len(scene.layers) => scene.layers[i] # Null)
           /\ GetsLayers(PushedTo(scene.layers, i, c))
        \/ /\ At(r, "removeClipFromLayer", "write")
           /\ i \in 1..Len(scene.layers) /\ scene.layers[i] # Null
           /\ GetsLayers([scene.layers EXCEPT ![i] = Without(scene.layers[i], c)])
        \/ /\ At(r, "updateClipInLayer", "write")
           /\ i \in 1..Len(scene.layers) /\ scene.layers[i] # Null
           /\ GetsLayers([scene.layers EXCEPT ![i] = WithoutIdOf(scene.layers[i], c)])

\* A document is its four fields.
LEMMA DocumentFields ==
    ASSUME NEW s \in SceneDocument
    PROVE  /\ s.clips \in Seq(ClipId) /\ s.layers \in Layers /\ s.workflow \in Nat \cup {None}
           /\ s.finished \in BOOLEAN /\ s # None
           /\ Len(s.layers) \in Nat /\ DOMAIN s.layers = 1..Len(s.layers)
<1>1. /\ s.clips \in Seq(ClipId) /\ s.layers \in Layers /\ s.workflow \in Nat \cup {None}
      /\ s.finished \in BOOLEAN
  BY DEF SceneDocument
<1>2. s # None
  BY ScenesAssumption
<1>3. Len(s.layers) \in Nat /\ DOMAIN s.layers = 1..Len(s.layers)
  BY <1>1, LayersDef
<1>4. QED BY <1>1, <1>2, <1>3

\* The layers are replaced.
LEMMA GetsLayersIf ==
    ASSUME scene \in SceneDocument, NEW layers \in Layers,
           scene' = [scene EXCEPT !.layers = layers]
    PROVE  GetsLayers(layers)
<1>1. scene' \in SceneDocument /\ scene'.layers = layers /\ scene'.workflow = scene.workflow
  BY DEF SceneDocument
<1>2. scene # None /\ scene' # None
  BY <1>1, ScenesAssumption
<1>3. QED BY <1>1, <1>2 DEF GetsLayers

\* One layer is.
LEMMA GetsLayerIf ==
    ASSUME scene \in SceneDocument, NEW i \in 1..Len(scene.layers), NEW l \in LayerType,
           scene' = [scene EXCEPT !.layers[i] = l]
    PROVE  GetsLayers([scene.layers EXCEPT ![i] = l])
<1>1. PICK layers : layers = [scene.layers EXCEPT ![i] = l]
  OBVIOUS
<1>2. scene.layers \in Layers
  BY DocumentFields
<1>3. layers \in Layers
  BY <1>1, <1>2, EditDef, Zenon
<1>4. scene' = [scene EXCEPT !.layers = layers]
  BY <1>1, <1>2
<1>5. GetsLayers(layers)
  BY <1>3, <1>4, GetsLayersIf, Zenon
<1>6. QED BY <1>1, <1>5

\* Or something else.
LEMMA GetsSameLayersIf ==
    ASSUME scene \in SceneDocument, scene' \in SceneDocument, scene'.layers = scene.layers,
           scene'.workflow \in {scene.workflow, None} \cup 1..Len(workflows)
    PROVE  GetsLayers(scene.layers)
BY ScenesAssumption DEF GetsLayers

\* A last update is made, or there is no scene to update.
LEMMA UpdateChanges ==
    ASSUME NEW r, NEW point, NEW s, Update(r, point, s)
    PROVE  \/ scene = None /\ scene' = scene /\ acked' = acked
           \/ scene # None /\ scene' = s
BY DEF Update, Refuse, clientVars

\* What the handlers are known to name.
ArgumentsKnown(r) ==
    /\ r.key.op \in ToLayer => r.key.arg.layer \in Nat \ {0} /\ r.key.arg.clip \in File
    /\ r.key.op \in OnDefinition => r.key.arg.clip \in File

LEMMA KeysName ==
    ASSUME RequestsKnown, NEW r \in requests
    PROVE  ArgumentsKnown(r)
<1>1. ASSUME r.key.op \in ToLayer \cup OnDefinition
      PROVE  /\ r.key.arg.clip \in File
             /\ r.key.op \in ToLayer => r.key.arg.layer \in Nat \ {0}
  <2>1. r.key.op # "workflowFinished" /\ r.key.op # "restart"
    BY <1>1 DEF ToLayer, OnDefinition
  <2>2. r.key.arg \in Arguments(r.key.op)
    <3>1. r.key \in asked
      BY <2>1 DEF RequestsKnown
    <3>2. KeyKnown(r.key)
      BY <3>1 DEF RequestsKnown
    <3> QED BY <2>1, <3>2 DEF KeyKnown
  <2>3. r.key.arg.clip \in File /\ (r.key.op \in ToLayer => r.key.arg.layer \in Layer)
    BY <1>1, <2>2 DEF Arguments
  <2> QED BY <2>3, ScenesAssumption
<1>2. QED BY <1>1 DEF ArgumentsKnown

\* What is known of a handler's copy.
CopyTyped(r) ==
    /\ r.at \in {"find", "validate", "write", "pull", "register"}
    /\ r.key.op = "create" => r.at \in {"validate", "write"} /\ r.copy \in DraftDocument
    /\ r.key.op = "render" /\ r.at \in {"validate", "write"} => r.copy \in SceneDocument
    /\ r.key.op \in {"create", "render"} /\ r.at = "write" => Null \notin ToSet(r.copy.layers)

SceneTyped == scene \in SceneType \cup {None}

LEMMA SceneTypedDef ==
    ASSUME SceneTyped, scene # None
    PROVE  /\ scene \in SceneDocument /\ scene.layers \in Layers /\ scene.clips \in Seq(ClipId)
           /\ scene.workflow \in {None} \cup 1..Len(workflows)
           /\ Len(scene.layers) \in Nat /\ DOMAIN scene.layers = 1..Len(scene.layers)
<1>1. scene \in SceneDocument /\ scene.workflow \in {None} \cup 1..Len(workflows)
  BY DEF SceneTyped, SceneType
<1>2. QED BY <1>1, DocumentFields

\* Finding and validating change nothing.
LEMMA ReadersChange ==
    ASSUME NEW r, findOne(r) \/ Validate(r)
    PROVE  ScenesChange(r)
<1>1. scene' = scene /\ acked' = acked
  BY DEF findOne, Validate, Refuse, clientVars
<1>2. ~At(r, "removeLayer", "pull")
  BY DEF findOne, Validate, At
<1>3. QED BY <1>1, <1>2 DEF ScenesChange

LEMMA addLayerChanges ==
    ASSUME NEW r, addLayerToScene(r), SceneTyped
    PROVE  ScenesChange(r)
<1>1. At(r, "addLayer", "write") /\ ~At(r, "removeLayer", "pull") /\ r.key.op # "addClipToLayer"
  BY DEF addLayerToScene, At
<1>2. CASE scene = None
  <2>1. scene' = scene
    BY <1>2, UpdateChanges DEF addLayerToScene
  <2> QED BY <1>1, <2>1 DEF ScenesChange
<1>3. CASE scene # None
  <2>1. PICK layers : layers = Append(scene.layers, <<>>)
    OBVIOUS
  <2>2. scene \in SceneDocument /\ scene.layers \in Layers
    BY <1>3, SceneTypedDef
  <2>3. layers \in Layers
    BY <2>1, <2>2, AppendDef
  <2>4. scene' = [scene EXCEPT !.layers = layers]
    BY <1>3, <2>1, UpdateChanges DEF addLayerToScene
  <2>5. GetsLayers(layers)
    BY <2>2, <2>3, <2>4, GetsLayersIf, Zenon
  <2> QED BY <1>1, <2>1, <2>5 DEF ScenesChange
<1>4. QED BY <1>2, <1>3

LEMMA PullChanges ==
    ASSUME NEW r, PullNullLayers(r), SceneTyped
    PROVE  ScenesChange(r)
<1>1. At(r, "removeLayer", "pull") /\ r.key.op # "addClipToLayer"
  BY DEF PullNullLayers, At
<1>2. CASE scene = None
  <2>1. scene' = scene
    BY <1>2, UpdateChanges DEF PullNullLayers
  <2> QED BY <1>1, <1>2, <2>1 DEF ScenesChange
<1>3. CASE scene # None
  <2>1. PICK layers : layers = Without(scene.layers, Null)
    OBVIOUS
  <2>2. scene \in SceneDocument /\ scene.layers \in Layers
    BY <1>3, SceneTypedDef
  <2>3. layers \in Layers
    BY <2>1, <2>2, PullDef
  <2>4. scene' = [scene EXCEPT !.layers = layers]
    BY <1>3, <2>1, UpdateChanges DEF PullNullLayers
  <2>5. GetsLayers(layers)
    BY <2>2, <2>3, <2>4, GetsLayersIf, Zenon
  <2> QED BY <1>1, <2>1, <2>5 DEF ScenesChange
<1>4. QED BY <1>2, <1>3

LEMMA addClipToLayerChanges ==
    ASSUME NEW r, addClipToLayer(r), SceneTyped, ArgumentsKnown(r)
    PROVE  ScenesChange(r)
<1> DEFINE i == r.key.arg.layer
           c == r.key.arg.clip
<1>1. At(r, "addClipToLayer", "write") /\ ~At(r, "removeLayer", "pull")
  BY DEF addClipToLayer, At
<1>2. i \in Nat \ {0} /\ c \in File
  BY <1>1 DEF At, ArgumentsKnown, ToLayer
<1>3. CASE scene' = scene /\ acked' = acked
  BY <1>1, <1>3 DEF ScenesChange
<1>4. CASE ~(scene' = scene /\ acked' = acked)
  <2>1. /\ scene # None => ~(IsLayer(scene, i) /\ scene.layers[i] = Null)
        /\ Update(r, "write", [scene EXCEPT !.layers = PushedTo(@, i, c)])
    BY <1>4 DEF addClipToLayer, Refuse, clientVars
  <2>2. scene # None
    BY <1>4, <2>1, UpdateChanges
  <2>3. PICK layers : layers = PushedTo(scene.layers, i, c)
    OBVIOUS
  <2>4. scene \in SceneDocument /\ scene.layers \in Layers /\ DOMAIN scene.layers = 1..Len(scene.layers)
    BY <2>2, SceneTypedDef
  <2>5. i \in 1..Len(scene.layers) => scene.layers[i] # Null
    BY <2>1, <2>2, <2>4 DEF IsLayer
  <2>6. layers \in Layers
    BY <1>2, <2>3, <2>4, <2>5, PushDef
  <2>7. scene' = [scene EXCEPT !.layers = layers]
    BY <2>1, <2>2, <2>3, UpdateChanges
  <2>8. GetsLayers(layers)
    BY <2>4, <2>6, <2>7, GetsLayersIf, Zenon
  <2> QED BY <1>1, <2>3, <2>5, <2>8 DEF ScenesChange
<1>5. QED BY <1>3, <1>4

\* A layer is unset.
LEMMA UnsetChanges ==
    ASSUME ScenesInv, NEW r \in requests, UnsetLayer(r), SceneTyped
    PROVE  ScenesChange(r)
<1> DEFINE i == r.key.arg.layer
<1>1. At(r, "removeLayer", "write") /\ Becomes(r, "pull", None)
  BY DEF UnsetLayer
<1>2. ~At(r, "removeLayer", "pull") /\ r.key.op # "addClipToLayer"
  BY <1>1 DEF At
<1>3. CASE scene' = scene
  BY <1>2, <1>3 DEF ScenesChange
<1>4. CASE scene' # scene
  <2>1. scene # None /\ IsLayer(scene, i) /\ scene' = [scene EXCEPT !.layers[i] = Null]
    BY <1>4 DEF UnsetLayer
  <2>2. scene \in SceneDocument /\ DOMAIN scene.layers = 1..Len(scene.layers)
    BY <2>1, SceneTypedDef
  <2>3. i \in 1..Len(scene.layers) /\ Null \in LayerType
    BY <2>1, <2>2 DEF IsLayer, LayerType
  <2>4. GetsLayers([scene.layers EXCEPT ![i] = Null])
    BY <2>1, <2>2, <2>3, GetsLayerIf, Zenon
  <2>5. PICK q : /\ q.key = r.key /\ q.at = "pull" /\ q.copy = None
                 /\ requests' = (requests \ {r}) \cup {q}
    BY <1>1, BecomesKeepsKey
  <2>6. MovesOn(r, q)
    BY <1>1, <2>5 DEF MovesOn, At
  <2> QED BY <1>1, <2>3, <2>4, <2>5, <2>6 DEF ScenesChange
<1>5. QED BY <1>3, <1>4

LEMMA removeClipFromLayerChanges ==
    ASSUME NEW r, removeClipFromLayer(r), SceneTyped
    PROVE  ScenesChange(r)
<1> DEFINE i == r.key.arg.layer
           c == r.key.arg.clip
<1>1. /\ At(r, "removeClipFromLayer", "write") /\ ~At(r, "removeLayer", "pull")
      /\ r.key.op # "addClipToLayer"
  BY DEF removeClipFromLayer, At
<1>2. CASE scene' = scene
  BY <1>1, <1>2 DEF ScenesChange
<1>3. CASE scene' # scene
  <2>1. /\ scene # None
        /\ scene' = IF IsInLayer(scene, i, c)
                    THEN [scene EXCEPT !.layers[i] = Without(@, c)] ELSE scene
    BY <1>3, UpdateChanges DEF removeClipFromLayer
  <2>2. PICK l : l = Without(scene.layers[i], c)
    OBVIOUS
  <2>3. IsInLayer(scene, i, c) /\ scene' = [scene EXCEPT !.layers[i] = l]
    BY <1>3, <2>1, <2>2
  <2>4. scene \in SceneDocument /\ DOMAIN scene.layers = 1..Len(scene.layers) /\ scene.layers \in Layers
    BY <2>1, SceneTypedDef
  <2>5. i \in 1..Len(scene.layers) /\ scene.layers[i] # Null
    BY <2>3, <2>4 DEF IsInLayer, IsLayer
  <2>6. scene.layers[i] \in Seq(ClipId)
    BY <2>4, <2>5, LayersDef
  <2>7. l \in LayerType
    BY <2>2, <2>6, WithoutDef DEF LayerType
  <2>8. GetsLayers([scene.layers EXCEPT ![i] = l])
    BY <2>3, <2>4, <2>5, <2>7, GetsLayerIf, Zenon
  <2> QED BY <1>1, <2>2, <2>5, <2>8 DEF ScenesChange
<1>4. QED BY <1>2, <1>3

LEMMA updateClipInLayerChanges ==
    ASSUME NEW r, updateClipInLayer(r), SceneTyped
    PROVE  ScenesChange(r)
<1> DEFINE i == r.key.arg.layer
           c == r.key.arg.clip
<1>1. /\ At(r, "updateClipInLayer", "write") /\ ~At(r, "removeLayer", "pull")
      /\ r.key.op # "addClipToLayer"
  BY DEF updateClipInLayer, At
<1>2. CASE scene' = scene
  BY <1>1, <1>2 DEF ScenesChange
<1>3. CASE scene' # scene
  <2>1. /\ scene # None => IsInLayer(scene, i, c)
        /\ Update(r, "write", [scene EXCEPT !.layers[i] = WithoutIdOf(@, c)])
    BY <1>3 DEF updateClipInLayer, Refuse
  <2>2. PICK l : l = WithoutIdOf(scene.layers[i], c)
    OBVIOUS
  <2>3. scene # None /\ IsInLayer(scene, i, c) /\ scene' = [scene EXCEPT !.layers[i] = l]
    BY <1>3, <2>1, <2>2, UpdateChanges
  <2>4. scene \in SceneDocument /\ DOMAIN scene.layers = 1..Len(scene.layers) /\ scene.layers \in Layers
    BY <2>3, SceneTypedDef
  <2>5. i \in 1..Len(scene.layers) /\ scene.layers[i] # Null
    BY <2>3, <2>4 DEF IsInLayer, IsLayer
  <2>6. scene.layers[i] \in Seq(ClipId)
    BY <2>4, <2>5, LayersDef
  <2>7. l \in LayerType
    BY <2>2, <2>6, WithoutIdOfDef DEF LayerType
  <2>8. GetsLayers([scene.layers EXCEPT ![i] = l])
    BY <2>3, <2>4, <2>5, <2>7, GetsLayerIf, Zenon
  <2> QED BY <1>1, <2>2, <2>5, <2>8 DEF ScenesChange
<1>4. QED BY <1>2, <1>3

\* The definitions are edited.
LEMMA DefinitionsChange ==
    ASSUME NEW r, SceneTyped, NEW op \in OnDefinition, At(r, op, "write"), NEW clips,
           scene # None => clips \in Seq(ClipId),
           Update(r, "write", [scene EXCEPT !.clips = clips])
    PROVE  ScenesChange(r)
<1>1. ~At(r, "removeLayer", "pull") /\ r.key.op \notin {"addClipToLayer", "removeLayer"}
  BY DEF At, OnDefinition
<1>2. CASE scene' = scene
  BY <1>1, <1>2 DEF ScenesChange
<1>3. CASE scene' # scene
  <2>1. scene # None /\ scene' = [scene EXCEPT !.clips = clips]
    BY <1>3, UpdateChanges
  <2>2. scene \in SceneDocument
    BY <2>1, SceneTypedDef
  <2>3. /\ scene' \in SceneDocument /\ scene'.layers = scene.layers
        /\ scene'.workflow = scene.workflow
    BY <2>1, <2>2 DEF SceneDocument
  <2>4. GetsLayers(scene.layers)
    BY <2>2, <2>3, GetsSameLayersIf
  <2> QED BY <1>1, <2>4 DEF ScenesChange
<1>4. QED BY <1>2, <1>3

LEMMA addClipToSceneChanges ==
    ASSUME NEW r, addClipToScene(r), SceneTyped, ArgumentsKnown(r)
    PROVE  ScenesChange(r)
<1>1. PICK clips : clips = Append(scene.clips, r.key.arg.clip)
  OBVIOUS
<1>2. At(r, "addClipToScene", "write") /\ "addClipToScene" \in OnDefinition
  BY DEF addClipToScene, OnDefinition
<1>3. r.key.arg.clip \in ClipId
  BY <1>2 DEF ArgumentsKnown, At, ClipId
<1>4. ASSUME scene # None PROVE clips \in Seq(ClipId)
  <2>1. scene.clips \in Seq(ClipId)
    BY <1>4, SceneTypedDef
  <2> QED BY <1>1, <1>3, <2>1
<1>5. Update(r, "write", [scene EXCEPT !.clips = clips])
  BY <1>1 DEF addClipToScene
<1>6. QED BY <1>2, <1>4, <1>5, DefinitionsChange

LEMMA removeClipFromSceneChanges ==
    ASSUME NEW r, removeClipFromScene(r), SceneTyped
    PROVE  ScenesChange(r)
<1>1. PICK clips : clips = Without(scene.clips, r.key.arg.clip)
  OBVIOUS
<1>2. At(r, "removeClipFromScene", "write") /\ "removeClipFromScene" \in OnDefinition
  BY DEF removeClipFromScene, OnDefinition
<1>3. ASSUME scene # None PROVE clips \in Seq(ClipId)
  <2>1. scene.clips \in Seq(ClipId)
    BY <1>3, SceneTypedDef
  <2> QED BY <1>1, <2>1, WithoutDef
<1>4. Update(r, "write", [scene EXCEPT !.clips = clips])
  BY <1>1 DEF removeClipFromScene
<1>5. QED BY <1>2, <1>3, <1>4, DefinitionsChange

LEMMA updateClipInSceneChanges ==
    ASSUME NEW r, updateClipInScene(r), SceneTyped
    PROVE  ScenesChange(r)
<1>1. PICK clips : clips = WithoutIdOf(scene.clips, r.key.arg.clip)
  OBVIOUS
<1>2. At(r, "updateClipInScene", "write") /\ "updateClipInScene" \in OnDefinition
  BY DEF updateClipInScene, OnDefinition
<1>3. ASSUME scene # None PROVE clips \in Seq(ClipId)
  <2>1. scene.clips \in Seq(ClipId)
    BY <1>3, SceneTypedDef
  <2> QED BY <1>1, <2>1, WithoutIdOfDef
<1>4. CASE Refuse(r)
  BY <1>2, <1>4 DEF ScenesChange, Refuse, At
<1>5. CASE ~Refuse(r)
  <2>1. Update(r, "write", [scene EXCEPT !.clips = clips])
    BY <1>1, <1>5 DEF updateClipInScene
  <2> QED BY <1>2, <1>3, <2>1, DefinitionsChange
<1>6. QED BY <1>4, <1>5

\* The scene is created, deleted, or its video replaced.
LEMMA CreateChanges ==
    ASSUME NEW r, Create(r)
    PROVE  ScenesChange(r)
BY DEF Create, ScenesChange, At

LEMMA removeChanges ==
    ASSUME NEW r, remove(r)
    PROVE  ScenesChange(r)
BY DEF remove, Acknowledge, ScenesChange, At

LEMMA updateChanges ==
    ASSUME NEW r, update(r), SceneTyped
    PROVE  ScenesChange(r)
<1>1. /\ At(r, "update", "write") /\ ~At(r, "removeLayer", "pull")
      /\ r.key.op \notin {"addClipToLayer", "removeLayer"}
  BY DEF update, At
<1>2. CASE scene' = scene
  BY <1>1, <1>2 DEF ScenesChange
<1>3. CASE scene' # scene
  <2>1. PICK s : s = [scene EXCEPT !.workflow = None]
    OBVIOUS
  <2>2. scene # None /\ scene' = [s EXCEPT !.finished = FALSE]
    BY <1>3, <2>1, UpdateChanges DEF update
  <2>3. scene \in SceneDocument
    BY <2>2, SceneTypedDef
  <2>4. s \in SceneDocument /\ s.layers = scene.layers /\ s.workflow = None
    BY <2>1, <2>3 DEF SceneDocument
  <2>5. scene' \in SceneDocument /\ scene'.layers = scene.layers /\ scene'.workflow = None
    BY <2>2, <2>4 DEF SceneDocument
  <2>6. GetsLayers(scene.layers)
    BY <2>3, <2>5, GetsSameLayersIf
  <2> QED BY <1>1, <2>6 DEF ScenesChange
<1>4. QED BY <1>2, <1>3

\* Rendering leaves the layers alone.
LEMMA renderChanges ==
    ASSUME NEW r, renderScene(r)
    PROVE  ScenesChange(r)
BY DEF renderScene, Refuse, ScenesChange, At

LEMMA registerChanges ==
    ASSUME ScenesInv, NEW r \in requests, registerWorkflowForScene(r), SceneTyped
    PROVE  ScenesChange(r)
<1>1. /\ At(r, "render", "register") /\ ~At(r, "removeLayer", "pull")
      /\ r.key.op \notin {"addClipToLayer", "removeLayer"}
  BY DEF registerWorkflowForScene, At
<1>2. r.copy \in 1..Len(workflows)
  BY <1>1 DEF ScenesInv, RequestSound
<1>3. CASE scene = None
  BY <1>1, <1>3 DEF ScenesChange, registerWorkflowForScene
<1>4. CASE scene # None
  <2>1. scene' = [scene EXCEPT !.workflow = r.copy]
    BY <1>4 DEF registerWorkflowForScene
  <2>2. scene \in SceneDocument
    BY <1>4, SceneTypedDef
  <2>3. r.copy \in Nat
    BY <1>2
  <2>4. scene' \in SceneDocument /\ scene'.layers = scene.layers /\ scene'.workflow = r.copy
    BY <2>1, <2>2, <2>3 DEF SceneDocument
  <2>5. GetsLayers(scene.layers)
    BY <1>2, <2>2, <2>4, GetsSameLayersIf
  <2> QED BY <1>1, <2>5 DEF ScenesChange
<1>5. QED BY <1>3, <1>4

LEMMA finishChanges ==
    ASSUME NEW r, finishProcessingOfWorkflow(r), SceneTyped
    PROVE  ScenesChange(r)
<1>1. ~At(r, "removeLayer", "pull") /\ r.key.op \notin {"addClipToLayer", "removeLayer"}
  BY DEF finishProcessingOfWorkflow, At
<1>2. CASE scene' = scene
  BY <1>1, <1>2 DEF ScenesChange
<1>3. CASE scene' # scene
  <2>1. scene # None /\ scene' = [scene EXCEPT !.finished = TRUE]
    BY <1>3 DEF finishProcessingOfWorkflow
  <2>2. scene \in SceneDocument
    BY <2>1, SceneTypedDef
  <2>3. /\ scene' \in SceneDocument /\ scene'.layers = scene.layers
        /\ scene'.workflow = scene.workflow
    BY <2>1, <2>2 DEF SceneDocument
  <2>4. GetsLayers(scene.layers)
    BY <2>2, <2>3, GetsSameLayersIf
  <2> QED BY <1>1, <2>4 DEF ScenesChange
<1>4. QED BY <1>2, <1>3

\* Whatever a handler does.
LEMMA HandlersChange ==
    ASSUME ScenesInv, RequestsKnown, SceneTyped, NEW r \in requests, HandlerStep(r)
    PROVE  ScenesChange(r)
<1>1. ArgumentsKnown(r)
  BY KeysName
<1>2. QED BY <1>1, ReadersChange, addLayerChanges, PullChanges, addClipToLayerChanges, UnsetChanges,
             removeClipFromLayerChanges, updateClipInLayerChanges, addClipToSceneChanges,
             removeClipFromSceneChanges, updateClipInSceneChanges, CreateChanges, removeChanges,
             updateChanges, renderChanges, registerChanges, finishChanges, Zenon DEF HandlerStep

-----------------------------------------------------------------------------
(* Documents have their type.                                              *)

\* A handler that adds a clip has found the scene, so none has before there is one.
NotFoundYet == NeverCreated => \A r \in requests : r.key.op = "addClipToLayer" => r.at = "find"

DocumentsTyped ==
    /\ SceneTyped
    /\ \A r \in requests : CopyTyped(r)
    /\ NotFoundYet

LEMMA NewSceneDef ==
    ASSUME NEW draft \in DraftDocument
    PROVE  /\ NewScene(draft) \in SceneDocument /\ NewScene(draft).layers = draft.layers
           /\ NewScene(draft).workflow = None
BY DEF NewScene, DraftDocument, SceneDocument

LEMMA DocumentsInitial == Init => DocumentsTyped
<1> SUFFICES ASSUME Init PROVE DocumentsTyped
  OBVIOUS
<1>1. PICK s \in Setup : scene = IF s.scene = None THEN None ELSE NewScene(s.scene)
  BY DEF Init
<1>2. s.scene # None => s.scene \in DraftDocument
  BY ScenesAssumption
<1>3. SceneTyped
  <2>1. CASE s.scene = None
    BY <1>1, <2>1 DEF SceneTyped
  <2>2. CASE s.scene # None
    <3>1. PICK d : d = s.scene
      OBVIOUS
    <3>2. d \in DraftDocument /\ scene = NewScene(d)
      BY <1>1, <1>2, <2>2, <3>1
    <3>3. scene \in SceneDocument /\ scene.workflow = None
      BY <3>2, NewSceneDef
    <3> QED BY <3>3 DEF SceneTyped, SceneType
  <2> QED BY <2>1, <2>2
<1>4. requests = {}
  BY DEF Init
<1>5. QED BY <1>3, <1>4 DEF DocumentsTyped, NotFoundYet

\* Workflows are only added.
LEMMA WorkflowsStay ==
    ASSUME ScenesInv, NEW r \in requests, HandlerStep(r)
    PROVE  Len(workflows) \in Nat /\ Len(workflows') \in Nat /\ Len(workflows) <= Len(workflows')
<1>1. workflows \in Seq(Workflow) /\ Len(workflows) \in Nat
  BY DEF ScenesInv
<1>2. CASE renderScene(r)
  <2>1. CASE workflows' = workflows
    BY <1>1, <2>1
  <2>2. CASE workflows' # workflows
    <3>1. PICK started : workflows' = Append(workflows, started)
      BY <1>2, <2>2 DEF renderScene, Refuse
    <3>2. Len(workflows') = Len(workflows) + 1
      BY <1>1, <3>1
    <3> QED BY <1>1, <3>2
  <2> QED BY <2>1, <2>2
<1>3. CASE ~renderScene(r)
  <2>1. workflows' = workflows
    BY <1>3 DEF HandlerStep, findOne, Validate, Create, addLayerToScene, UnsetLayer, PullNullLayers,
       addClipToScene, removeClipFromScene, updateClipInScene, addClipToLayer, removeClipFromLayer,
       updateClipInLayer, update, remove, registerWorkflowForScene, finishProcessingOfWorkflow,
       Update, Refuse
  <2> QED BY <1>1, <2>1
<1>4. QED BY <1>2, <1>3

LEMMA SceneStaysTyped ==
    ASSUME SceneTyped, scene' = scene, Len(workflows) \in Nat, Len(workflows') \in Nat,
           Len(workflows) <= Len(workflows')
    PROVE  SceneTyped'
BY DEF SceneTyped, SceneType

LEMMA HandlerTypesScene ==
    ASSUME ScenesInv, RequestsKnown, DocumentsTyped, NEW r \in requests, HandlerStep(r)
    PROVE  SceneTyped'
<1>1. ScenesChange(r) /\ SceneTyped
  BY HandlersChange DEF DocumentsTyped
<1>2. Len(workflows) \in Nat /\ Len(workflows') \in Nat /\ Len(workflows) <= Len(workflows')
  BY WorkflowsStay
<1>3. CASE scene' = scene
  BY <1>1, <1>2, <1>3, SceneStaysTyped
<1>4. CASE scene' = None
  BY <1>4 DEF SceneTyped
<1>5. CASE At(r, "create", "write") /\ scene' = NewScene(r.copy)
  <2>1. r.copy \in DraftDocument
    BY <1>5 DEF DocumentsTyped, CopyTyped, At
  <2>2. scene' \in SceneDocument /\ scene'.workflow = None
    BY <1>5, <2>1, NewSceneDef
  <2> QED BY <2>2 DEF SceneTyped, SceneType
<1>6. ASSUME NEW layers, GetsLayers(layers) PROVE SceneTyped'
  <2>1. /\ scene' \in SceneDocument /\ scene # None
        /\ scene'.workflow \in {scene.workflow, None} \cup 1..Len(workflows)
    BY <1>6 DEF GetsLayers
  <2>2. scene.workflow \in {None} \cup 1..Len(workflows)
    BY <1>1, <2>1, SceneTypedDef
  <2>3. scene'.workflow \in {None} \cup 1..Len(workflows')
    BY <1>2, <2>1, <2>2
  <2> QED BY <2>1, <2>3 DEF SceneTyped, SceneType
<1>7. (\E layers : GetsLayers(layers)) => SceneTyped'
  BY <1>6
<1>8. QED BY <1>1, <1>3, <1>4, <1>5, <1>7 DEF ScenesChange

\* The copy of a handler that goes on.
LEMMA MovesTyped ==
    ASSUME SceneTyped, NEW r, CopyTyped(r), NEW q, MovesOn(r, q)
    PROVE  CopyTyped(q)
<1>1. q.key = r.key
  BY DEF MovesOn
<1>2. CASE r.at = "find" /\ scene # None /\ q.copy = Copy(r.key.op, r.key.arg)
            /\ q.at = IF r.key.op \in {"render", "addClipToLayer", "addClipToScene"}
                      THEN "validate" ELSE "write"
  <2>1. r.key.op # "create"
    BY <1>2 DEF CopyTyped
  <2>2. r.key.op = "render" => q.copy = scene /\ q.at = "validate"
    BY <1>2 DEF Copy
  <2>3. scene \in SceneDocument
    BY <1>2, SceneTypedDef
  <2> QED BY <1>1, <1>2, <2>1, <2>2, <2>3 DEF CopyTyped
<1>3. CASE r.at = "validate" /\ q.at = "write" /\ q.copy = r.copy /\ IsValid(r)
  <2>1. ASSUME r.key.op \in {"create", "render"} PROVE Null \notin ToSet(r.copy.layers)
    BY <1>3, <2>1 DEF IsValid, validateClipAvailability
  <2> QED BY <1>1, <1>3, <2>1 DEF CopyTyped
<1>4. CASE At(r, "removeLayer", "write") /\ q.at = "pull"
  BY <1>1, <1>4 DEF CopyTyped, At
<1>5. CASE At(r, "render", "write") /\ q.at = "register"
  BY <1>1, <1>5 DEF CopyTyped, At
<1>6. QED BY <1>2, <1>3, <1>4, <1>5 DEF MovesOn

LEMMA HandlerTypesCopies ==
    ASSUME DocumentsTyped, NEW r \in requests, HandlerGoesOn(r)
    PROVE  \A q \in requests' : CopyTyped(q)
<1>1. ASSUME NEW q, MovesOn(r, q) PROVE CopyTyped(q)
  BY <1>1, MovesTyped DEF DocumentsTyped
<1>2. QED BY <1>1 DEF HandlerGoesOn, DocumentsTyped

\* As long as there was no scene, adding clips has not got anywhere.
LEMMA HandlerKeepsNotFound ==
    ASSUME RequestsKnown, DocumentsTyped, NEW r \in requests, HandlerGoesOn(r), ScenesChange(r)
    PROVE  NotFoundYet'
<1> SUFFICES ASSUME NeverCreated', NEW q \in requests', q.key.op = "addClipToLayer"
             PROVE  q.at = "find"
  BY DEF NotFoundYet
<1>1. scene' = None /\ acked \subseteq acked' /\ \A k \in acked' : k.op \notin {"create", "remove"}
  BY DEF NeverCreated, HandlerGoesOn
<1>2. scene = None
  <2>1. ASSUME NEW d PROVE NewScene(d) # None \/ d \notin DraftDocument
    BY NewSceneDef, ScenesAssumption
  <2>2. At(r, "create", "write") => r.copy \in DraftDocument
    BY DEF DocumentsTyped, CopyTyped, At
  <2>3. ~ \E layers : GetsLayers(layers)
    BY <1>1 DEF GetsLayers
  <2>4. scene' = scene \/ (At(r, "create", "write") /\ scene' = NewScene(r.copy))
    BY <1>1, <2>3 DEF ScenesChange
  <2> QED BY <1>1, <2>1, <2>2, <2>4
<1>3. \A p \in requests : p.key.op = "addClipToLayer" => p.at = "find"
  BY <1>1, <1>2 DEF DocumentsTyped, NotFoundYet, NeverCreated
<1>4. CASE q \in requests
  BY <1>3, <1>4
<1>5. CASE MovesOn(r, q)
  <2>1. r.key.op = "addClipToLayer" /\ r.at = "find"
    BY <1>3, <1>5 DEF MovesOn
  <2> QED BY <1>2, <1>5, <2>1 DEF MovesOn, At
<1>6. QED BY <1>4, <1>5 DEF HandlerGoesOn

LEMMA SendTypes ==
    ASSUME DocumentsTyped, NEW op \in Op \ {"restart"}, NEW a \in Arguments(op), Send(op, a)
    PROVE  DocumentsTyped'
<1>1. PICK new : new = [key |-> Key(op, a), at |-> FirstPoint(op), copy |-> a.draft]
  OBVIOUS
<1>2. new.key.op = op /\ new.at = FirstPoint(op) /\ new.copy = a.draft
  BY <1>1 DEF Key
<1>3. op = "create" => a.draft \in DraftDocument
  BY ScenesAssumption DEF Arguments
<1>4. new.at = IF op = "create" THEN "validate" ELSE IF op = "addLayer" THEN "write" ELSE "find"
  BY <1>2 DEF FirstPoint
<1>5. CopyTyped(new)
  BY <1>2, <1>3, <1>4 DEF CopyTyped
<1>6. requests' = requests \cup {new} /\ UNCHANGED <<scene, workflows, acked>>
  BY <1>1 DEF Send
<1>7. SceneTyped'
  BY <1>6 DEF DocumentsTyped, SceneTyped, SceneType
<1>8. \A r \in requests' : CopyTyped(r)
  BY <1>5, <1>6 DEF DocumentsTyped
<1>9. NotFoundYet'
  BY <1>2, <1>4, <1>6 DEF DocumentsTyped, NotFoundYet, NeverCreated
<1>10. QED BY <1>7, <1>8, <1>9 DEF DocumentsTyped, CopyTyped

LEMMA HandlerTypes ==
    ASSUME ScenesInv, RequestsKnown, DocumentsTyped, NEW r \in requests, HandlerStep(r)
    PROVE  DocumentsTyped'
<1>1. HandlerGoesOn(r) /\ ScenesChange(r)
  BY HandlersGoOn, HandlersChange DEF DocumentsTyped
<1>2. SceneTyped'
  BY HandlerTypesScene
<1>3. \A q \in requests' : CopyTyped(q)
  BY <1>1, HandlerTypesCopies
<1>4. NotFoundYet'
  BY <1>1, HandlerKeepsNotFound
<1>5. QED BY <1>2, <1>3, <1>4 DEF DocumentsTyped, CopyTyped

\* The other steps leave the scene alone.
LEMMA OthersType ==
    ASSUME DocumentsTyped, UNCHANGED <<scene, acked>>, Len(workflows) \in Nat,
           Len(workflows') = Len(workflows),
           \A q \in requests' : q \in requests \/ (q.key.op = "workflowFinished" /\ q.at = "write")
    PROVE  DocumentsTyped'
<1>1. SceneTyped'
  BY SceneStaysTyped DEF DocumentsTyped
<1>2. \A q \in requests' : CopyTyped(q)
  BY DEF DocumentsTyped, CopyTyped
<1>3. NotFoundYet'
  BY DEF DocumentsTyped, NotFoundYet, NeverCreated
<1>4. QED BY <1>1, <1>2, <1>3 DEF DocumentsTyped, CopyTyped

LEMMA DocumentsStep ==
    ASSUME ScenesInv, RequestsKnown, DocumentsTyped, [Next]_vars
    PROVE  DocumentsTyped'
<1>1. CASE \E op \in Op \ {"restart"} : \E a \in Arguments(op) : Send(op, a)
  BY <1>1, SendTypes
<1>2. CASE \E r \in requests : HandlerStep(r)
  BY <1>2, HandlerTypes
<1>3. workflows \in Seq(Workflow) /\ Len(workflows) \in Nat
  BY DEF ScenesInv
<1>4. ASSUME NEW w \in DOMAIN workflows, WorkflowEnds(w) PROVE DocumentsTyped'
  <2>1. PICK st : workflows' = [workflows EXCEPT ![w].status = st]
    BY <1>4 DEF WorkflowEnds
  <2>2. PICK ended : ended = [workflows[w] EXCEPT !.status = st]
    OBVIOUS
  <2>3. workflows' = [workflows EXCEPT ![w] = ended]
    BY <2>1, <2>2
  <2>4. DOMAIN workflows' = 1..Len(workflows) /\ Len(workflows') = Len(workflows)
    BY <1>3, <2>3
  <2>5. UNCHANGED <<scene, acked, requests>>
    BY <1>4 DEF WorkflowEnds, clientVars
  <2> QED BY <1>3, <2>4, <2>5, OthersType
<1>5. ASSUME NEW w, workflowFinished(w) PROVE DocumentsTyped'
  <2>1. PICK new : new = [key |-> [op |-> "workflowFinished", arg |-> None, nr |-> 0],
                          at |-> "write", copy |-> w]
    OBVIOUS
  <2>2. requests' = requests \cup {new} /\ new.key.op = "workflowFinished" /\ new.at = "write"
    BY <1>5, <2>1 DEF workflowFinished
  <2>3. UNCHANGED <<scene, acked, workflows>>
    BY <1>5 DEF workflowFinished, clientVars
  <2> QED BY <1>3, <2>2, <2>3, OthersType
<1>6. CASE fetchVideos \/ Restart \/ FilesGoOn \/ UNCHANGED vars
  <2>1. UNCHANGED <<scene, acked, workflows>> /\ requests' \subseteq requests
    BY <1>6 DEF fetchVideos, Restart, FilesGoOn, vars, clientVars
  <2> QED BY <1>3, <2>1, OthersType
<1>7. QED BY <1>1, <1>2, <1>4, <1>5, <1>6 DEF Next

\* The rest of the state: files are stored before they are finished, and no
\* workflow renders nothing.
OthersTyped ==
    /\ stored \subseteq File /\ complete \subseteq stored
    /\ \A w \in 1..Len(workflows) : workflows[w].clips # {}
    /\ shown \in BOOLEAN /\ polling \in BOOLEAN

LEMMA OthersInitial == Init => OthersTyped
<1> SUFFICES ASSUME Init PROVE OthersTyped
  OBVIOUS
<1>1. PICK s \in Setup : stored = s.files /\ complete = s.files
  BY DEF Init
<1>2. s.files \subseteq File
  BY ScenesAssumption
<1>3. workflows = <<>> /\ shown = FALSE /\ polling = TRUE
  BY DEF Init
<1>4. \A w \in 1..Len(workflows) : workflows[w].clips # {}
  <2>1. Len(workflows) = 0
    BY <1>3
  <2> QED BY <2>1
<1>5. QED BY <1>1, <1>2, <1>3, <1>4 DEF OthersTyped

\* A layer that can be planned has a clip.
LEMMA renderHasClips ==
    ASSUME ScenesInv, DocumentsTyped, OthersTyped, NEW r \in requests, renderScene(r)
    PROVE  OthersTyped'
<1>1. CASE Refuse(r)
  BY <1>1 DEF Refuse, OthersTyped, fileVars, listVars
<1>2. CASE ~Refuse(r)
  <2>1. At(r, "render", "write") /\ CanPlan(r.copy)
    BY <1>2 DEF renderScene
  <2>2. r.copy.layers \in Layers /\ Null \notin ToSet(r.copy.layers)
    BY <2>1, DocumentFields DEF DocumentsTyped, CopyTyped, At
  <2>3. PICK l \in ToSet(r.copy.layers) : r.copy.layers = <<l>> /\ l # <<>>
    BY <2>1 DEF CanPlan
  <2>4. Len(r.copy.layers) = 1 /\ r.copy.layers[1] = l
    BY <2>3
  <2>5. l \in Seq(ClipId)
    BY <2>2, <2>3, <2>4, LayersDef
  <2>6. ToSet(l) # {}
    <3>1. Len(l) \in Nat /\ Len(l) # 0 /\ DOMAIN l = 1..Len(l)
      BY <2>3, <2>5
    <3>2. 1 \in DOMAIN l
      BY <3>1
    <3> QED BY <3>2 DEF ToSet
  <2>7. PICK started : started = [status |-> "running", clips |-> ToSet(r.copy.layers[1])]
    OBVIOUS
  <2>8. started.clips # {}
    BY <2>4, <2>6, <2>7
  <2>9. workflows' = Append(workflows, started) /\ UNCHANGED <<fileVars, listVars>>
    BY <1>2, <2>7 DEF renderScene
  <2>10. workflows \in Seq(Workflow)
    BY DEF ScenesInv
  <2>11. \A w \in 1..Len(workflows') : workflows'[w].clips # {}
    <3>1. /\ Len(workflows') = Len(workflows) + 1 /\ Len(workflows) \in Nat
          /\ workflows'[Len(workflows) + 1] = started
          /\ \A w \in 1..Len(workflows) : workflows'[w] = workflows[w]
      BY <2>9, <2>10
    <3>2. \A w \in 1..Len(workflows') : w = Len(workflows) + 1 \/ w \in 1..Len(workflows)
      BY <3>1
    <3> QED BY <2>8, <3>1, <3>2 DEF OthersTyped
  <2> QED BY <2>9, <2>11 DEF OthersTyped, fileVars, listVars
<1>3. QED BY <1>1, <1>2

LEMMA OthersStep ==
    ASSUME ScenesInv, DocumentsTyped, OthersTyped, [Next]_vars
    PROVE  OthersTyped'
<1>1. CASE UNCHANGED <<fileVars, listVars, workflows>>
  BY <1>1 DEF OthersTyped, fileVars, listVars
<1>2. ASSUME NEW r \in requests, HandlerStep(r) PROVE OthersTyped'
  <2>1. CASE renderScene(r)
    BY <2>1, renderHasClips
  <2>2. CASE ~renderScene(r)
    <3>1. UNCHANGED <<fileVars, listVars, workflows>>
      BY <1>2, <2>2 DEF HandlerStep, findOne, Validate, Create, addLayerToScene, UnsetLayer,
         PullNullLayers, addClipToScene, removeClipFromScene, updateClipInScene, addClipToLayer,
         removeClipFromLayer, updateClipInLayer, update, remove, registerWorkflowForScene,
         finishProcessingOfWorkflow, Update, Refuse
    <3> QED BY <1>1, <3>1
  <2> QED BY <2>1, <2>2
<1>3. ASSUME NEW w \in DOMAIN workflows, WorkflowEnds(w) PROVE OthersTyped'
  <2>1. PICK st : workflows' = [workflows EXCEPT ![w].status = st]
    BY <1>3 DEF WorkflowEnds
  <2>2. workflows \in Seq(Workflow) /\ w \in 1..Len(workflows) /\ workflows[w] \in Workflow
    BY DEF ScenesInv
  <2>3. PICK ended : ended = [workflows[w] EXCEPT !.status = st]
    OBVIOUS
  <2>4. ended.clips = workflows[w].clips
    BY <2>2, <2>3 DEF Workflow
  <2>5. workflows' = [workflows EXCEPT ![w] = ended]
    BY <2>1, <2>3
  <2>6. /\ Len(workflows') = Len(workflows)
        /\ \A v \in 1..Len(workflows) : workflows'[v] = IF v = w THEN ended ELSE workflows[v]
    BY <2>2, <2>5
  <2>7. UNCHANGED <<fileVars, listVars>>
    BY <1>3 DEF WorkflowEnds
  <2> QED BY <2>2, <2>4, <2>6, <2>7 DEF OthersTyped, fileVars, listVars
<1>4. CASE fetchVideos
  <2>1. SceneSound(scene)
    BY DEF ScenesInv
  <2>2. HasDownloadUrl \in BOOLEAN
    BY <2>1 DEF HasDownloadUrl, SceneSound
  <2>3. UNCHANGED <<fileVars, workflows, polling>> /\ shown' \in BOOLEAN
    BY <1>4, <2>2 DEF fetchVideos
  <2> QED BY <2>3 DEF OthersTyped, fileVars
<1>5. CASE Restart
  <2>1. UNCHANGED <<fileVars, workflows, shown>> /\ polling' \in BOOLEAN
    BY <1>5 DEF Restart, OthersTyped
  <2> QED BY <2>1 DEF OthersTyped, fileVars
<1>6. CASE FilesGoOn
  <2>1. PICK f \in File :
           \/ Files!Store({f})
           \/ Files!Finish(f)
           \/ Files!Describe(f)
    BY <1>6 DEF FilesGoOn
  <2>2. stored' \subseteq File /\ complete' \subseteq stored'
    BY <2>1 DEF Files!Store, Files!Finish, Files!Describe, OthersTyped
  <2>3. UNCHANGED <<workflows, listVars>>
    BY <1>6 DEF FilesGoOn
  <2> QED BY <2>2, <2>3 DEF OthersTyped, listVars
<1>7. CASE \/ \E op \in Op \ {"restart"} : \E a \in Arguments(op) : Send(op, a)
           \/ \E w \in DOMAIN workflows : workflowFinished(w)
           \/ UNCHANGED vars
  <2>1. UNCHANGED <<fileVars, listVars, workflows>>
    BY <1>7 DEF Send, workflowFinished, vars, fileVars, listVars
  <2> QED BY <1>1, <2>1
<1>8. QED BY <1>2, <1>3, <1>4, <1>5, <1>6, <1>7 DEF Next

\* The second inductive invariant.
ScenesTypes == RequestsKnown /\ DocumentsTyped /\ OthersTyped

LEMMA ScenesTypesAlways == Spec => []ScenesTypes
<1>1. Init => ScenesTypes
  BY RequestsInitial, DocumentsInitial, OthersInitial DEF ScenesTypes
<1>2. ScenesInv /\ ScenesTypes /\ [Next]_vars => ScenesTypes'
  BY RequestsStep, DocumentsStep, OthersStep DEF ScenesTypes
<1>3. QED BY <1>1, <1>2, ScenesInvAlways, PTL DEF Spec

\* Every variable has its type, whatever is sent and however it interleaves: a
\* scene that was found, updated, unset or pushed to is a document still.
THEOREM ScenesAreTyped == Spec => []ScenesTypeOK
<1>1. ScenesInv /\ ScenesTypes => ScenesTypeOK
  <2> SUFFICES ASSUME ScenesInv, ScenesTypes PROVE ScenesTypeOK
    OBVIOUS
  <2>1. description \in [File -> {"supported", "unsupported", None}]
    BY DEF ScenesInv
  <2>2. DOMAIN workflows = 1..Len(workflows) /\ \A w \in 1..Len(workflows) : workflows[w] \in Workflow
    BY DEF ScenesInv
  <2>3. events \subseteq DOMAIN workflows
    BY <2>2 DEF ScenesInv, HasSucceeded
  <2>4. \A w \in DOMAIN workflows : /\ workflows[w].status \in {"running", "succeeded", "failed"}
                                    /\ workflows[w].clips # {}
    BY <2>2 DEF Workflow, ScenesTypes, OthersTyped
  <2>5. \A r \in requests : r.at \in {"find", "validate", "write", "pull", "register"}
    BY DEF ScenesTypes, DocumentsTyped, CopyTyped
  <2>6. scene \in SceneType \cup {None} /\ acked \subseteq asked
    BY DEF ScenesTypes, DocumentsTyped, SceneTyped, RequestsKnown
  <2>7. /\ stored \subseteq File /\ complete \subseteq stored
        /\ shown \in BOOLEAN /\ polling \in BOOLEAN
    BY DEF ScenesTypes, OthersTyped
  <2> QED BY <2>1, <2>3, <2>4, <2>5, <2>6, <2>7 DEF ScenesTypeOK
<1>2. QED BY <1>1, ScenesInvAlways, ScenesTypesAlways, PTL

-----------------------------------------------------------------------------
(* Layers that are null.                                                   *)

RemovesAt(point) == \E r \in requests : r.key.op = "removeLayer" /\ r.at = point

\* How far beyond the end of the layers a clip may be pushed: a layer that was
\* there when the clip's handler looked may have been removed since.
Slack == IF Wanted("removeLayer") # {} /\ ~Pending("removeLayer") THEN 1 ELSE 0

OneRemoval == (\A p, q \in Wanted("removeLayer") : p = q) /\ Wanted("restart") = {}

\* A clip's handler that has looked pushes this far at most.
PushesWithin(n) ==
    \A r \in requests : r.key.op = "addClipToLayer" /\ r.at # "find" => r.key.arg.layer <= n

NullsAreRemoved ==
    /\ ~RemovesAt("pull") => \A i \in 1..Len(scene.layers) : scene.layers[i] # Null
    /\ \A i, j \in 1..Len(scene.layers) : scene.layers[i] = Null /\ scene.layers[j] = Null => i = j
    /\ PushesWithin(Len(scene.layers) + Slack)

\* The third inductive invariant.
NullsInv == OneRemoval /\ scene # None => NullsAreRemoved

LEMMA NullsInitial == Init => NullsInv
<1> SUFFICES ASSUME Init, scene # None PROVE NullsAreRemoved
  BY DEF NullsInv
<1>1. PICK s \in Setup : scene = IF s.scene = None THEN None ELSE NewScene(s.scene)
  BY DEF Init
<1>2. PICK d : d = s.scene
  OBVIOUS
<1>3. d \in DraftDocument /\ Null \notin ToSet(d.layers) /\ scene = NewScene(d)
  BY <1>1, <1>2, ScenesAssumption
<1>4. scene \in SceneDocument /\ scene.layers = d.layers
  BY <1>3, NewSceneDef
<1>5. DOMAIN scene.layers = 1..Len(scene.layers)
  BY <1>4, DocumentFields
<1>6. \A i \in 1..Len(scene.layers) : scene.layers[i] # Null
  BY <1>3, <1>4, <1>5 DEF ToSet
<1>7. requests = {}
  BY DEF Init
<1>8. QED BY <1>6, <1>7 DEF NullsAreRemoved, PushesWithin

\* Requests are not taken back.
LEMMA OneRemovalBefore ==
    ASSUME asked \subseteq asked', OneRemoval'
    PROVE  OneRemoval
BY DEF OneRemoval, Wanted

\* A handler's step does not take back how far a clip may be pushed, and a clip
\* that is pushed has found its layer.
LEMMA SlackStays ==
    ASSUME NEW r \in requests, HandlerGoesOn(r)
    PROVE  Slack \in {0, 1} /\ Slack' \in {0, 1} /\ Slack <= Slack'
<1>1. Wanted("removeLayer")' = Wanted("removeLayer")
  BY DEF HandlerGoesOn, Wanted
<1>2. Pending("removeLayer")' => Pending("removeLayer")
  BY DEF HandlerGoesOn, MovesOn, Pending
<1>3. Slack \in {0, 1} /\ Slack' \in {0, 1}
  BY DEF Slack
<1>4. Slack = 1 => Slack' = 1
  BY <1>1, <1>2 DEF Slack
<1>5. QED BY <1>3, <1>4

LEMMA PushesStayWithin ==
    ASSUME SceneTyped, scene # None, PushesWithin(Len(scene.layers) + Slack),
           NEW r \in requests, ArgumentsKnown(r), HandlerGoesOn(r)
    PROVE  \A q \in requests' : q.key.op = "addClipToLayer" /\ q.at # "find"
              => q.key.arg.layer <= Len(scene.layers) + Slack
<1> SUFFICES ASSUME NEW q \in requests', q.key.op = "addClipToLayer", q.at # "find"
             PROVE  q.key.arg.layer <= Len(scene.layers) + Slack
  OBVIOUS
<1>1. CASE q \in requests
  BY <1>1 DEF PushesWithin
<1>2. CASE MovesOn(r, q)
  <2>1. r.key.op = "addClipToLayer" /\ q.key = r.key
    BY <1>2 DEF MovesOn
  <2>2. CASE r.at # "find"
    BY <2>1, <2>2 DEF PushesWithin
  <2>3. CASE r.at = "find"
    <3>1. Accepts(scene, r.key.op, r.key.arg)
      BY <1>2, <2>1, <2>3 DEF MovesOn, At
    <3>2. IsLayer(scene, r.key.arg.layer)
      BY <2>1, <3>1 DEF Accepts
    <3>3. DOMAIN scene.layers = 1..Len(scene.layers) /\ Len(scene.layers) \in Nat
      BY SceneTypedDef
    <3>4. r.key.arg.layer \in 1..Len(scene.layers)
      BY <3>2, <3>3 DEF IsLayer
    <3>5. Slack \in {0, 1}
      BY DEF Slack
    <3> QED BY <2>1, <3>3, <3>4, <3>5
  <2> QED BY <2>2, <2>3
<1>3. QED BY <1>1, <1>2 DEF HandlerGoesOn

\* As long as no layer becomes null and none goes.
LEMMA NoNewNullKeeps ==
    ASSUME SceneTyped, scene # None, NullsAreRemoved, scene' \in SceneDocument,
           NEW r \in requests, RequestsKnown, HandlerGoesOn(r), ~At(r, "removeLayer", "pull"),
           NoNewNull(scene.layers, scene'.layers)
    PROVE  NullsAreRemoved'
<1>1. Len(scene.layers) \in Nat /\ Len(scene'.layers) \in Nat /\ Len(scene.layers) <= Len(scene'.layers)
  BY SceneTypedDef, DocumentFields DEF NoNewNull
<1>2. requests \ {r} \subseteq requests'
  BY DEF HandlerGoesOn
<1>3. RemovesAt("pull") => RemovesAt("pull")'
  BY <1>2 DEF RemovesAt, At
<1>4. ~RemovesAt("pull")' => \A i \in 1..Len(scene'.layers) : scene'.layers[i] # Null
  BY <1>3 DEF NullsAreRemoved, NoNewNull
<1>5. \A i, j \in 1..Len(scene'.layers) : scene'.layers[i] = Null /\ scene'.layers[j] = Null => i = j
  BY DEF NullsAreRemoved, NoNewNull
<1>6. ASSUME NEW q \in requests', q.key.op = "addClipToLayer", q.at # "find"
      PROVE  q.key.arg.layer <= Len(scene'.layers) + Slack'
  <2>1. q.key.arg.layer <= Len(scene.layers) + Slack
    BY <1>6, PushesStayWithin, KeysName DEF NullsAreRemoved
  <2>2. q.key.arg.layer \in Nat
    <3>1. q.key = r.key \/ q \in requests
      BY DEF HandlerGoesOn, MovesOn
    <3>2. PICK p \in requests : p.key = q.key
      BY <3>1
    <3> QED BY <1>6, <3>2, KeysName DEF ArgumentsKnown, ToLayer
  <2>3. Slack \in {0, 1} /\ Slack' \in {0, 1} /\ Slack <= Slack'
    BY SlackStays
  <2> QED BY <1>1, <2>1, <2>2, <2>3
<1>7. QED BY <1>4, <1>5, <1>6 DEF NullsAreRemoved, PushesWithin

\* The only removal has unset its layer: nothing else was null.
LEMMA UnsetKeepsNulls ==
    ASSUME SceneTyped, NullsAreRemoved, OneRemoval, RequestsKnown,
           NEW r \in requests, At(r, "removeLayer", "write"), HandlerGoesOn(r),
           r.key.arg.layer \in 1..Len(scene.layers),
           GetsLayers([scene.layers EXCEPT ![r.key.arg.layer] = Null]),
           \E q : MovesOn(r, q) /\ q.at = "pull" /\ requests' = (requests \ {r}) \cup {q}
    PROVE  NullsAreRemoved'
<1>1. PICK i \in 1..Len(scene.layers) : i = r.key.arg.layer
  OBVIOUS
<1>2. scene # None /\ scene' \in SceneDocument /\ scene'.layers = [scene.layers EXCEPT ![i] = Null]
  BY <1>1 DEF GetsLayers
<1>3. scene.layers \in Layers /\ Len(scene.layers) \in Nat /\ Null \in LayerType
  BY <1>2, SceneTypedDef DEF LayerType
<1>4. /\ Len(scene'.layers) = Len(scene.layers)
      /\ \A j \in 1..Len(scene.layers) : scene'.layers[j] = IF j = i THEN Null ELSE scene.layers[j]
  <2>1. PICK from : from = scene.layers
    OBVIOUS
  <2>2. PICK to : to = scene'.layers
    OBVIOUS
  <2>3. from \in Layers /\ i \in 1..Len(from)
    BY <1>3, <2>1
  <2>4. to = [from EXCEPT ![i] = Null]
    BY <1>2, <2>1, <2>2
  <2>5. /\ Len(to) = Len(from)
        /\ \A j \in 1..Len(from) : to[j] = IF j = i THEN Null ELSE from[j]
    BY <2>3, <2>4, UnsetDef
  <2> QED BY <2>1, <2>2, <2>5
<1>5. ~RemovesAt("pull")
  <2>1. ASSUME NEW p \in requests, p.key.op = "removeLayer" PROVE p = r
    <3>1. p.key \in Wanted("removeLayer") /\ r.key \in Wanted("removeLayer")
      BY <2>1 DEF RequestsKnown, Wanted, At
    <3>2. p.key = r.key
      BY <3>1 DEF OneRemoval
    <3> QED BY <2>1, <3>2 DEF RequestsKnown
  <2> QED BY <2>1 DEF RemovesAt, At
<1>6. \A j \in 1..Len(scene.layers) : scene.layers[j] # Null
  BY <1>5 DEF NullsAreRemoved
<1>7. RemovesAt("pull")'
  BY DEF MovesOn, RemovesAt, At
<1>8. \A j, k \in 1..Len(scene'.layers) : scene'.layers[j] = Null /\ scene'.layers[k] = Null => j = k
  BY <1>4, <1>6
<1>9. \A p \in requests' : p.key.op = "addClipToLayer" /\ p.at # "find"
         => p.key.arg.layer <= Len(scene'.layers) + Slack'
  <2>1. PICK q : MovesOn(r, q) /\ requests' = (requests \ {r}) \cup {q}
    OBVIOUS
  <2>2. q.key.op = "removeLayer"
    BY <2>1 DEF MovesOn, At
  <2>3. ASSUME NEW p \in requests', p.key.op = "addClipToLayer", p.at # "find"
        PROVE  p.key.arg.layer <= Len(scene'.layers) + Slack'
    <3>1. p \in requests
      BY <2>1, <2>2, <2>3
    <3>2. p.key.arg.layer <= Len(scene.layers) + Slack
      BY <2>3, <3>1 DEF NullsAreRemoved, PushesWithin
    <3>3. p.key.arg.layer \in Nat
      BY <2>3, <3>1, KeysName DEF ArgumentsKnown, ToLayer
    <3>4. Slack \in {0, 1} /\ Slack' \in {0, 1} /\ Slack <= Slack'
      BY SlackStays
    <3> QED BY <1>3, <1>4, <3>2, <3>3, <3>4
  <2> QED BY <2>3
<1>10. QED BY <1>7, <1>8, <1>9 DEF NullsAreRemoved, PushesWithin

\* The only removal is over: no layer is null, and at most one is gone.
LEMMA PullKeepsNulls ==
    ASSUME SceneTyped, NullsAreRemoved, OneRemoval, RequestsKnown,
           NEW r \in requests, At(r, "removeLayer", "pull"), HandlerGoesOn(r),
           GetsLayers(Without(scene.layers, Null))
    PROVE  NullsAreRemoved'
<1>1. PICK to : to = Without(scene.layers, Null)
  OBVIOUS
<1>2. scene # None /\ scene' \in SceneDocument /\ scene'.layers = to
  BY <1>1 DEF GetsLayers
<1>3. scene.layers \in Layers /\ Len(scene.layers) \in Nat /\ Len(to) \in Nat
  BY <1>2, SceneTypedDef, DocumentFields
<1>4. (\A i \in 1..Len(to) : to[i] # Null) /\ Len(scene.layers) <= Len(to) + 1
  BY <1>1, <1>3, PullDef DEF NullsAreRemoved
<1>5. requests' = requests \ {r}
  <2>1. ~ \E q : MovesOn(r, q)
    BY DEF MovesOn, At
  <2> QED BY <2>1 DEF HandlerGoesOn
<1>6. Slack' = 1 /\ Slack = 0
  <2>1. r.key \in Wanted("removeLayer") /\ Wanted("removeLayer")' = Wanted("removeLayer")
    BY DEF RequestsKnown, Wanted, At, HandlerGoesOn
  <2>2. Pending("removeLayer")
    BY DEF Pending, At
  <2>3. ASSUME NEW p \in requests, p.key.op = "removeLayer" PROVE p = r
    <3>1. p.key \in Wanted("removeLayer")
      BY <2>3 DEF RequestsKnown, Wanted
    <3>2. p.key = r.key
      BY <2>1, <3>1 DEF OneRemoval
    <3> QED BY <2>3, <3>2 DEF RequestsKnown
  <2>4. ~Pending("removeLayer")'
    BY <1>5, <2>3 DEF Pending
  <2> QED BY <2>1, <2>2, <2>4 DEF Slack
<1>7. ASSUME NEW p \in requests', p.key.op = "addClipToLayer", p.at # "find"
      PROVE  p.key.arg.layer <= Len(to) + Slack'
  <2>1. p \in requests
    BY <1>5
  <2>2. p.key.arg.layer <= Len(scene.layers) + Slack
    BY <1>7, <2>1 DEF NullsAreRemoved, PushesWithin
  <2>3. p.key.arg.layer \in Nat
    BY <1>7, <2>1, KeysName DEF ArgumentsKnown, ToLayer
  <2> QED BY <1>3, <1>4, <1>6, <2>2, <2>3
<1>8. QED BY <1>2, <1>4, <1>7 DEF NullsAreRemoved, PushesWithin

LEMMA HandlerKeepsNulls ==
    ASSUME ScenesInv, RequestsKnown, DocumentsTyped, NullsInv, OneRemoval', scene' # None,
           NEW r \in requests, HandlerStep(r)
    PROVE  NullsAreRemoved'
<1> DEFINE i == r.key.arg.layer
           c == r.key.arg.clip
<1>1. /\ HandlerGoesOn(r) /\ ScenesChange(r) /\ SceneTyped /\ SceneTyped' /\ ArgumentsKnown(r)
  BY HandlersGoOn, HandlersChange, HandlerTypesScene, KeysName DEF DocumentsTyped
<1>2. OneRemoval
  BY <1>1, OneRemovalBefore DEF HandlerGoesOn
<1>3. scene' \in SceneDocument
  BY <1>1 DEF SceneTyped, SceneType
<1>4. ASSUME NEW to, GetsLayers(to)
      PROVE  /\ scene # None /\ scene'.layers = to /\ NullsAreRemoved
             /\ scene.layers \in Layers /\ Len(scene.layers) \in Nat
  BY <1>1, <1>2, <1>4, SceneTypedDef DEF GetsLayers, NullsInv
<1>5. ASSUME NEW to, GetsLayers(to), ~At(r, "removeLayer", "pull"), NoNewNull(scene.layers, to)
      PROVE  NullsAreRemoved'
  BY <1>1, <1>3, <1>4, <1>5, NoNewNullKeeps
<1>6. CASE scene' = scene /\ (At(r, "removeLayer", "pull") => scene = None)
  <2>1. scene # None /\ NullsAreRemoved /\ Len(scene.layers) \in Nat
    BY <1>1, <1>2, <1>6, SceneTypedDef DEF NullsInv
  <2>2. NoNewNull(scene.layers, scene'.layers)
    BY <1>6, <2>1 DEF NoNewNull
  <2> QED BY <1>1, <1>3, <1>6, <2>1, <2>2, NoNewNullKeeps
<1>7. CASE At(r, "create", "write") /\ NeverCreated /\ scene' = NewScene(r.copy)
  <2>1. r.copy \in DraftDocument /\ Null \notin ToSet(r.copy.layers)
    BY <1>7 DEF DocumentsTyped, CopyTyped, At
  <2>2. scene'.layers = r.copy.layers
    BY <1>7, <2>1, NewSceneDef
  <2>3. DOMAIN scene'.layers = 1..Len(scene'.layers)
    BY <1>3, DocumentFields
  <2>4. \A j \in 1..Len(scene'.layers) : scene'.layers[j] # Null
    BY <2>1, <2>2, <2>3 DEF ToSet
  <2>5. \A p \in requests' : p.key.op = "addClipToLayer" => p.at = "find"
    <3>1. \A p \in requests : p.key.op = "addClipToLayer" => p.at = "find"
      BY <1>7 DEF DocumentsTyped, NotFoundYet
    <3>2. \A p \in requests' : p \in requests \/ p.key = r.key
      BY <1>1 DEF HandlerGoesOn, MovesOn
    <3> QED BY <1>7, <3>1, <3>2 DEF At
  <2> QED BY <2>4, <2>5 DEF NullsAreRemoved, PushesWithin
<1>8. CASE r.key.op \notin {"addClipToLayer", "removeLayer"} /\ GetsLayers(scene.layers)
  <2>1. ~At(r, "removeLayer", "pull")
    BY <1>8 DEF At
  <2>2. NoNewNull(scene.layers, scene.layers)
    BY <1>4, <1>8 DEF NoNewNull
  <2> QED BY <1>5, <1>8, <2>1, <2>2
<1>9. CASE At(r, "addLayer", "write") /\ GetsLayers(Append(scene.layers, <<>>))
  <2>1. PICK to : to = Append(scene.layers, <<>>)
    OBVIOUS
  <2>2. GetsLayers(to) /\ ~At(r, "removeLayer", "pull")
    BY <1>9, <2>1 DEF At
  <2>3. NoNewNull(scene.layers, to)
    BY <1>4, <2>1, <2>2, AppendDef
  <2> QED BY <1>5, <2>2, <2>3
<1>10. CASE /\ At(r, "removeLayer", "write") /\ i \in 1..Len(scene.layers)
            /\ GetsLayers([scene.layers EXCEPT ![i] = Null])
            /\ \E q : MovesOn(r, q) /\ q.at = "pull" /\ requests' = (requests \ {r}) \cup {q}
  <2>1. NullsAreRemoved
    BY <1>2, <1>10 DEF GetsLayers, NullsInv
  <2> QED BY <1>1, <1>2, <1>10, <2>1, UnsetKeepsNulls, Zenon
<1>11. CASE At(r, "removeLayer", "pull") /\ GetsLayers(Without(scene.layers, Null))
  <2>1. NullsAreRemoved
    BY <1>2, <1>11 DEF GetsLayers, NullsInv
  <2> QED BY <1>1, <1>2, <1>11, <2>1, PullKeepsNulls, Zenon
<1>12. CASE /\ At(r, "addClipToLayer", "write") /\ (i \in 1..Len(scene.layers) => scene.layers[i] # Null)
            /\ GetsLayers(PushedTo(scene.layers, i, c))
  <2>1. PICK to : to = PushedTo(scene.layers, i, c)
    OBVIOUS
  <2>2. GetsLayers(to) /\ ~At(r, "removeLayer", "pull") /\ r.key.op = "addClipToLayer" /\ r.at # "find"
    BY <1>12, <2>1 DEF At
  <2>3. i \in Nat \ {0} /\ c \in File
    BY <1>1, <2>2 DEF ArgumentsKnown, ToLayer
  <2>4. i <= Len(scene.layers) + Slack /\ Slack \in {0, 1}
    BY <1>4, <2>2 DEF NullsAreRemoved, PushesWithin, Slack
  <2>5. i <= Len(scene.layers) + 1
    BY <1>4, <2>2, <2>3, <2>4
  <2>6. NoNewNull(scene.layers, to)
    BY <1>4, <1>12, <2>1, <2>2, <2>3, <2>5, PushDef
  <2> QED BY <1>5, <2>2, <2>6
<1>13. CASE /\ At(r, "removeClipFromLayer", "write")
            /\ i \in 1..Len(scene.layers) /\ scene.layers[i] # Null
            /\ GetsLayers([scene.layers EXCEPT ![i] = Without(scene.layers[i], c)])
  <2>1. PICK to : to = [scene.layers EXCEPT ![i] = Without(scene.layers[i], c)]
    OBVIOUS
  <2>2. GetsLayers(to) /\ ~At(r, "removeLayer", "pull")
    BY <1>13, <2>1 DEF At
  <2>3. scene.layers \in Layers
    BY <1>4, <2>2
  <2>4. NoNewNull(scene.layers, to)
    BY <1>13, <2>1, <2>3, WithdrawDef, Zenon
  <2> QED BY <1>5, <2>2, <2>4
<1>14. CASE /\ At(r, "updateClipInLayer", "write")
            /\ i \in 1..Len(scene.layers) /\ scene.layers[i] # Null
            /\ GetsLayers([scene.layers EXCEPT ![i] = WithoutIdOf(scene.layers[i], c)])
  <2>1. PICK to : to = [scene.layers EXCEPT ![i] = WithoutIdOf(scene.layers[i], c)]
    OBVIOUS
  <2>2. GetsLayers(to) /\ ~At(r, "removeLayer", "pull")
    BY <1>14, <2>1 DEF At
  <2>3. scene.layers \in Layers
    BY <1>4, <2>2
  <2>4. NoNewNull(scene.layers, to)
    BY <1>14, <2>1, <2>3, ForgetDef, Zenon
  <2> QED BY <1>5, <2>2, <2>4
<1>15. QED BY <1>1, <1>6, <1>7, <1>8, <1>9, <1>10, <1>11, <1>12, <1>13, <1>14 DEF ScenesChange

\* A request that is sent while one removal is allowed is not another removal.
LEMMA SendKeepsNulls ==
    ASSUME RequestsKnown, SceneTyped, NullsInv, OneRemoval', scene' # None,
           NEW op \in Op \ {"restart"}, NEW a \in Arguments(op), Send(op, a)
    PROVE  NullsAreRemoved'
<1>1. PICK k : k = Key(op, a)
  OBVIOUS
<1>2. PICK new : new = [key |-> k, at |-> FirstPoint(op), copy |-> a.draft]
  OBVIOUS
<1>3. new.key = k /\ new.at = FirstPoint(op)
  BY <1>2
<1>4. asked' = asked \cup {k} /\ requests' = requests \cup {new} /\ scene' = scene
  BY <1>1, <1>2 DEF Send
<1>5. k \notin asked /\ k.op = op
  BY <1>1, <1>4, KeyIsNew
<1>6. NullsAreRemoved
  BY <1>4, OneRemovalBefore DEF NullsInv
<1>7. RemovesAt("pull") => RemovesAt("pull")'
  BY <1>4 DEF RemovesAt
<1>8. ASSUME Slack = 1 PROVE Slack' = 1
  <2>1. PICK p : p \in Wanted("removeLayer")
    BY <1>8 DEF Slack
  <2>2. op # "removeLayer"
    <3>1. p \in Wanted("removeLayer")' /\ p # k
      BY <2>1, <1>4, <1>5 DEF Wanted
    <3>2. op = "removeLayer" => k \in Wanted("removeLayer")'
      BY <1>4, <1>5 DEF Wanted
    <3> QED BY <3>1, <3>2 DEF OneRemoval
  <2>3. ~Pending("removeLayer")' /\ p \in Wanted("removeLayer")'
    BY <2>1, <2>2, <1>3, <1>4, <1>5, <1>8 DEF Slack, Pending, Wanted
  <2> QED BY <2>3 DEF Slack
<1>9. Slack \in {0, 1} /\ Slack' \in {0, 1}
  BY DEF Slack
<1>10. ASSUME NEW q \in requests', q.key.op = "addClipToLayer", q.at # "find"
       PROVE  q.key.arg.layer <= Len(scene.layers) + Slack'
  <2>1. q \in requests
    BY <1>3, <1>4, <1>5, <1>10 DEF FirstPoint
  <2>2. q.key.arg.layer <= Len(scene.layers) + Slack
    BY <1>6, <1>10, <2>1 DEF NullsAreRemoved, PushesWithin
  <2>3. q.key.arg.layer \in Nat /\ Len(scene.layers) \in Nat
    BY <1>4, <1>10, <2>1, KeysName, SceneTypedDef DEF ArgumentsKnown, ToLayer
  <2> QED BY <1>8, <1>9, <2>2, <2>3
<1>11. QED BY <1>4, <1>6, <1>7, <1>10 DEF NullsAreRemoved, PushesWithin

\* Steps that leave the scene and the requests of clients alone.
LEMMA OthersKeepNulls ==
    ASSUME NullsInv, OneRemoval', scene' # None, UNCHANGED <<scene, asked>>,
           requests \subseteq requests',
           \A q \in requests' : q \in requests \/ q.key.op = "workflowFinished"
    PROVE  NullsAreRemoved'
<1>1. NullsAreRemoved
  BY OneRemovalBefore DEF NullsInv
<1>2. RemovesAt("pull") => RemovesAt("pull")'
  BY DEF RemovesAt
<1>3. Slack' = Slack
  BY DEF Slack, Pending, Wanted
<1>4. QED BY <1>1, <1>2, <1>3 DEF NullsAreRemoved, PushesWithin

LEMMA NullsStep ==
    ASSUME ScenesInv, RequestsKnown, DocumentsTyped, NullsInv, [Next]_vars
    PROVE  NullsInv'
<1> SUFFICES ASSUME OneRemoval', scene' # None PROVE NullsAreRemoved'
  BY DEF NullsInv
<1>1. CASE \E op \in Op \ {"restart"} : \E a \in Arguments(op) : Send(op, a)
  <2>1. PICK op \in Op \ {"restart"} : \E a \in Arguments(op) : Send(op, a)
    BY <1>1
  <2>2. PICK a \in Arguments(op) : Send(op, a)
    BY <2>1
  <2>3. scene' = scene
    BY <2>2 DEF Send
  <2> QED BY <2>2, SendKeepsNulls DEF DocumentsTyped
<1>2. CASE \E r \in requests : HandlerStep(r)
  BY <1>2, HandlerKeepsNulls
<1>3. CASE \E w \in DOMAIN workflows : workflowFinished(w)
  <2>1. PICK w \in DOMAIN workflows : workflowFinished(w)
    BY <1>3
  <2>2. PICK new : new = [key |-> [op |-> "workflowFinished", arg |-> None, nr |-> 0],
                          at |-> "write", copy |-> w]
    OBVIOUS
  <2>3. requests' = requests \cup {new} /\ new.key.op = "workflowFinished"
    BY <2>1, <2>2 DEF workflowFinished
  <2>4. UNCHANGED <<scene, asked>>
    BY <2>1 DEF workflowFinished, clientVars
  <2> QED BY <2>3, <2>4, OthersKeepNulls
<1>4. CASE \/ \E w \in DOMAIN workflows : WorkflowEnds(w)
           \/ fetchVideos \/ FilesGoOn \/ UNCHANGED vars
  <2>1. UNCHANGED <<scene, requests, asked>>
    BY <1>4 DEF WorkflowEnds, fetchVideos, FilesGoOn, vars, clientVars
  <2> QED BY <2>1, OthersKeepNulls
<1>5. ~Restart
  <2> SUFFICES ASSUME Restart PROVE FALSE
    OBVIOUS
  <2>1. PICK k : k = Key("restart", None)
    OBVIOUS
  <2>2. k \in asked' /\ k.op = "restart"
    BY <2>1 DEF Restart, Key
  <2> QED BY <2>2 DEF OneRemoval, Wanted
<1>6. QED BY <1>1, <1>2, <1>3, <1>4, <1>5 DEF Next

LEMMA NullsInvAlways == Spec => []NullsInv
<1>1. ScenesInv /\ ScenesTypes /\ NullsInv /\ [Next]_vars => NullsInv'
  BY NullsStep DEF ScenesTypes
<1>2. QED BY <1>1, NullsInitial, ScenesInvAlways, ScenesTypesAlways, PTL DEF Spec

\* A removal of a layer leaves no layer that is null when it is over, whatever was
\* added, pushed to the layers or removed from them between its two updates.
THEOREM RemovalsLeaveNoNull == Spec => []NullLayersAreRemoved
<1>1. ScenesTypes /\ NullsInv => NullLayersAreRemoved
  <2> SUFFICES ASSUME ScenesTypes, NullsInv, scene # None, Cardinality(Wanted("removeLayer")) <= 1,
                      Wanted("restart") = {}, ~Pending("removeLayer")
               PROVE  ~Contains(scene.layers, Null)
    BY DEF NullLayersAreRemoved
  <2>1. IsFiniteSet(Wanted("removeLayer")) /\ Cardinality(Wanted("removeLayer")) \in Nat
    <3>1. Wanted("removeLayer") \subseteq asked /\ IsFiniteSet(asked)
      BY DEF Wanted, ScenesTypes, RequestsKnown
    <3> QED BY <3>1, FS_Subset, FS_CardinalityType
  <2>2. OneRemoval
    <3>1. CASE Cardinality(Wanted("removeLayer")) = 0
      <4>1. Wanted("removeLayer") = {}
        BY <2>1, <3>1, FS_EmptySet
      <4> QED BY <4>1 DEF OneRemoval
    <3>2. CASE Cardinality(Wanted("removeLayer")) = 1
      <4>1. \E x : Wanted("removeLayer") = {x}
        BY <2>1, <3>2, FS_Singleton
      <4> QED BY <4>1 DEF OneRemoval
    <3> QED BY <2>1, <3>1, <3>2
  <2>3. ~RemovesAt("pull")
    BY DEF Pending, RemovesAt
  <2> QED BY <2>2, <2>3 DEF NullsInv, NullsAreRemoved, Contains
<1>2. QED BY <1>1, ScenesTypesAlways, NullsInvAlways, PTL

-----------------------------------------------------------------------------
(* Clips that were added.                                                  *)

LEMMA ImageIsFinite ==
    ASSUME NEW D, IsFiniteSet(D), NEW f, NEW S, S = {f[x] : x \in D}, DOMAIN f = D, f = [x \in D |-> f[x]]
    PROVE  IsFiniteSet(S)
<1>1. f \in [D -> S]
  OBVIOUS
<1>2. f \in Surjection(D, S)
  BY <1>1 DEF Surjection
<1>3. QED BY <1>2, FS_Surjection

LEMMA PlacesDef ==
    ASSUME NEW layers \in Layers, NEW c
    PROVE  /\ IsFiniteSet(Places(layers, c)) /\ Cardinality(Places(layers, c)) \in Nat
           /\ \A p : p \in Places(layers, c) <=>
                  \E i \in 1..Len(layers) : /\ layers[i] # Null
                                            /\ \E k \in DOMAIN layers[i] : layers[i][k] = c /\ p = <<i, k>>
<1> DEFINE Filled == {i \in DOMAIN layers : layers[i] # Null}
           In(i) == {<<i, k>> : k \in {k \in DOMAIN layers[i] : layers[i][k] = c}}
<1>1. /\ Len(layers) \in Nat /\ DOMAIN layers = 1..Len(layers)
      /\ \A i \in 1..Len(layers) : layers[i] # Null => layers[i] \in Seq(ClipId)
  BY LayersDef
<1>2. IsFiniteSet(1..Len(layers))
  BY <1>1, UpToNumber
<1>3. Filled \subseteq 1..Len(layers)
  BY <1>1
<1>4. IsFiniteSet(Filled)
  BY <1>2, <1>3, FS_Subset
<1>5. ASSUME NEW i \in Filled PROVE IsFiniteSet(In(i))
  <2>1. layers[i] \in Seq(ClipId)
    BY <1>1
  <2>2. PICK n \in Nat : DOMAIN layers[i] = 1..n
    BY <2>1
  <2>3. IsFiniteSet(1..n)
    BY <2>2, UpToNumber
  <2>4. PICK D : D = {k \in DOMAIN layers[i] : layers[i][k] = c}
    OBVIOUS
  <2>5. D \subseteq 1..n
    BY <2>2, <2>4
  <2>6. IsFiniteSet(D)
    BY <2>3, <2>5, FS_Subset
  <2>7. PICK f : f = [k \in D |-> <<i, k>>]
    OBVIOUS
  <2>8. In(i) = {f[k] : k \in D} /\ DOMAIN f = D /\ f = [k \in D |-> f[k]]
    BY <2>4, <2>7
  <2> HIDE DEF In
  <2> QED BY <2>6, <2>8, ImageIsFinite
<1>6. PICK g : g = [i \in Filled |-> In(i)]
  OBVIOUS
<1>7. PICK S : S = {In(i) : i \in Filled}
  OBVIOUS
<1>8. Places(layers, c) = UNION S
  BY <1>7 DEF Places
<1>9. IsFiniteSet(UNION S)
  <2> HIDE DEF In, Filled
  <2>1. S = {g[i] : i \in Filled} /\ DOMAIN g = Filled /\ g = [i \in Filled |-> g[i]]
    BY <1>6, <1>7
  <2>2. IsFiniteSet(S)
    BY <1>4, <2>1, ImageIsFinite
  <2>3. \A T \in S : IsFiniteSet(T)
    BY <1>5, <1>7
  <2> QED BY <2>2, <2>3, FS_UNION
<1>10. ASSUME NEW p
       PROVE  p \in Places(layers, c) <=>
                  \E i \in 1..Len(layers) : /\ layers[i] # Null
                                            /\ \E k \in DOMAIN layers[i] : layers[i][k] = c /\ p = <<i, k>>
  BY <1>1, <1>7, <1>8
<1>11. QED BY <1>8, <1>9, <1>10, FS_CardinalityType

\* A place is one of a layer that is there.
LEMMA PlaceIn ==
    ASSUME NEW layers \in Layers, NEW c, NEW p \in Places(layers, c)
    PROVE  \E i \in 1..Len(layers) : /\ layers[i] # Null
                                     /\ \E k \in DOMAIN layers[i] : layers[i][k] = c /\ p = <<i, k>>
BY PlacesDef

\* What is kept is found again.
LEMMA KeepsPlaces ==
    ASSUME NEW from \in Layers, NEW to \in Layers, NEW c, Keeps(from, to, c)
    PROVE  /\ Places(from, c) \subseteq Places(to, c)
           /\ Cardinality(Places(from, c)) <= Cardinality(Places(to, c))
<1>1. Places(from, c) \subseteq Places(to, c)
  <2> SUFFICES ASSUME NEW p \in Places(from, c) PROVE p \in Places(to, c)
    OBVIOUS
  <2>1. PICK i \in 1..Len(from) : /\ from[i] # Null
                                  /\ \E k \in DOMAIN from[i] : from[i][k] = c /\ p = <<i, k>>
    BY PlacesDef
  <2>2. PICK k \in DOMAIN from[i] : from[i][k] = c /\ p = <<i, k>>
    BY <2>1
  <2>3. i \in 1..Len(to) /\ to[i] # Null /\ k \in DOMAIN to[i] /\ to[i][k] = c
    BY <2>1, <2>2 DEF Keeps
  <2> QED BY <2>2, <2>3, PlacesDef
<1>2. IsFiniteSet(Places(to, c))
  BY PlacesDef
<1>3. QED BY <1>1, <1>2, FS_Subset

\* What is pushed is found, too.
LEMMA PushAddsPlace ==
    ASSUME NEW from \in Layers, NEW to \in Layers, NEW c, Keeps(from, to, c),
           NEW i, NEW k, IsNewPlace(from, to, c, i, k)
    PROVE  Cardinality(Places(from, c)) + 1 <= Cardinality(Places(to, c))
<1>1. PICK p : p = <<i, k>>
  OBVIOUS
<1>2. p \in Places(to, c)
  BY <1>1, PlacesDef DEF IsNewPlace
<1>3. p \notin Places(from, c)
  <2> SUFFICES ASSUME p \in Places(from, c) PROVE FALSE
    OBVIOUS
  <2>1. PICK j \in 1..Len(from) : /\ from[j] # Null
                                  /\ \E m \in DOMAIN from[j] : from[j][m] = c /\ p = <<j, m>>
    BY PlacesDef
  <2>2. PICK m \in DOMAIN from[j] : p = <<j, m>>
    BY <2>1
  <2>3. j = i /\ m = k
    BY <1>1, <2>2
  <2> QED BY <2>1, <2>2, <2>3 DEF IsNewPlace
<1>4. Places(from, c) \cup {p} \subseteq Places(to, c)
  BY <1>2, KeepsPlaces
<1>5. IsFiniteSet(Places(from, c)) /\ IsFiniteSet(Places(to, c)) /\ Cardinality(Places(from, c)) \in Nat
  BY PlacesDef
<1>6. Cardinality(Places(from, c) \cup {p}) = Cardinality(Places(from, c)) + 1
  BY <1>3, <1>5, FS_AddElement
<1>7. Cardinality(Places(from, c) \cup {p}) <= Cardinality(Places(to, c))
  BY <1>4, <1>5, FS_Subset
<1>8. QED BY <1>6, <1>7

\* Layer i becomes l, which has the entries of the old one at others, those of c among them.
Moves(from, to, i, l, others, c) ==
    /\ Len(to) = Len(from)
    /\ \A j \in 1..Len(from) : to[j] = IF j = i THEN l ELSE from[j]
    /\ others \subseteq DOMAIN from[i]
    /\ \A m \in DOMAIN from[i] : from[i][m] = c => m \in others
    /\ \A k \in 1..Len(l) : Nth(others, k) \in others /\ l[k] = from[i][Nth(others, k)]
    /\ \A m \in others : \E k \in 1..Len(l) : Nth(others, k) = m

\* The clips of a layer move, and none is lost.
LEMMA MovingKeepsCount ==
    ASSUME NEW from \in Layers, NEW to \in Layers, NEW i \in 1..Len(from), NEW l \in Seq(ClipId),
           from[i] # Null, NEW c, NEW others, Moves(from, to, i, l, others, c)
    PROVE  Cardinality(Places(from, c)) <= Cardinality(Places(to, c))
<1> USE DEF Moves
<1>1. PICK S : S = Places(to, c)
  OBVIOUS
<1>2. PICK T : T = Places(from, c)
  OBVIOUS
<1>3. IsFiniteSet(S) /\ IsFiniteSet(T) /\ Cardinality(S) \in Nat /\ Cardinality(T) \in Nat
  BY <1>1, <1>2, PlacesDef
<1>4. \A p \in S : \E j \in 1..Len(from) : /\ to[j] # Null
                                           /\ \E k \in DOMAIN to[j] : to[j][k] = c /\ p = <<j, k>>
  <2>1. ASSUME NEW p \in Places(to, c)
        PROVE  \E j \in 1..Len(to) : /\ to[j] # Null
                                     /\ \E k \in DOMAIN to[j] : to[j][k] = c /\ p = <<j, k>>
    BY PlaceIn
  <2> QED BY <1>1, <2>1
<1>5. PICK f : f = [p \in S |-> IF p[1] = i THEN <<i, Nth(others, p[2])>> ELSE p]
  OBVIOUS
<1>6. l # Null /\ DOMAIN l = 1..Len(l)
  BY ScenesAssumption
<1>7. ASSUME NEW p \in S PROVE f[p] \in T
  <2>1. PICK j \in 1..Len(from) : /\ to[j] # Null
                                  /\ \E k \in DOMAIN to[j] : to[j][k] = c /\ p = <<j, k>>
    BY <1>4
  <2>2. PICK k \in DOMAIN to[j] : to[j][k] = c /\ p = <<j, k>>
    BY <2>1
  <2>3. CASE j = i
    <3>1. k \in 1..Len(l) /\ l[k] = c
      BY <2>2, <2>3, <1>6
    <3>2. PICK m \in others : m = Nth(others, k) /\ from[i][m] = c
      BY <3>1
    <3>3. f[p] = <<i, m>> /\ m \in DOMAIN from[i]
      BY <2>2, <2>3, <3>2, <1>5
    <3> QED BY <3>2, <3>3, <1>2, PlacesDef
  <2>4. CASE j # i
    <3>1. f[p] = p
      BY <2>2, <2>4, <1>5
    <3>2. from[j] # Null /\ k \in DOMAIN from[j] /\ from[j][k] = c
      BY <2>1, <2>2, <2>4
    <3> QED BY <2>2, <3>1, <3>2, <1>2, PlacesDef
  <2> QED BY <2>3, <2>4
<1>8. ASSUME NEW p \in T PROVE \E q \in S : f[q] = p
  <2>1. PICK j \in 1..Len(from) : /\ from[j] # Null
                                  /\ \E m \in DOMAIN from[j] : from[j][m] = c /\ p = <<j, m>>
    BY <1>2, PlacesDef
  <2>2. PICK m \in DOMAIN from[j] : from[j][m] = c /\ p = <<j, m>>
    BY <2>1
  <2>3. CASE j = i
    <3>1. m \in others
      BY <2>2, <2>3
    <3>2. PICK k \in 1..Len(l) : Nth(others, k) = m
      BY <3>1
    <3>3. PICK q : q = <<i, k>>
      OBVIOUS
    <3>4. to[i] = l /\ l[k] = c
      BY <2>2, <2>3, <3>2
    <3>5. q \in S
      BY <3>2, <3>3, <3>4, <1>1, <1>6, PlacesDef
    <3>6. f[q] = <<i, m>>
      BY <3>2, <3>3, <3>5, <1>5
    <3> QED BY <2>2, <2>3, <3>5, <3>6
  <2>4. CASE j # i
    <3>1. p \in S
      BY <2>1, <2>2, <2>4, <1>1, PlacesDef
    <3>2. f[p] = p
      BY <2>2, <2>4, <3>1, <1>5
    <3> QED BY <3>1, <3>2
  <2> QED BY <2>3, <2>4
<1>9. DOMAIN f = S /\ f = [p \in S |-> f[p]]
  BY <1>5
<1>10. f \in [S -> T]
  BY <1>7, <1>9
<1>11. f \in Surjection(S, T)
  BY <1>8, <1>10 DEF Surjection
<1>12. QED BY <1>1, <1>2, <1>3, <1>11, FS_Surjection

\* As many of the others as there were.
CountsOthers(from, to, d) ==
    \A c : c # d => Cardinality(Places(from, c)) <= Cardinality(Places(to, c))

\* Removing another clip loses none.
LEMMA WithdrawKeepsCount ==
    ASSUME NEW from \in Layers, NEW i \in 1..Len(from), from[i] # Null, NEW d,
           NEW to, to = [from EXCEPT ![i] = Without(from[i], d)]
    PROVE  CountsOthers(from, to, d)
<1>1. PICK l : l = Without(from[i], d)
  OBVIOUS
<1>2. PICK others : others = Others(from[i], d)
  OBVIOUS
<1>3. /\ to \in Layers /\ Len(to) = Len(from) /\ from[i] \in Seq(ClipId)
      /\ \A j \in 1..Len(from) : to[j] = IF j = i THEN l ELSE from[j]
  <2>1. from[i] \in Seq(ClipId)
    BY LayersDef
  <2>2. l \in LayerType
    BY <1>1, <2>1, WithoutDef DEF LayerType
  <2>3. to = [from EXCEPT ![i] = l]
    BY <1>1
  <2>4. from \in Layers /\ i \in 1..Len(from) /\ l \in LayerType
    BY <2>2
  <2>5. /\ to \in Layers /\ Len(to) = Len(from)
        /\ \A j \in 1..Len(from) : to[j] = IF j = i THEN l ELSE from[j]
        /\ l # Null => NoNewNull(from, to)
    BY <2>3, <2>4, EditDef, Zenon
  <2> QED BY <2>1, <2>5
<1>4. /\ l \in Seq(ClipId)
      /\ \A k \in 1..Len(l) : Nth(others, k) \in others /\ l[k] = from[i][Nth(others, k)]
      /\ \A m \in others : \E k \in 1..Len(l) : Nth(others, k) = m
  BY <1>1, <1>2, <1>3, WithoutDef
<1>5. others = {m \in DOMAIN from[i] : from[i][m] # d}
  BY <1>2 DEF Others
<1>6. ASSUME NEW c, c # d PROVE Cardinality(Places(from, c)) <= Cardinality(Places(to, c))
  <2>1. to \in Layers /\ l \in Seq(ClipId)
    BY <1>3, <1>4
  <2>2. others \subseteq DOMAIN from[i] /\ \A m \in DOMAIN from[i] : from[i][m] = c => m \in others
    BY <1>5, <1>6
  <2>3. Moves(from, to, i, l, others, c)
    BY <1>3, <1>4, <2>2, Zenon DEF Moves
  <2> QED BY <2>1, <2>3, MovingKeepsCount, Zenon
<1>7. QED BY <1>6 DEF CountsOthers

\* Nor does forgetting one.
LEMMA ForgetKeepsCount ==
    ASSUME NEW from \in Layers, NEW i \in 1..Len(from), from[i] # Null, NEW d,
           NEW to, to = [from EXCEPT ![i] = WithoutIdOf(from[i], d)]
    PROVE  CountsOthers(from, to, d)
<1>1. to \in Layers /\ \A c : c # d => Keeps(from, to, c)
  BY ForgetDef, Zenon
<1>2. QED BY <1>1, KeepsPlaces, Zenon DEF CountsOthers

-----------------------------------------------------------------------------
(* What was acknowledged is found.                                         *)

\* The additions of clip c that were acknowledged.
Added(c) == {q \in acked : q.op = "addClipToLayer" /\ q.arg.clip = c}

\* Nobody has asked for c to be removed.
NotRemoved(c) ==
    /\ Wanted("removeLayer") \cup Wanted("remove") = {}
    /\ \A q \in Wanted("removeClipFromLayer") \cup Wanted("updateClipInLayer") : q.arg.clip # c

Kept(c) == NotRemoved(c) => Cardinality(Added(c)) <= Occurrences(c)

KeptInv == \A c \in File : Kept(c)

LEMMA KeptInitial == Init => KeptInv
<1> SUFFICES ASSUME Init, NEW c \in File PROVE Kept(c)
  BY DEF KeptInv
<1>1. Added(c) = {}
  BY DEF Init, Added
<1>2. Cardinality(Added(c)) = 0
  BY <1>1, FS_EmptySet
<1>3. DocumentsTyped
  BY DocumentsInitial
<1>4. Occurrences(c) \in Nat
  BY <1>3, SceneTypedDef, PlacesDef DEF DocumentsTyped, Occurrences
<1>5. QED BY <1>2, <1>4 DEF Kept

LEMMA AddedIsFinite ==
    ASSUME RequestsKnown, NEW c
    PROVE  IsFiniteSet(Added(c)) /\ Cardinality(Added(c)) \in Nat
<1>1. Added(c) \subseteq asked /\ IsFiniteSet(asked)
  BY DEF RequestsKnown, Added
<1>2. QED BY <1>1, FS_Subset, FS_CardinalityType

\* Requests are never taken back.
LEMMA NotRemovedBefore ==
    ASSUME asked \subseteq asked', NEW c, NotRemoved(c)'
    PROVE  NotRemoved(c)
BY DEF NotRemoved, Wanted

\* A handler that does not add a clip leaves them as they are, if the layers keep
\* at least as many of c.
LEMMA KeptIf ==
    ASSUME RequestsKnown, NEW c, Kept(c), asked \subseteq asked', Added(c)' = Added(c),
           Occurrences(c) \in Nat, Occurrences(c)' \in Nat,
           NotRemoved(c)' => Occurrences(c) <= Occurrences(c)'
    PROVE  Kept(c)'
<1> SUFFICES ASSUME NotRemoved(c)' PROVE Cardinality(Added(c)') <= Occurrences(c)'
  BY DEF Kept
<1>1. Cardinality(Added(c)) \in Nat /\ Cardinality(Added(c)) <= Occurrences(c)
  BY NotRemovedBefore, AddedIsFinite DEF Kept
<1>2. Cardinality(Added(c)') = Cardinality(Added(c))
  OBVIOUS
<1>3. QED BY <1>1, <1>2

LEMMA OccurrencesDef ==
    ASSUME SceneTyped, NEW c
    PROVE  /\ Occurrences(c) \in Nat
           /\ scene # None => Occurrences(c) = Cardinality(Places(scene.layers, c))
           /\ scene = None => Occurrences(c) = 0
BY SceneTypedDef, PlacesDef DEF Occurrences

LEMMA OccurrencesNext ==
    ASSUME SceneTyped', NEW c
    PROVE  Occurrences(c)' \in Nat
<1>1. CASE scene' = None
  BY <1>1 DEF Occurrences
<1>2. CASE scene' # None
  <2>1. scene' \in SceneDocument
    BY <1>2 DEF SceneTyped, SceneType
  <2>2. PICK layers \in Layers : layers = scene'.layers
    BY <2>1, DocumentFields
  <2>3. Cardinality(Places(layers, c)) \in Nat
    BY PlacesDef
  <2>4. Occurrences(c)' = Cardinality(Places(layers, c))
    BY <1>2, <2>2 DEF Occurrences
  <2> QED BY <2>3, <2>4
<1>3. QED BY <1>1, <1>2

LEMMA HandlerKeepsClips ==
    ASSUME ScenesInv, RequestsKnown, DocumentsTyped, NEW d \in File, Kept(d),
           NEW r \in requests, HandlerStep(r)
    PROVE  Kept(d)'
<1> DEFINE i == r.key.arg.layer
           c == r.key.arg.clip
<1>1. HandlerGoesOn(r) /\ ScenesChange(r) /\ SceneTyped /\ SceneTyped' /\ ArgumentsKnown(r)
  BY HandlersGoOn, HandlersChange, HandlerTypesScene, KeysName DEF DocumentsTyped
<1>2. Occurrences(d) \in Nat /\ Occurrences(d)' \in Nat /\ asked' = asked
  BY <1>1, OccurrencesDef, OccurrencesNext DEF HandlerGoesOn
<1>3. (r.key.op = "addClipToLayer" => acked' = acked) => Added(d)' = Added(d)
  BY <1>1 DEF HandlerGoesOn, Added
<1>4. r.key.op # "workflowFinished" => r.key \in asked'
  BY <1>2 DEF RequestsKnown
<1>5. NotRemoved(d)' => /\ r.key.op \notin {"removeLayer", "remove"}
                        /\ r.key.op \in {"removeClipFromLayer", "updateClipInLayer"} => c # d
  BY <1>4 DEF NotRemoved, Wanted
<1>6. ASSUME r.key.op = "addClipToLayer" => acked' = acked,
             NotRemoved(d)' => Occurrences(d) <= Occurrences(d)'
      PROVE  Kept(d)'
  BY <1>2, <1>3, <1>6, KeptIf
<1>7. ASSUME NEW to, GetsLayers(to)
      PROVE  /\ scene # None /\ scene.layers \in Layers /\ to \in Layers
             /\ Occurrences(d) = Cardinality(Places(scene.layers, d))
             /\ Occurrences(d)' = Cardinality(Places(to, d))
  <2>1. scene # None /\ scene' # None /\ scene'.layers = to /\ scene' \in SceneDocument
    BY <1>7 DEF GetsLayers
  <2>2. scene.layers \in Layers /\ to \in Layers
    BY <1>1, <2>1, SceneTypedDef, DocumentFields
  <2>3. Occurrences(d) = Cardinality(Places(scene.layers, d))
    BY <1>1, <2>1, OccurrencesDef
  <2>4. Occurrences(d)' = Cardinality(Places(to, d))
    BY <2>1 DEF Occurrences
  <2> QED BY <2>1, <2>2, <2>3, <2>4
<1>8. ASSUME NEW to, GetsLayers(to), r.key.op # "addClipToLayer",
             NotRemoved(d)' => Keeps(scene.layers, to, d)
      PROVE  Kept(d)'
  BY <1>6, <1>7, <1>8, KeepsPlaces
<1>9. CASE scene' = scene /\ (r.key.op = "addClipToLayer" => acked' = acked)
  <2>1. Occurrences(d)' = Occurrences(d)
    BY <1>9 DEF Occurrences
  <2> QED BY <1>2, <1>6, <1>9, <2>1
<1>10. CASE r.key.op \in {"remove", "removeLayer"}
  BY <1>5, <1>10 DEF Kept
<1>11. CASE At(r, "create", "write") /\ NeverCreated
  <2>1. Occurrences(d) = 0
    BY <1>1, <1>11, OccurrencesDef DEF NeverCreated
  <2> QED BY <1>2, <1>6, <1>11, <2>1 DEF At
<1>12. CASE r.key.op \notin {"addClipToLayer", "removeLayer"} /\ GetsLayers(scene.layers)
  <2>1. Keeps(scene.layers, scene.layers, d)
    BY DEF Keeps
  <2> QED BY <1>8, <1>12, <2>1
<1>13. CASE At(r, "addLayer", "write") /\ GetsLayers(Append(scene.layers, <<>>))
  <2>1. PICK to : to = Append(scene.layers, <<>>)
    OBVIOUS
  <2>2. GetsLayers(to) /\ r.key.op # "addClipToLayer"
    BY <1>13, <2>1 DEF At
  <2>3. Keeps(scene.layers, to, d)
    BY <1>7, <2>1, <2>2, AppendDef
  <2> QED BY <1>8, <2>2, <2>3
<1>14. CASE /\ At(r, "addClipToLayer", "write") /\ (i \in 1..Len(scene.layers) => scene.layers[i] # Null)
            /\ GetsLayers(PushedTo(scene.layers, i, c))
  <2>1. PICK to : to = PushedTo(scene.layers, i, c)
    OBVIOUS
  <2>2. GetsLayers(to) /\ i \in Nat \ {0} /\ c \in File
    BY <1>1, <1>14, <2>1 DEF At, ArgumentsKnown, ToLayer
  <2>3. (\A e : Keeps(scene.layers, to, e)) /\ (\E k : IsNewPlace(scene.layers, to, c, i, k))
    BY <1>7, <1>14, <2>1, <2>2, PushDef
  <2>4. Occurrences(d) <= Occurrences(d)'
    BY <1>7, <2>2, <2>3, KeepsPlaces
  <2>5. CASE c = d
    <3>1. PICK k : IsNewPlace(scene.layers, to, d, i, k)
      BY <2>3, <2>5
    <3>2. Occurrences(d) + 1 <= Occurrences(d)'
      BY <1>7, <2>2, <2>3, <3>1, PushAddsPlace
    <3>3. Added(d)' \subseteq Added(d) \cup {r.key}
      BY <1>1 DEF HandlerGoesOn, Added
    <3>4. IsFiniteSet(Added(d)) /\ Cardinality(Added(d)) \in Nat
      BY AddedIsFinite
    <3>5. /\ IsFiniteSet(Added(d) \cup {r.key}) /\ Cardinality(Added(d) \cup {r.key}) \in Nat
          /\ Cardinality(Added(d) \cup {r.key}) <= Cardinality(Added(d)) + 1
      <4>1. PICK S : S = Added(d)
        OBVIOUS
      <4>2. IsFiniteSet(S) /\ Cardinality(S) \in Nat
        BY <3>4, <4>1
      <4>3. IsFiniteSet(S \cup {r.key}) /\ (r.key \notin S => Cardinality(S \cup {r.key}) = Cardinality(S) + 1)
        BY <4>2, FS_AddElement
      <4>4. r.key \in S => S \cup {r.key} = S
        OBVIOUS
      <4>5. Cardinality(S \cup {r.key}) = Cardinality(S) \/ Cardinality(S \cup {r.key}) = Cardinality(S) + 1
        BY <4>3, <4>4
      <4> QED BY <4>1, <4>2, <4>3, <4>5
    <3>6. Cardinality(Added(d)') \in Nat /\ Cardinality(Added(d)') <= Cardinality(Added(d) \cup {r.key})
      BY <3>3, <3>5, FS_Subset, FS_CardinalityType
    <3>7. NotRemoved(d)' => Cardinality(Added(d)) <= Occurrences(d)
      BY <1>2, NotRemovedBefore DEF Kept
    <3>8. NotRemoved(d)' => Cardinality(Added(d)') <= Occurrences(d)'
      BY <1>2, <3>2, <3>4, <3>5, <3>6, <3>7
    <3> QED BY <3>8 DEF Kept
  <2>6. CASE c # d
    <3>1. Added(d)' = Added(d)
      BY <1>1, <2>6 DEF HandlerGoesOn, Added
    <3> QED BY <1>2, <2>4, <3>1, KeptIf
  <2> QED BY <2>5, <2>6
<1>15. CASE /\ At(r, "removeClipFromLayer", "write")
            /\ i \in 1..Len(scene.layers) /\ scene.layers[i] # Null
            /\ GetsLayers([scene.layers EXCEPT ![i] = Without(scene.layers[i], c)])
  <2>1. PICK to : to = [scene.layers EXCEPT ![i] = Without(scene.layers[i], c)]
    OBVIOUS
  <2>2. GetsLayers(to) /\ r.key.op = "removeClipFromLayer"
    BY <1>15, <2>1 DEF At
  <2>3. scene.layers \in Layers
    BY <1>7, <2>2
  <2>4. CountsOthers(scene.layers, to, c)
    BY <1>15, <2>1, <2>3, WithdrawKeepsCount, Zenon
  <2>5. NotRemoved(d)' => Occurrences(d) <= Occurrences(d)'
    BY <1>5, <1>7, <2>2, <2>4 DEF CountsOthers
  <2> QED BY <1>6, <2>2, <2>5
<1>16. CASE /\ At(r, "updateClipInLayer", "write")
            /\ i \in 1..Len(scene.layers) /\ scene.layers[i] # Null
            /\ GetsLayers([scene.layers EXCEPT ![i] = WithoutIdOf(scene.layers[i], c)])
  <2>1. PICK to : to = [scene.layers EXCEPT ![i] = WithoutIdOf(scene.layers[i], c)]
    OBVIOUS
  <2>2. GetsLayers(to) /\ r.key.op = "updateClipInLayer"
    BY <1>16, <2>1 DEF At
  <2>3. scene.layers \in Layers
    BY <1>7, <2>2
  <2>4. CountsOthers(scene.layers, to, c)
    BY <1>16, <2>1, <2>3, ForgetKeepsCount, Zenon
  <2>5. NotRemoved(d)' => Occurrences(d) <= Occurrences(d)'
    BY <1>5, <1>7, <2>2, <2>4 DEF CountsOthers
  <2> QED BY <1>6, <2>2, <2>5
<1>17. QED BY <1>1, <1>9, <1>10, <1>11, <1>12, <1>13, <1>14, <1>15, <1>16 DEF ScenesChange, At

LEMMA KeptStep ==
    ASSUME ScenesInv, RequestsKnown, DocumentsTyped, KeptInv, [Next]_vars
    PROVE  KeptInv'
<1> SUFFICES ASSUME NEW c \in File PROVE Kept(c)'
  BY DEF KeptInv
<1>1. Kept(c)
  BY DEF KeptInv
<1>2. CASE \E r \in requests : HandlerStep(r)
  BY <1>1, <1>2, HandlerKeepsClips
<1>3. CASE scene' = scene /\ acked' = acked /\ asked \subseteq asked'
  <2>1. Occurrences(c) \in Nat
    BY OccurrencesDef DEF DocumentsTyped
  <2>2. Occurrences(c)' = Occurrences(c) /\ Added(c)' = Added(c)
    BY <1>3 DEF Occurrences, Added
  <2> QED BY <1>1, <1>3, <2>1, <2>2, KeptIf
<1>4. CASE \E op \in Op \ {"restart"} : \E a \in Arguments(op) : Send(op, a)
  BY <1>3, <1>4 DEF Send
<1>5. CASE \E w \in DOMAIN workflows : WorkflowEnds(w) \/ workflowFinished(w)
  BY <1>3, <1>5 DEF WorkflowEnds, workflowFinished, clientVars
<1>6. CASE fetchVideos \/ Restart \/ FilesGoOn \/ UNCHANGED vars
  BY <1>3, <1>6 DEF fetchVideos, Restart, FilesGoOn, vars, clientVars
<1>7. QED BY <1>2, <1>4, <1>5, <1>6 DEF Next

LEMMA KeptInvAlways == Spec => []KeptInv
<1>1. ScenesInv /\ ScenesTypes /\ KeptInv /\ [Next]_vars => KeptInv'
  BY KeptStep DEF ScenesTypes
<1>2. QED BY <1>1, KeptInitial, ScenesInvAlways, ScenesTypesAlways, PTL DEF Spec

\* No acknowledged addition of a clip is lost to the other requests at work on the
\* scene: those that move it, extend the layers, forget other clips or replace the
\* video.
THEOREM AdditionsAreKept == Spec => []AcknowledgedClipsAreKept
<1>1. ScenesTypes /\ KeptInv => AcknowledgedClipsAreKept
  <2> SUFFICES ASSUME ScenesTypes, KeptInv, NEW c \in File, NotRemoved(c)
               PROVE  Occurrences(c) >= Cardinality(Added(c))
    BY DEF AcknowledgedClipsAreKept, NotRemoved, Added
  <2>1. Cardinality(Added(c)) <= Occurrences(c)
    BY DEF KeptInv, Kept
  <2>2. Cardinality(Added(c)) \in Nat /\ Occurrences(c) \in Nat
    BY AddedIsFinite, OccurrencesDef DEF ScenesTypes, DocumentsTyped
  <2> QED BY <2>1, <2>2
<1>2. QED BY <1>1, ScenesTypesAlways, KeptInvAlways, PTL

=============================================================================
