-------------------------- MODULE ScenesProperties --------------------------
(***************************************************************************)
(* What scenes promise their clients, stated over the state of module      *)
(* Scenes.                                                                 *)
(***************************************************************************)
EXTENDS Scenes

SceneType == {s \in SceneDocument : s.workflow \in (1..Len(workflows)) \cup {None}}

Wanted(op) == {q \in asked : q.op = op}
Pending(op) == \E r \in requests : r.key.op = op

\* Every variable holds a value of its type; a workflow that is registered, or
\* announced, is one that was started.
ScenesTypeOK ==
    /\ stored \subseteq File /\ complete \subseteq stored
    /\ description \in [File -> {"supported", "unsupported", None}]
    /\ scene \in SceneType \cup {None}
    /\ \A w \in DOMAIN workflows : /\ workflows[w].status \in {"running", "succeeded", "failed"}
                                   /\ workflows[w].clips # {}
    /\ events \subseteq DOMAIN workflows
    /\ \A r \in requests : r.at \in {"find", "validate", "write", "pull", "register"}
    /\ shown \in BOOLEAN /\ polling \in BOOLEAN
    /\ acked \subseteq asked

\* The task manager is never given a scene to render some of whose clips are not
\* uploaded, not analysed or not supported, or have no definition: however the
\* scene is edited and files arrive while it is validated.
WorkflowsUseAvailableClips ==
    \A w \in DOMAIN workflows : \A c \in workflows[w].clips :
        c \in complete /\ description[c] = "supported"

\* A scene offers its video only when a workflow started for it has succeeded,
\* and is registered with a workflow then: what ends for a video that was
\* replaced does not finish the one that replaced it.
FinishedSceneWasRendered ==
    HasDownloadUrl => /\ scene.workflow # None
                      /\ \E w \in DOMAIN workflows : workflows[w].status = "succeeded"

\* The places in the layers where clip c is.
Places(layers, c) ==
    UNION {{<<i, k>> : k \in {k \in DOMAIN layers[i] : layers[i][k] = c}} :
               i \in {i \in DOMAIN layers : layers[i] # Null}}

Occurrences(c) == IF scene = None THEN 0 ELSE Cardinality(Places(scene.layers, c))

\* A clip that was added to a layer, and the addition acknowledged, is not lost
\* to other requests at work on the scene, removals of other clips and of
\* definitions, updates and renderings included: unless a layer or that clip was
\* asked to be removed, each addition can be found in the layers.
AcknowledgedClipsAreKept ==
    \A c \in File :
        (/\ Wanted("removeLayer") \cup Wanted("remove") = {}
         /\ \A q \in Wanted("removeClipFromLayer") \cup Wanted("updateClipInLayer") : q.arg.clip # c)
        => Occurrences(c) >= Cardinality({q \in acked : q.op = "addClipToLayer" /\ q.arg.clip = c})

\* A layer is removed in two updates, the first of which leaves a null that every
\* validation stumbles over.  No null is left when a single removal is over,
\* whatever was pushed to the layers in between.  (Two removals can leave one: a
\* push beyond the end of what they left fills up with nulls.)
NullLayersAreRemoved ==
    (/\ scene # None
     /\ Cardinality(Wanted("removeLayer")) <= 1
     /\ Wanted("restart") = {}
     /\ ~Pending("removeLayer")) => ~Contains(scene.layers, Null)

-----------------------------------------------------------------------------
\* Handlers of a process that runs go on, messages are delivered, the task
\* manager ends its workflows, and the list polls as long as it is open.
ScenesFairness ==
    /\ WF_vars(\E r \in requests : HandlerStep(r))
    /\ WF_vars(\E w \in DOMAIN workflows : WorkflowEnds(w))
    /\ WF_vars(\E w \in DOMAIN workflows : workflowFinished(w))
    /\ WF_vars(fetchVideos)

FairScenesSpec == Spec /\ ScenesFairness

AwaitsWorkflow(w) ==
    scene # None /\ w \in DOMAIN workflows /\ scene.workflow = w /\ workflows[w].status = "running"

\* A workflow that is registered before it ends has its video listed in the end,
\* unless it fails, the scene is deleted, its video replaced or rendered anew,
\* or the api is restarted.
RenderedVideoIsListed ==
    \A w \in 1..2 :
        AwaitsWorkflow(w) ~>
            \/ shown
            \/ scene = None \/ scene.workflow # w
            \/ workflows[w].status = "failed"
            \/ Wanted("restart") # {}
=============================================================================
