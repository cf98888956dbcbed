----------------------------- MODULE RenderPlan -----------------------------
(***************************************************************************)
(* From a list of videos to a scene (frontend: home), and from a scene to  *)
(* the workflow that renders it (api/src/render and api/src/workflow).     *)
(*                                                                         *)
(* A clip is a record [id, from, to, cut], its id the name of a file, cut  *)
(* a pair of times or <<>>.  A key of the object storage is a tuple; the   *)
(* base path all keys of a workspace share is left out.                    *)
(***************************************************************************)
EXTENDS DagParsing, Integers

CONSTANT Duration        \* Duration[f]: the length of file f

FileKey(f) == <<"file", f>>
CutKey(c) == <<"processing-artifacts", c.cut, c.id>>
VideoKey == <<"video", "video.mp4">>

-----------------------------------------------------------------------------
(* The list of the home page                                               *)

\* Mutant of onDrop: the video dropped on is overwritten.
DropOver(videos, i, j) == RemoveAt([videos EXCEPT ![j] = videos[i]], i)

\* Video i is dragged to the place of video j.
onDrop(videos, i, j) == InsertAt(RemoveAt(videos, i), j, videos[i])

\* StartTimes(videos)[i]: when video i starts.
StartTimes(videos) ==
    LET start[i \in DOMAIN videos] == IF i = 1 THEN 0 ELSE start[i - 1] + Duration[videos[i - 1]]
    IN  start

\* One layer, one whole video after the other.
homeLayer(videos) ==
    <<[i \in DOMAIN videos |->
        [id |-> videos[i],
         from |-> StartTimes(videos)[i],
         to |-> StartTimes(videos)[i] + Duration[videos[i]],
         cut |-> <<>>]]>>

-----------------------------------------------------------------------------
(* The workflow of a scene                                                 *)

\* TaskBuilder: a task and its defaults.  Its result is its completion criterion.
Task(name, parameters, dependencies, result) ==
    [name |-> name, parameters |-> parameters, dependencies |-> dependencies,
     results |-> <<result>>, completionCriteria |-> <<result>>, maxRetryCount |-> 3]

IsCut(c) == c.cut # <<>>

\* The positions of the clips that are cut.
CutPositions(clips) == {i \in DOMAIN clips : IsCut(clips[i])}

\* Map from the id of a clip to what was cut for it, the last one if several were.
clipPrepArtifactIds(clips) ==
    [id \in {clips[i].id : i \in CutPositions(clips)} |->
        CutKey(clips[LastOf({i \in CutPositions(clips) : clips[i].id = id})])]

SplitTask(c) == Task("Split", [keys |-> <<FileKey(c.id)>>, cut |-> c.cut], <<>>, CutKey(c))

\* The k-th clip that is cut.
NthCut(clips, k) ==
    CHOOSE i \in CutPositions(clips) : Cardinality({j \in CutPositions(clips) : j <= i}) = k

SplitTasks(clips) ==
    [k \in 1..Cardinality(CutPositions(clips)) |-> SplitTask(clips[NthCut(clips, k)])]

\* Mutant of clipOrder: the clips stay in the order of the layer.
LayerOrder(clips) == clips

\* Clip i comes before clip j.
StartsBefore(clips, i, j) == clips[i].from < clips[j].from \/ (clips[i].from = clips[j].from /\ i < j)

\* The positions of the clips, sorted by start; the sort is stable.
sortedPositions(clips) ==
    CHOOSE order \in Bijection(DOMAIN clips, DOMAIN clips) :
        \A i, j \in DOMAIN clips : i < j => StartsBefore(clips, order[i], order[j])

clipOrder(clips) == [k \in DOMAIN clips |-> clips[sortedPositions(clips)[k]]]

\* Mutant of SpliceDependencies: the splice waits for the clips themselves.
OnClips(clips) ==
    SetToSeq({[type |-> "artifact", id |-> FileKey(id)] : id \in DOMAIN clipPrepArtifactIds(clips)})

SpliceDependencies(clips) ==
    LET prep == clipPrepArtifactIds(clips)
    IN  SetToSeq({[type |-> "artifact", id |-> prep[id]] : id \in DOMAIN prep})

SpliceTask(clips) ==
    LET order == clipOrder(clips)
        prep == clipPrepArtifactIds(clips)
        KeyOf(c) == IF c.id \in DOMAIN prep THEN prep[c.id] ELSE FileKey(c.id)
    IN  Task("Splice", [keys |-> [k \in DOMAIN order |-> KeyOf(order[k])], cut |-> <<>>],
             SpliceDependencies(clips), VideoKey)

\* The warnings: the gaps between clips, and a first clip that does not start at 0.
warnings(clips) ==
    LET order == clipOrder(clips)
    IN  {k \in 1..(Len(order) - 1) : order[k].to # order[k + 1].from}
            \cup (IF order[1].from # 0 THEN {0} ELSE {})

\* The single strategy there is: it fails unless there is exactly one layer, and
\* the layer has clips.  A plan is its tasks; <<>> stands for none.
createRenderPlan(layers) ==
    IF Len(layers) = 1 /\ layers[1] # <<>>
    THEN Append(SplitTasks(layers[1]), SpliceTask(layers[1]))
    ELSE <<>>
=============================================================================
