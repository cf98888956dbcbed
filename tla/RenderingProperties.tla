------------------------ MODULE RenderingProperties -------------------------
(***************************************************************************)
(* What becomes of a scene, stated over the state of module Rendering.     *)
(***************************************************************************)
EXTENDS Rendering

ResultOf(task) == task.results[1]
Clips == layers[1]

DistinctFiles(clips) == \A i, j \in DOMAIN clips : i # j => clips[i].id # clips[j].id

\* What is stored as the result of a task is what ffmpeg makes of what is stored
\* as its input: never the part of a file a killed or failed ffmpeg left in the
\* directory of the worker, nor the output of another task left there.
StoredArtifactsAreRight ==
    \A n \in DOMAIN tasks :
        ResultOf(tasks[n]) \in DOMAIN storage
            => storage[ResultOf(tasks[n])] = Encoded(tasks[n], storage)

Footage(clip) ==
    LET source == <<"source", FileKey(clip.id)>>
    IN  IF IsCut(clip) THEN <<"cut", source, clip.cut>> ELSE source

\* The video of a scene consists of its clips, each cut as it says and each
\* once, in the order of the times they start at, in whatever order the layer
\* has them, and whichever worker cut which, if the scene uses no file twice.
VideoIsTheScene ==
    (layers # <<>> /\ VideoKey \in DOMAIN storage /\ DistinctFiles(Clips)) =>
        \E order \in Bijection(DOMAIN Clips, DOMAIN Clips) :
            /\ \A a, b \in DOMAIN Clips : a < b => Clips[order[a]].from <= Clips[order[b]].from
            /\ storage[VideoKey] = <<"splice", [k \in DOMAIN Clips |-> Footage(Clips[order[k]])]>>

\* The task manager accepts every workflow that is built for a scene, and the
\* splice waits for every cut it downloads; of a scene that uses no file twice
\* these are all cuts.
PlansAreAccepted ==
    (layers # <<>> /\ tasks # <<>>) =>
        /\ stage # "rejected"
        /\ \A n \in DOMAIN tasks :
               /\ tasks[n].name = "Split"
               /\ DistinctFiles(Clips) \/ ResultOf(tasks[n]) \in ToSet(FileKeys(tasks[Len(tasks)]))
               => \E e \in incommingEdges(edges, Len(tasks)) :
                   e.conditionType = "artifact" /\ e.artifactId = ResultOf(tasks[n])

\* The lists have the same elements, each as often in one as in the other.
Rearranged(s, t) ==
    \E place \in Bijection(DOMAIN t, DOMAIN s) : \A k \in DOMAIN t : t[k] = s[place[k]]

\* What is selected on the home page comes through to the video, a file selected
\* twice included.  Every selection has its place in the list, however it is
\* rearranged; the splice has a key for every place, in the order of the list, and
\* leaves no gaps; and every selected file is seen in the video that is stored.
\* (How often it is seen, see VideosAreMergedAsListed.)
SelectionComesThrough ==
    (layers # <<>> /\ videos # <<>>) =>
        /\ Rearranged(selected, videos)
        /\ warnings(Clips) = {}
        /\ tasks # <<>> =>
               FileKeys(tasks[Len(tasks)]) = [k \in DOMAIN videos |-> FileKey(videos[k])]
        /\ VideoKey \in DOMAIN storage =>
               \A f \in ToSet(selected) :
                   \E k \in DOMAIN storage[VideoKey][2] :
                       storage[VideoKey][2][k] = <<"source", FileKey(f)>>

-----------------------------------------------------------------------------
\* Workers that are not killed go on, and the scheduler gives them tasks.
RenderingFairness ==
    /\ WF_vars(\E n \in DOMAIN tasks, w \in Worker : GiveTask(n, w))
    /\ \A w \in Worker : WF_vars(WorkerGoesOn(w))

FairRenderingSpec == Spec /\ RenderingFairness

\* The video of a scene is stored and reported in the end, though downloads,
\* ffmpeg or uploads fail now and then: what a failed attempt leaves behind does
\* not use up the attempts that follow.  Nothing is promised when a worker is
\* killed, or for a splice with several cuts, which may wait for ever for an
\* artifact that was reported (artifact-store.service.ts:42).
RenderedVideoIsStored ==
    (stage = "sent" /\ layers # <<>> /\ Len(tasks) <= 2) ~> (VideoKey \in published \/ kills > 0)

-----------------------------------------------------------------------------
(* What the documentation of the workers says, and they do not always keep. *)

\* "The videos in the order they shall be merged": the result of a splice is made
\* of all files it lists, each where it is listed.
VideosAreMergedAsListed ==
    \A n \in DOMAIN tasks :
        (tasks[n].name = "Splice" /\ ResultOf(tasks[n]) \in DOMAIN storage) =>
            storage[ResultOf(tasks[n])] =
                <<"splice", [k \in DOMAIN FileKeys(tasks[n]) |-> storage[FileKeys(tasks[n])[k]]]>>
=============================================================================
