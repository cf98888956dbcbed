------------------------------ MODULE MCScenes ------------------------------
(***************************************************************************)
(* Starting points for TLC: a scene, the files that are ready, and a mix   *)
(* of requests that get in each other's way.                               *)
(***************************************************************************)
EXTENDS ScenesProperties, TLC

CONSTANTS f1, f2

TwoClips == [clips |-> <<f1, f2>>, layers |-> <<<<f1, f2>>>>]
TwoLayers == [clips |-> <<f1, f2>>, layers |-> <<<<f1>>, <<f2>>>>]
NoLayer == [clips |-> <<f1>>, layers |-> <<>>]
OneOfTwo == [clips |-> <<f1, f2>>, layers |-> <<<<f1>>>>]
OneClip == [clips |-> <<f1>>, layers |-> <<<<f1>>>>]

Requests(counts) == counts @@ [op \in Op |-> 0]
From(s, files, counts) == [scene |-> s, files |-> files, budget |-> Requests(counts)]

MCDraft == {TwoClips}

MCSetup ==
    {From(None, {}, "create" :> 1 @@ "render" :> 1 @@ "restart" :> 1),
     From(None, {f1}, "create" :> 2 @@ "remove" :> 1 @@ "addClipToLayer" :> 1),
     From(OneClip, {f1}, "render" :> 2 @@ "update" :> 1),
     From(OneClip, {f1}, "render" :> 1 @@ "remove" :> 1 @@ "restart" :> 1),
     From(OneClip, {f1}, "addClipToScene" :> 2 @@ "render" :> 1),
     From(TwoLayers, {f1, f2}, "addClipToLayer" :> 1 @@ "removeLayer" :> 2),
     From(TwoLayers, {f1}, "removeLayer" :> 1 @@ "addClipToLayer" :> 1 @@ "updateClipInLayer" :> 1),
     From(TwoLayers, {f1}, "removeLayer" :> 1 @@ "addLayer" :> 1 @@ "removeClipFromLayer" :> 1),
     From(OneOfTwo, {f1, f2}, "addClipToLayer" :> 2 @@ "removeClipFromLayer" :> 1),
     From(OneClip, {f1}, "removeClipFromScene" :> 1 @@ "updateClipInScene" :> 1 @@ "addClipToScene" :> 1),
     From(TwoClips, {f1, f2}, "removeClipFromScene" :> 1 @@ "addClipToLayer" :> 1 @@ "render" :> 1),
     From(NoLayer, {f1}, "addLayer" :> 1 @@ "addClipToLayer" :> 2 @@ "remove" :> 1),
     From(NoLayer, {f1}, "addLayer" :> 1 @@ "removeLayer" :> 1 @@ "addClipToLayer" :> 1 @@ "render" :> 1),
     From(TwoLayers, {f1, f2}, "addClipToLayer" :> 2 @@ "removeLayer" :> 1 @@ "removeClipFromLayer" :> 1),
     From(OneOfTwo, {f1, f2}, "addClipToLayer" :> 2 @@ "removeClipFromScene" :> 1 @@ "render" :> 1),
     From(TwoClips, {f1}, "render" :> 2 @@ "update" :> 1 @@ "remove" :> 1 @@ "restart" :> 1)}
=============================================================================
