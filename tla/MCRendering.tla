---------------------------- MODULE MCRendering -----------------------------
(***************************************************************************)
(* Scenes and workflows for TLC: clips out of order, cut, with gaps, a     *)
(* file used twice; scenes that have no plan; workflows the task manager   *)
(* takes and refuses.                                                      *)
(***************************************************************************)
EXTENDS RenderingProperties

CONSTANTS f1, f2, f3, w1, w2

MCDuration == (f1 :> 2) @@ (f2 :> 1) @@ (f3 :> 1)

Whole(f, from, to) == [id |-> f, from |-> from, to |-> to, cut |-> <<>>]
Cut(f, from, to) == [Whole(f, from, to) EXCEPT !.cut = <<0, 1>>]

MCLayers ==
    {<<>>, <<<<>>>>,
     <<<<Whole(f1, 0, 2)>>, <<Whole(f2, 0, 1)>>>>,
     <<<<Cut(f1, 0, 1)>>>>,
     <<<<Whole(f2, 2, 3), Cut(f1, 0, 1)>>>>,
     <<<<Cut(f2, 1, 2), Cut(f1, 0, 1)>>>>,
     <<<<Whole(f1, 1, 2), Whole(f3, 3, 4), Whole(f2, 0, 1)>>>>,
     <<<<Cut(f1, 0, 1), Whole(f1, 1, 3)>>>>,
     <<<<Cut(f1, 0, 1), [Cut(f1, 1, 2) EXCEPT !.cut = <<1, 2>>]>>>>}

Convert(f, dependencies) ==
    Task("ConvertFormat", [keys |-> <<FileKey(f)>>, cut |-> <<>>], dependencies, <<"converted", f>>)

MCWorkflow ==
    {<<Convert(f1, <<>>)>>,
     <<Convert(f1, <<>>), Convert(f2, <<[type |-> "artifact", id |-> <<"converted", f1>>]>>)>>,
     <<Convert(f1, <<[type |-> "artifact", id |-> <<"converted", f2>>]>>)>>}

MCSource == {FileKey(f) : f \in File}
=============================================================================
