--------------------------- MODULE MCDefinitions ---------------------------
(***************************************************************************)
(* All definitions of three tasks with at most two dependencies each: on   *)
(* tasks, on results and on a task that does not exist.  Tasks and results *)
(* have names of their own, or the last two share one.                     *)
(***************************************************************************)
EXTENDS Definitions

OnTask(id) == [type |-> "task", id |-> id]
OnArtifact(id) == [type |-> "artifact", id |-> id]

Dependency == {OnTask("a"), OnTask("b"), OnTask("c"), OnArtifact("x"), OnArtifact("y")}

MCDependencies ==
    {<<OnTask("missing")>>, <<>>} \cup {<<d>> : d \in Dependency}
        \cup {de \in Dependency \X Dependency : de[1] # de[2]}

MCNamesAndResults ==
    {<<<<"a", "b", "c">>, <<<<"x">>, <<"y">>, <<>>>>>>,
     <<<<"a", "b", "b">>, <<<<>>, <<"x", "y">>, <<"y">>>>>>}

MCDefinition ==
    {[n \in 1..3 |-> [name |-> nr[1][n], dependencies |-> deps[n], results |-> nr[2][n]]] :
        nr \in MCNamesAndResults, deps \in [1..3 -> MCDependencies]}
=============================================================================
