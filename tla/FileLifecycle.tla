--------------------------- MODULE FileLifecycle ----------------------------
(***************************************************************************)
(* What the rest of the system may rely on of an uploaded file: it is      *)
(* stored before it is finished, finished before it is described, and the  *)
(* description, given once, is one of those its path allows.               *)
(***************************************************************************)
CONSTANTS
    Item,              \* files
    Description,       \* Description[f]: what a description of f may be
    Nothing            \* no description

VARIABLES
    stored,            \* files whose object is in the storage
    complete,          \* files marked as finished
    description        \* description[f], or Nothing

lifecycleVars == <<stored, complete, description>>

LifecycleInit ==
    /\ stored = {}
    /\ complete = {}
    /\ description = [f \in Item |-> Nothing]

\* Files of one path are stored together.
Store(F) ==
    /\ F # {}
    /\ stored' = stored \cup F
    /\ UNCHANGED <<complete, description>>

Finish(f) ==
    /\ f \in stored
    /\ complete' = complete \cup {f}
    /\ UNCHANGED <<stored, description>>

Describe(f) ==
    /\ f \in complete
    /\ description[f] = Nothing
    /\ \E d \in Description[f] : description' = [description EXCEPT ![f] = d]
    /\ UNCHANGED <<stored, complete>>

LifecycleNext ==
    \/ \E F \in SUBSET Item : Store(F)
    \/ \E f \in Item : Finish(f) \/ Describe(f)

LifecycleSpec == LifecycleInit /\ [][LifecycleNext]_lifecycleVars
=============================================================================
