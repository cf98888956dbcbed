SPECIFICATION Spec
CONSTANT Definition <- MCDefinition
INVARIANTS
    CyclesAreRejected
    ReportedNodesHoldACycle
    StoredDagIsTheDefinition
    AcceptedWorkflowCanFinish
