SPECIFICATION Spec
CONSTANTS
    NoRuntimeClass = NoRuntimeClass
    AutoLabel = "auto"
    SupportedProducts = {"T4", "A100", "A10G", "L4", "H100"}
    NotProbed = NotProbed
    NoFacts = NoFacts
    NoRunsc = NoRunsc
    Absent = Absent
    Workload = {1, 2, 3, 4, 5, 6, 7, 8, 9}
    KindOf <- MCKindOf
    NamespaceOf <- MCNamespaceOf
    SystemNamespaces = {"kube-system"}
    PageSize = 2
    ShapesOf <- MCShapesOf
    Node = {"g", "c"}
    Shapes <- MCShapes
    RuntimeClasses <- MCRuntimeClasses
    InitClusters <- MCInitClusters
    SavedFacts <- MCSavedFacts
    LaterFacts <- MCLaterFacts
    Invocations <- MCInvocations
    PlanOptions <- MCPlanOptions
    MaxScans = 1
    MaxPlans = 1
    MaxChanges = 1
INVARIANTS TypeOK OneRowPerFamily RowsWereReal EvidenceForEveryFinding PlansKeepOff CondemnedForCause LowRiskFirst
PROPERTIES ScanEnds
CHECK_DEADLOCK FALSE
