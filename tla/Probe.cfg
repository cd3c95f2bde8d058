SPECIFICATION Spec
CONSTANTS
    Run = {"a", "b"}
    N = 3
    Selected = {1, 2}
    Gpu = {2, 3}
    NoPod = NoPod
    MaxFaults = 1
    MaxDeletes = 1
    MaxChurn = 1
INVARIANTS TypeOK OwnAnswer NoLeftover
PROPERTIES DeletesOwn ProbeEnds PodStops
CHECK_DEADLOCK FALSE
