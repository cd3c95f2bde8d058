SPECIFICATION Spec
CONSTANTS
    NSteps = 1
    Names <- MCOneStep
    N = 2
    Labelled = {}
    Runsc = {2}
    FirstPods <- MCFirstPods
    NoPod = NoPod
    MaxTrouble = 1
INVARIANTS MismatchedNodeDemotes
CHECK_DEADLOCK FALSE
