SPECIFICATION Spec
CONSTANTS
    NSteps = 2
    Names <- MCNames
    N = 2
    Labelled = {1}
    Runsc = {1}
    FirstPods <- MCFirstPods
    NoPod = NoPod
    MaxTrouble = 1
INVARIANTS TypeOK ExitZeroMigrated ExitZeroSandboxed SamePlacement
PROPERTIES EventuallyVerified
CHECK_DEADLOCK FALSE
