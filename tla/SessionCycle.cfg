SPECIFICATION SessionSpec
CONSTANTS
    w1 = w1  w2 = w2  w3 = w3
    n1 = n1  n2 = n2
    c1 = c1
    NoClass = NoClass
    NoStamp = "none"
    Script <- Cycle
    Run = {1, 2, 3, 4, 5, 6}
    Plan = {"p"}
    Workload = {w1, w2, w3}
    Namespace = {n1, n2}
    Class = {c1}
    Stamp = {"hash-p"}
    NsOf <- MCNsOf
    Steps <- MCSteps
    Hash <- MCHash
    Ops = {"apply", "rollback"}
    DryRuns = {FALSE}
    MaxActive = 1
    MaxFaults = 2
    MaxChurn = 0
INVARIANTS ApplyExitZero
PROPERTIES ApplyConverges RollbackConverges
CHECK_DEADLOCK FALSE
