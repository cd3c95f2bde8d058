SPECIFICATION Spec
CONSTANTS
    r1 = r1  r2 = r2  r3 = r3  r4 = r4
    w1 = w1  w2 = w2  w3 = w3
    n1 = n1  n2 = n2
    c1 = c1  c2 = c2
    NoClass = NoClass
    NoStamp = "none"
    Run = {r1, r2, r3, r4}
    Plan = {"p", "q"}
    Workload = {w1, w2, w3}
    Namespace = {n1, n2}
    Class = {c1, c2}
    Stamp <- MCStamp
    NsOf <- MCNsOf
    Steps <- MCSteps
    Hash <- MCHash
    Ops = {"apply", "rollback"}
    DryRuns = {FALSE}
    MaxActive = 1
    MaxFaults = 0
    MaxChurn = 0
SYMMETRY Symmetry
PROPERTIES RollbackAlreadyTrue
CHECK_DEADLOCK FALSE
