SPECIFICATION Spec
CONSTANTS
    a = a  b = b  c = c
    mcp = mcp  cli = cli
    Nobody = Nobody
    Caller = {a, b, c}
    Process = {mcp, cli}
    ProcOf <- MCProcOf
    MaxCalls = 2
    MaxFaults = 2
INVARIANTS IInv WholeLines FaultsCostTwo
PROPERTIES ImplementsTrail AppendReturns
CHECK_DEADLOCK FALSE
