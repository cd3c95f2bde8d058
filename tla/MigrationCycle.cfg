SPECIFICATION MigrationSpec
CONSTANTS
    NoClass = NoClass
    NoStamp = NoStamp
    NoPlanFile = NoPlanFile
    NoFacts = NoFacts
    NoRunsc = NoRunsc
    NoRuntimeClass = NoRuntimeClass
    NotProbed = NotProbed
    AutoLabel = "auto"
    SupportedProducts = {}
    Run = {1, 2, 3}
    Workload = {1, 2, 3}
    Namespace = {"n1", "n2"}
    KindOf <- MCKindOf
    NsOf <- MCNsOf
    Template <- MCTemplate
    InitTemplates <- MCInitTemplates
    Verdict <- MCVerdict
    Scopes <- MCScopes
    PlanOptions <- MCPlanOptions
    Class = {"gvisor", "kata"}
    Doc <- MCDoc
    Content <- MCContent
    Plan <- MCPlan
    Stamp <- MCStamp
    Hash <- MCHash
    Steps <- MCSteps
    Ops = {"apply", "rollback"}
    DryRuns = {TRUE, FALSE}
    Asks = {"absent", "false", "text"}
    File = {"f"}
    MaxActive = 1
    MaxFaults = 0
    MaxChurn = 0
    MaxPlans = 2
    MaxUpsets = 1
INVARIANTS StampTruth PlannedAndAsked NoneForced
PROPERTIES ForeignStampKept RollbackUndoes
CHECK_DEADLOCK FALSE
