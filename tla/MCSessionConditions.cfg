SPECIFICATION Spec
CONSTANTS
    x = x
    y = y
    e1 = e1
    e2 = e2
    f1 = f1
    None = None
    Conditions <- MCConditions
    Assumable <- MCAssumable
    MaxConds = 2
    Exprs = {e1}
    Integrands = {f1}
    HookSimplifies = TRUE
    OpsLimits = {}
    DefaultOps = 0
    IntegrationCap = 0
    MaxRevision = 1
    MaxDepth = 3
    MaxVisits = 0
INVARIANTS
    FreshReportIsComplete
    ReportedWasTaken
