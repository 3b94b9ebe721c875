SPECIFICATION Spec
CONSTANTS
    x = x
    y = y
    e1 = e1
    e2 = e2
    f1 = f1
    None = None
    Conditions <- MCConditions
    Assumable <- MCAssumable
    MaxConds = 3
    Exprs = {e1}
    Integrands = {f1}
    HookSimplifies = TRUE
    OpsLimits = {2}
    DefaultOps = 2
    IntegrationCap = 1
    MaxRevision = 1
    MaxDepth = 3
    MaxVisits = 2
INVARIANT HookKeepsConditions
