SPECIFICATION Spec
CONSTANTS
    x = x
    y = y
    e1 = e1
    e2 = e2
    f1 = f1
    None = None
    Conditions <- MCFacts
    Assumable <- MCFacts
    MaxConds = 1
    Exprs = {e1}
    Integrands = {f1}
    HookSimplifies = TRUE
    OpsLimits = {2}
    DefaultOps = 2
    IntegrationCap = 1
    MaxRevision = 2
    MaxDepth = 3
    MaxVisits = 3
SYMMETRY Subjects
INVARIANTS
    TypeOK
    ActiveWhileOpen
    BudgetNeverWidens
    ChargedToTheOuterCall
    SimplifyCacheIsCurrent
