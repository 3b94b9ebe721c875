SPECIFICATION Spec
CONSTANTS
    e1 = e1
    e2 = e2
    Exprs = {e1, e2}
    Symbols = {e1, e2}
    Names = {n}
    Limits = {0, 1, 2}
    Budget = 2
    MaxCollections = 2
    MaxKept = 2
    MaxChain = 0
    Client = Client
    Nothing = Nothing
    Nowhere = Nowhere
    None = None
SYMMETRY MCSymmetry
CONSTRAINT MCKept
INVARIANTS TypeOK NoDangling MemoryWithinBudget CachesWithinLimit
PROPERTY CollectionKeepsAnswers
