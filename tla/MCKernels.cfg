SPECIFICATION KSpec
CONSTANTS
    Keys = {k1, k2, k3}
    Values = {v1, v2}
    MaxLimit = 3
    MaxUses = 5
    None = None
    LimbBits = 3
    KaratsubaThreshold = 3
    ToomThreshold = 4
    ToomMaxLimbs = 5
    BzThreshold = 4
    LehmerThreshold = 4
    Divisors <- SomeDivisors
    Dividends <- SomeDividends
    LimbLimits = {0, 6, 8, 10}
    MaxTokens = 5
    MaxHeight = 12
    Compared <- ComparedTerms
    Rulebook <- SomeRules
    Probes <- SomeProbes
    MaxRules = 3
    Candidates <- SomePermutations
    MaxGenerators = 2
INVARIANTS
    TypeOK
    ListAgreesWithMap
    WithinLimit
    OrdersAreStrict
    RewriteKeepsValue
    NetMissesNothing
    ParserFollowsGrammar
    DivisionExact
    ProductRightOrFlagged
    GcdRight
    ChainIsExact
    BlocksAreMinimal
PROPERTIES
    ImplementsPolicy
CHECK_DEADLOCK FALSE
