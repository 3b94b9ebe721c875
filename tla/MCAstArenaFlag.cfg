CONSTANTS
    t1 = t1
    t2 = t2
    zero = zero
    x = x
    y = y
    Null = Null
    Threads = {t1, t2}
    Keys <- MCKeys
    HotKeys <- MCHotKeys
    Hash <- MCHash
    Addrs = {1, 2, 3}
    ShardCounts = {1, 2}
    BlockNodes = 1
    Budgets = {0, 1}
    MaxChain = 1
    MaxCalls = 3
SPECIFICATION Spec
PROPERTY FlagUnderAllocMutex
