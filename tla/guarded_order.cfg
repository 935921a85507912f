SPECIFICATION MCSpec
CONSTANTS
    p1 = p1
    p2 = p2
    uid = uid
    ticker = ticker
    bad = bad
    First = First
    None = None
    Procs <- MCProcs
    Keys <- MCKeys
    Malformed = {bad}
    Insts <- MCInsts
    NamesOf <- MCNamesOf
    NoCache = {}
    TTL = 1
    CallTime = 1
    MaxTime = 3
    Orders <- MCOrders
    PolicyFiles <- MCFiles
INVARIANTS
    GuardTypeOK
    ResolvedIsRecent
    CrashLeavesFileWhole
    SentIsWithinPolicy
CHECK_DEADLOCK FALSE
