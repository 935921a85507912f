SPECIFICATION MCSpec
CONSTANTS
    c1 = c1
    w = w
    s1 = s1
    s2 = s2
    order = order
    stop = stop
    d1 = d1
    d2 = d2
    d3 = d3
    Commands <- MCCommands
    KindOf <- MCKindOf
    Orders <- MCOrders
    OrderOf <- MCOrderOf
    MaxAttempts = 2
    Interval = 1
    Timeout = 1
    CallTime = 1
    MaxDay = 2
    MaxTime = 4
    Cursors = {"a", "b", "c"}
    MonthStart <- MCMonthStart
    Ranges <- MCRanges
    Downloads = {d1, d2, d3}
INVARIANTS
    CallsTypeOK
    CancelOkIsFinal
    WaitIsTruthful
    ListIsWhole
    CandlesAreWhole
    DownloadStays

    
CHECK_DEADLOCK FALSE
