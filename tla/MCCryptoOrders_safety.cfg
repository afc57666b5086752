SPECIFICATION FairSpec
CONSTANTS
    o1 = o1
    p1 = p1
    p2 = p2
    Orders = {o1}
    NoOrder = NoOrder
    WebWorkers = {p1, p2}
    Settler = Settler
    MaxRetries = 1
    MaxCrashes = 1
INVARIANTS CreditsAreBacked ProceedsOnce FailedIsNotConverted NothingReleasedUnreserved ClosedIsSquare
PROPERTIES CompletedStays EndedConversionSettles
CHECK_DEADLOCK FALSE
