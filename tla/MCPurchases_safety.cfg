SPECIFICATION FairSpec
CONSTANTS
    u1 = u1
    v1 = v1
    g1 = g1
    f1 = f1
    o1 = o1
    p1 = p1
    p2 = p2
    settler = settler
    Users = {u1}
    VtuPurchases = {v1}
    GiftCards = {g1}
    Fundings = {f1}
    Unloads = {o1}
    Purchases = {v1, g1, f1, o1}
    Transactions = {v1, g1, f1, o1}
    Owner <- MCOwner
    Amount <- MCAmount
    NoTx = NoTx
    WebWorkers = {p1, p2}
    Settler = settler
    AppAmounts = {2}
    MaxOutside = 2
    MaxCrashes = 1
    MIN_AIRTIME = 1
    MAX_AIRTIME = 2
    MIN_ELECTRICITY = 1
    MAX_ELECTRICITY = 2
    MaxBegun = 2
    BatchLimit = 1
INVARIANTS RefundedOnlyIfUndoneOrGuessed DebitsAreAccountedFor
PROPERTIES PurchasesAreEscrowed StoredOrderSettles
CHECK_DEADLOCK FALSE
