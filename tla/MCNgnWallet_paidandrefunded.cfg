SPECIFICATION Spec
CONSTANTS
    u1 = u1
    w1 = w1
    w2 = w2
    d1 = d1
    p1 = p1
    p2 = p2
    settler = settler
    Users = {u1}
    Withdrawals = {w1, w2}
    Deposits = {d1}
    Transactions <- MCTransactions
    Owner <- MCOwner
    Amount <- MCAmount
    NoTx = NoTx
    WebWorkers = {p1, p2}
    Settler = settler
    AppAmounts = {1}
    MaxOutside = 1
    MaxCrashes = 1
    MinWithdrawal = 1
    MinDeposit = 1
    MaxCredits = 2
    Buried = {w2}
INVARIANT NeverPaidOutAndRefunded
CHECK_DEADLOCK FALSE
