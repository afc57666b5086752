SPECIFICATION FairSpec
CONSTANTS
    a = a
    b = b
    d1 = d1
    usdt = usdt
    Users = {1, 2, 3}
    FirstUsers = {1, 2}
    Email <- MCEmail
    Coins = {usdt}
    Deposits = {d1}
    PaidTo <- MCPaidTo
    CoinOf <- MCCoinOf
    NoUser = NoUser
    Worker = Worker
    Admin = Admin
    BatchSize = 1
    MaxCrashes = 1
INVARIANT CreditedAtMostOnceEver
PROPERTY MissedDepositIsCredited
CHECK_DEADLOCK FALSE
