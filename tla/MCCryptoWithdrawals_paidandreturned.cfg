SPECIFICATION Spec
CONSTANTS
    w1 = w1
    again = again
    w2 = w2
    w3 = w3
    btc = btc
    p1 = p1
    p2 = p2
    Wallets = {btc}
    MaxElsewhere = 1
    Withdrawals = {w1, again, w2, w3}
    Key <- MCKey
    WalletOf <- MCWalletOf
    Amount <- MCAmount
    Notional <- WorthOne
    NoRequest = NoRequest
    WebWorkers = {p1, p2}
    DailyLimit = 1
    MaxFunds = 2
    MaxCrashes = 0
SYMMETRY Symmetry
INVARIANT NeverPaidAndReturned
CHECK_DEADLOCK FALSE
