SPECIFICATION Spec
CONSTANTS
    s1 = s1
    btc = btc
    worker = worker
    other = other
    web = web
    Wallets = {btc}
    MaxElsewhere = 0
    Settlements = {s1}
    WalletOf <- MCWalletOf
    Amount <- MCAmount
    NoRow = NoRow
    Workers = {worker, other}
    WebWorkers = {web}
    MaxAttempts = 3
    MaxRefs = 4
    MaxRetries = 0
    MaxCrashes = 0
INVARIANT SweepsDoNotOverlap
CHECK_DEADLOCK FALSE
