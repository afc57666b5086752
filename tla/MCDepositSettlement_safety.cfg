SPECIFICATION FairSpec
CONSTANTS
    s1 = s1
    btc = btc
    worker = worker
    other = other
    web = web
    Wallets = {btc}
    MaxElsewhere = 1
    Settlements = {s1}
    WalletOf <- MCWalletOf
    Amount <- MCAmount
    NoRow = NoRow
    Workers = {worker}
    WebWorkers = {web}
    MaxAttempts = 2
    MaxRefs = 4
    MaxRetries = 1
    MaxCrashes = 1
INVARIANTS NothingSellsUnswept PaidOnceIffSold SweepsDoNotOverlap SellsDoNotOverlap ConvertingIsReserved SkippedIsGivenBack
PROPERTIES SettledStays SettlementsAreClaims SettlementEnds
CHECK_DEADLOCK FALSE
