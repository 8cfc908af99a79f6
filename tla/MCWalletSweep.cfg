CONSTANTS
    m1 = m1
    b1 = b1
    b2 = b2
    k1 = k1
    k2 = k2
    w1 = w1
    w2 = w2
    sweep = sweep
    Members = {m1}
    Bids = {b1}
    Keys = {}
    SellerKeys = {}
    Workers = {w1, sweep}
    Sweeper = sweep
    Owner <- MCOwner
    Expiry <- MCExpiry
    KeyMember <- MCKeyMember
    KeyAmount <- MCKeyAmount
    Amounts = {1}
    InitGold = 1
    MaxInt = 9
    MaxRetries = 2
    Skew = 1
    MaxTime = 3
    MaxDirect = 2
    MaxCrashes = 1
SPECIFICATION LiveSpec
PROPERTY LapsedHoldsSettle
