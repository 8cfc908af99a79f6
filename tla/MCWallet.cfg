CONSTANTS
    m1 = m1
    b1 = b1
    b2 = b2
    k1 = k1
    k2 = k2
    w1 = w1
    w2 = w2
    sweep = sweep
    Members = {m1}
    Bids = {b1, b2}
    Keys = {k1, k2}
    SellerKeys = {}
    Workers = {w1, w2, sweep}
    Sweeper = sweep
    Owner <- MCOwner
    Expiry <- MCExpiry
    KeyMember <- MCKeyMember
    KeyAmount <- MCKeyAmount
    Amounts = {2}
    InitGold = 2
    MaxInt = 4
    MaxRetries = 2
    Skew = 0
    MaxTime = 0
    MaxDirect = 1
    MaxCrashes = 1
SPECIFICATION Spec
INVARIANTS
    NeverOverheld
    AnswersStand
    GoldAccounted
    VersionsTell
SYMMETRY Contenders
