CONSTANTS
    alice = alice
    bob = bob
    seller = seller
    a1 = a1
    b1 = b1
    ax = ax
    ay = ay
    w1 = w1
    w2 = w2
    none = none
    Bids = {a1, b1, ax}
    Members = {alice, bob, seller}
    Seller = seller
    Bidder <- MCBidder
    Buyouts = {ax}
    Amounts = {1, 2}
    StartPrice = 1
    BuyoutPrice = 3
    Cap = 2
    LockFrom = 1
    EndsAt = 2
    Callers = {w1, w2}
    NobodysBid = none
    Keyed = {a1}
    Overlap = FALSE
    Troubled = {b1, ax}
    MaxWrites = 2
    MaxCalls = 2
    MaxCrashes = 1
SPECIFICATION Spec
INVARIANTS
    
    RefusalsFinal
    RefusedGoldBack
SYMMETRY Workmates
CHECK_DEADLOCK FALSE
