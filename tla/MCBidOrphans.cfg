CONSTANTS
    alice = alice
    bob = bob
    seller = seller
    a1 = a1
    b1 = b1
    ax = ax
    ay = ay
    w1 = w1
    w2 = w2
    none = none
    Bids = {b1, ax, ay}
    Members = {alice, bob, seller}
    Seller = seller
    Bidder <- MCBidder
    Buyouts = {ax, ay}
    Amounts = {1}
    StartPrice = 1
    BuyoutPrice = 3
    Cap = 2
    LockFrom = 1
    EndsAt = 2
    Callers = {w1}
    NobodysBid = none
    Keyed = {}
    Overlap = FALSE
    Troubled = {b1, ax, ay}
    MaxWrites = 2
    MaxCalls = 1
    MaxCrashes = 1
SPECIFICATION LiveSpec
PROPERTY OrphansReturned
CHECK_DEADLOCK FALSE
