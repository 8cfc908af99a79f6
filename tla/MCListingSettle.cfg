CONSTANTS
    alice = alice
    bob = bob
    seller = seller
    a1 = a1
    a2 = a2
    b1 = b1
    ax = ax
    w1 = w1
    w2 = w2
    none = none
    Bids = {a1, a2, b1}
    Members = {alice, bob, seller}
    Seller = seller
    Bidder <- MCBidder
    Buyouts = {}
    Amounts = {1, 2, 3}
    StartPrice = 1
    BuyoutPrice = 0
    Cap = 2
    LockFrom = 1
    EndsAt = 2
    Callers = {w1}
    NoBidId = none
    MaxRetries = 2
    MaxTime = 2
SPECIFICATION LiveSpec
INVARIANTS
    WinnerStands
    SpentMeansSold
PROPERTY AuctionConcludes
CHECK_DEADLOCK FALSE
