CONSTANTS
    alice = alice
    bob = bob
    seller = seller
    a1 = a1
    a2 = a2
    b1 = b1
    ax = ax
    w1 = w1
    w2 = w2
    none = none
    Bids = {a1, b1, ax}
    Members = {alice, bob, seller}
    Seller = seller
    Bidder <- MCBidder
    Buyouts = {ax}
    Amounts = {1, 2}
    StartPrice = 1
    BuyoutPrice = 3
    Cap = 1
    LockFrom = 1
    EndsAt = 2
    Callers = {w1, w2}
    NoBidId = none
    MaxRetries = 2
    MaxTime = 1
SPECIFICATION Spec
INVARIANTS
    LeaderIsHighest
    AnswersStand
    BuyoutWins
SYMMETRY Workmates
CHECK_DEADLOCK FALSE
