SPECIFICATION LiveSpec
CONSTANTS
    seller = seller
    alice = alice
    bob = bob
    a1 = a1
    b1 = b1
    none = none
    Bids = {a1, b1}
    Members = {alice, bob, seller}
    Seller = seller
    Bidder <- MCBidder
    Buyouts = {}
    Amounts = {1, 2}
    StartPrice = 1
    BuyoutPrice = 0
    Cap = 1
    LockFrom = 1
    EndsAt = 2
    NoBidId = none
    Lingers = FALSE
 
INVARIANT ItemLetGo
INVARIANT ExceptionsTell
 
 
CHECK_DEADLOCK FALSE
