SPECIFICATION LiveSpec
CONSTANTS
    signup = signup
    account = account
    loot = loot
    plunder = plunder
    wa = wa
    ww = ww
    w1 = w1
    w2 = w2
    h1 = h1
    none = none
    Events = {signup, loot, plunder}
    Relays = {wa, w1, w2}
    Handlers = {h1}
    NoEvent = none
    Service <- MCService
    Policy <- MCPolicy
    Follows <- MCFollows
    Bad = {plunder}
    Late = {loot}
    Direct = {loot}
    BatchSize = 2
    MaxAttempts = 2
    MaxRetries = 1
    Confirmed = TRUE
    MaxTrouble = 1
INVARIANTS
    
    OneCopy
    ParkedIsEarned
 
CHECK_DEADLOCK FALSE
