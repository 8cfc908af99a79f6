CONSTANTS
    gift = gift
    trophy = trophy
    m1 = m1
    Nobody = Nobody
    Letters = {gift, trophy}
    Members = {m1}
    To <- MCTo
    Size <- MCSize
    Golden = {gift}
    Requested = {gift}
    Mortal = {gift}
    StashCapacity = 1
    Attempts = {a1, a2}
    MaxClaims = 2
    MaxTrouble = 2
SPECIFICATION LiveSpec
INVARIANTS PaidOnce ClaimedMeansPaid
PROPERTIES NeverBack MadeWhole
