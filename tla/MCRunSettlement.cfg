SPECIFICATION LiveSpec
CONSTANTS
    m1 = m1
    m2 = m2
    i1 = i1
    i2 = i2
    r1 = r1
    r2 = r2
    none = none
    Members = {m1, m2}
    Runs = {r1, r2}
    Items = {i1, i2}
    Potions = {i1}
    Owner <- MCOwner
    Party <- MCParty
    NoRun = none
    Boarding = {"open", "ended"}
    Followed = {r1}
    Mortal = {r1}
    MaxTrouble = 1
INVARIANT FindsOnce
INVARIANT LiveGearHeld
INVARIANT AppliedWasRecorded
 
PROPERTY GearComesHome
CHECK_DEADLOCK FALSE
