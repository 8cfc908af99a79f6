SPECIFICATION LiveSpec
CONSTANTS
    ana = ana
    ben = ben
    cai = cai
    d1 = d1
    d2 = d2
    None = None
    Players = {ana, ben, cai}
    Pods = {d1, d2}
    Home <- MCHome
    Matches = {1, 2}
    MatchSize = 2
    MaxJoins = 4
    Mortal = {d2}
    Fickle = {ana, ben}
    MaxTrouble = 1
INVARIANTS
    ListAgrees
    OneRunEach
PROPERTIES
    KeepsPlace
    QueueMoves
    PartyLetsGo
CHECK_DEADLOCK FALSE
