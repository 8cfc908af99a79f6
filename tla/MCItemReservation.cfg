SPECIFICATION LiveSpec
CONSTANTS
    l1 = l1
    l2 = l2
    c1 = c1
    c2 = c2
    none = none
    Ids = {l1, l2}
    Consumers = {c1, c2}
    Unfit = {l2}
    Publishes <- TwiceTheFirst
    NoId = none
    LateRedelivery = FALSE
 
PROPERTY NoGhost
CHECK_DEADLOCK FALSE
