SPECIFICATION HandoffFairSpec
CONSTANTS
    Customers = {k1}
    Convs = {c1}
    Turns = {t1}
    Requests = {r1}
    Agents = {a1}
    Nobody = Nobody
    Sender <- MCSender
    MaxStalls = 2
PROPERTY EveryTurnEnds
CHECK_DEADLOCK FALSE
