SPECIFICATION HandoffSpec
CONSTANTS
    Customers = {k1}
    Convs = {c1}
    Turns = {t1}
    Requests = {r1}
    Agents = {a1}
    Nobody = Nobody
    Sender <- MCSender
    MaxStalls = 0
PROPERTY NeverTalksOverAPerson
CHECK_DEADLOCK FALSE
