SPECIFICATION HandoffSpec
CONSTANTS
    Customers = {k1}
    Convs = {c1, c2}
    Turns = {t1, t2}
    Requests = {r1}
    Agents = {a1}
    Nobody = Nobody
    Sender <- MCSender
    MaxStalls = 0
SYMMETRY Symmetry
INVARIANT HandoffTypeOK
PROPERTY PauseHasACause
PROPERTY KeepsCustody
PROPERTY OnlyPeopleReopen
CHECK_DEADLOCK FALSE
