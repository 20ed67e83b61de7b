SPECIFICATION CampaignSpec
CONSTANTS
    Contacts = {k1, k2}
    Crons = {p1}
    Presses = {}
    Orders = {o1}
    Sends = {s1, s2}
    NoContact = NoContact
    DispatchAttempts = 2
    SendAttempts = 1
    MaxFaults = 0
PROPERTY PausedSendsNoMore
