SPECIFICATION CampaignFairSpec
CONSTANTS
    Contacts = {k1, k2}
    Crons = {}
    Presses = {q1}
    Orders = {o1}
    Sends = {s1, s2, s3}
    NoContact = Nobody
    DispatchAttempts = 2
    SendAttempts = 2
    MaxFaults = 1
PROPERTY EveryContactIsServed
