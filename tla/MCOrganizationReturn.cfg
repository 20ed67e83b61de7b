SPECIFICATION OrganizationSpec
CONSTANTS
    x1 = x1  x2 = x2  y1 = y1  y2 = y2  s1 = s1  s2 = s2
    Contacts = {k1}
    Crons = {x1, x2}
    Presses = {q1}
    Orders = {y1, y2}
    Sends = {s1, s2}
    NoContact = NoContact
    DispatchAttempts = 2
    SendAttempts = 2
    MaxFaults = 0
    BaseSubs = {b1, b2}
    PackagedSubs = {b1}
    AddonSubs = {a1}
    StripeEvents = {y1, y2}
    BillingReqs = {x1}
    NoSub = NoSub
    Leads = {p1, f1}
    Places = {p1}
    Searches = {}
    Reviews = {}
    Landings = {}
    NoRow = NoRow
    TierQuotas = {1, 2}
    MIRA_TRIAL_ALVOS = 1
    MaxMonth = 2
    MaxPacks = 1
    MaxMiraFaults = 1
    AuditReqs = {x1, x2}
    VERIFY_LIMIT = 3
    MaxLegacy = 1
    MaxAuditRows = 4
PROPERTY ConfirmedIsRecognised
CHECK_DEADLOCK FALSE
