SPECIFICATION ProvSpec
CONSTANTS
    l1 = l1
    l2 = l2
    l3 = l3
    u1 = u1
    u2 = u2
    e1 = e1
    x1 = x1
    x2 = x2
    g1 = g1
    g2 = g2
    f1 = f1
    Usernames = {u1, u2}
    Emails = {e1}
    ExternalIds = {x1, x2}
    FriendlyNames = {f1}
    Groups = {g1, g2}
    Descriptions = {}
    Policies = {}
    Statements = {}
    Acls = {}
    Dates = {}
    AccessKeys = {}
    Principals = {}
    None = None
    MaxUserId = 4
    Logins = {l1, l3}
    Claims <- SharedUsername
    PersistFriendlyName = TRUE
    AutoProvision = TRUE
    MaxRetries = 1
    MaxServerErrors = 1
    MaxLost = 2
    MaxDrops = 0
    MaxCrashes = 1
    LateRequests = TRUE
CHECK_DEADLOCK FALSE
INVARIANT
    ProvInv
PROPERTY
    EveryLoginEnds
