SPECIFICATION BootSpec
CONSTANTS
    u1 = u1
    g1 = g1
    p1 = p1
    p2 = p2
    s1 = s1
    k1 = k1
    x1 = x1
    x2 = x2
    r1 = r1
    r2 = r2
    Usernames = {u1}
    Emails = {}
    ExternalIds = {x1, x2}
    FriendlyNames = {}
    Groups = {g1}
    Descriptions = {}
    Policies = {p1, p2}
    Statements = {s1}
    Acls = {}
    Dates = {1}
    AccessKeys = {k1}
    Principals = {}
    None = None
    MaxUserId = 5
    Replicas = {r1, r2}
    Deployments <- MCDeployments
    NoFile = NoFile
    UnreadableFile = UnreadableFile
    Blank = Blank
    EnvVars = {"VAR"}
    MaxRestarts = 1
    MaxApi = 2
CHECK_DEADLOCK FALSE
INVARIANT
    BootInv
PROPERTIES
    PlanApplied
    GrantsToDescribedUser
    BootstrapOnlyAdds
    StoresAgree
    EveryRunEnds
