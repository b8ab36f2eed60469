SPECIFICATION ServiceSpec
CONSTANTS
    Usernames = {u1}
    Emails = {}
    ExternalIds = {}
    FriendlyNames = {}
    Groups = {g1}
    Descriptions = {d1}
    Policies = {p1}
    Statements = {s1}
    Acls = {a1}
    Dates = {1, 2}
    AccessKeys = {}
    Principals = {i1}
    None = None
    MaxUserId = 2
    Handlers = {h1}
    Operations = {"create_group", "create_policy", "update_policy", "list"}
INVARIANTS
    ServiceInv
    ListAnswersTrue
