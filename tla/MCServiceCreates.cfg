SPECIFICATION ServiceSpec
CONSTANTS
    Usernames = {u1}
    Emails = {e1}
    ExternalIds = {x1, x2}
    FriendlyNames = {f1}
    Groups = {}
    Descriptions = {}
    Policies = {}
    Statements = {}
    Acls = {}
    Dates = {}
    AccessKeys = {}
    Principals = {}
    None = None
    MaxUserId = 3
    Handlers = {h1, h2}
    Operations = {"create_user"}
SYMMETRY HandlerSymmetry
INVARIANT
    OneIdentityPerUser
PROPERTY
    ImplementsStore
