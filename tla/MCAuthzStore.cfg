SPECIFICATION Spec
CONSTANTS
    Usernames = {u1, u2}
    Emails = {e1}
    ExternalIds = {x1}
    FriendlyNames = {f1}
    Groups = {g1, g2}
    Descriptions = {}
    Policies = {p1}
    Statements = {s1}
    Acls = {}
    Dates = {1}
    AccessKeys = {k1}
    Principals = {i1}
    None = None
    MaxUserId = 3
SYMMETRY Symmetry
INVARIANTS
    StoreInv
    NoInheritedGrants
    ReadsAlike
    WritesAlike
    LookupsAgree
PROPERTY
    PoliciesGainedOnlyByGrant
