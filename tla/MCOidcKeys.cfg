SPECIFICATION Spec
CONSTANTS
    Logins = {c1, c2}
    MaxKey = 2
    MinRefreshInterval = 2
    FailedRefreshCooldown = 1
    MaxPanics = 1
    None = None
INVARIANTS
    KeysInv
    OwnRefreshServes
PROPERTIES
    OneFetchPerWindow
    LoginsEnd
    KeysCatchUp
