SPECIFICATION Spec
CONSTANTS
    t1 = t1
    t2 = t2
    r1 = r1
    r2 = r2
    r3 = r3
    Tokens = {t1, t2}
    Expiry <- MCExpiry
    Replicas = {r1, r2, r3}
    Lag <- MCLag
    CleanupOn = {r1, r2}
    MaxTime = 4
    MaxFailures = 2
PROPERTIES
    SingleUse
    ExpiredClaimsRemoved
