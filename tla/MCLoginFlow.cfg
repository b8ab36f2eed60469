SPECIFICATION LoginSpec
CONSTANTS
    Requests = {r1, r2}
    Logins = {l1, l2}
    Foreign = Foreign
    None = None
    Keep = Keep
    SdkCode = SdkCode
    FlowTtl = 1
    RequestTimeout = 1
    RpInitiatedLogout = TRUE
    TokenFits = {l1}
    MaxTime = 3
CHECK_DEADLOCK FALSE
INVARIANT
    LoginInv
PROPERTIES
    NotCancelledFromElsewhere
    IdTokenEndsWithSession
    SessionInTime
    EveryRequestEnds
