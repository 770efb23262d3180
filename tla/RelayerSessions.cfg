\* A session of three relays, with three mishaps in its life.
SPECIFICATION RsSpec
CONSTANTS
    Sessions  = {s1}
    Relays    = {r1, r2, r3}
    Window    <- MCWindow
    MaxHeight = 6
    MaxFaults = 3
INVARIANTS
    RsTypeOK
    ClaimsStayProvable
    ProofsMatchTheirClaims
PROPERTIES
    SessionsAreReleased
CHECK_DEADLOCK FALSE
