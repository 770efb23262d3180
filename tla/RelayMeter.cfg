\* Three HTTP relays and a websocket message in the grace period of a session
\* whose application can pay one relay, in each of the four configurations.
SPECIFICATION RmSpec
SYMMETRY Requests
CONSTANTS
    HttpRelays = {h1, h2, h3}
    WsRelays = {w1}
    MaxRelays = 1
    Modes <- RelayMinerModes
    SessionEnd = 0
    GraceEnd = 1
    ClaimOpen = 2
    MaxHeight = 2
INVARIANTS
    RewardedRelaysFitTheirMeters
CHECK_DEADLOCK FALSE
