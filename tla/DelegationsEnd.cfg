\* Two applications, one of which may be transferred to the other, and a
\* gateway both may delegate to.
SPECIFICATION ALSpec
CONSTANTS
    GenesisParams   <- MCQuickTransfers
    BulkUpdates     <- MCNone
    SingleUpdates   <- MCSingle
    MaxHeight       = 6
    MaxEpochs       = 0
    Gateways        = {g1}
    GatewayStakes   = {1}
    GatewayMinStake = 1
    Applications    = {1, 2}
    Services        = {svcA, svcB}
    AppStakes       = {2, 3}
    AppMinStake     = 2
    MaxDelegated    = 1
    Charges         = {1}
INVARIANTS
    DelegationsEndWithTheirGateway
CONSTRAINT MCBound
CHECK_DEADLOCK FALSE
