\* Two applications and a gateway through three sessions.
SPECIFICATION ALSpec
CONSTANTS
    GenesisParams   <- MCGenesis
    BulkUpdates     <- MCNone
    SingleUpdates   <- MCSingle
    MaxHeight       = 5
    MaxEpochs       = 1
    Gateways        = {g1}
    GatewayStakes   = {1}
    GatewayMinStake = 1
    Applications    = {1, 2}
    Services        = {svcA, svcB}
    AppStakes       = {2, 3}
    AppMinStake     = 2
    MaxDelegated    = 1
    Charges         = {1}
INVARIANTS
    ALTypeOK
    ApplicationIndexesAreExact
    AppPoolCoversStakes
    UnderfundedApplicationsAreUnbonding
PROPERTIES
    InactiveGatewaysAreUndelegated
    OpenRingsKeepTheirGateways
    ServicesOfBegunSessionsStay
    OpenSessionsKeepTheirApplication
CONSTRAINT
    MCBound
CHECK_DEADLOCK FALSE
