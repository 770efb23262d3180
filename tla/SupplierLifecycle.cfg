\* A custodial supplier and two services, or stake levels, over five sessions,
\* with the session length changing underneath.
SPECIFICATION SLSpec
CONSTANTS
    GenesisParams <- MCGenesis
    BulkUpdates   <- MCNone
    SingleUpdates <- MCSingle
    MaxHeight     = 9
    MaxEpochs     = 2
    Operators     = {s1}
    Services      = {svcA, svcB}
    Stakes        = {1, 2}
    MinStake      = 1
    MaxConfigs    = 3
INVARIANTS
    SLTypeOK
    UnstakingIndexIsExact
    PoolCoversStakes
PROPERTIES
    OpenSessionsNeverLoseASupplier
CHECK_DEADLOCK FALSE
