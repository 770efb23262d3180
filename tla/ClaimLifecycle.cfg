\* One supplier through three sessions, with every root, sample and proof, and
\* one params update anywhere.
SPECIFICATION CLSpec
CONSTANTS
    GenesisParams  <- MCGenesis
    BulkUpdates    <- MCNone
    SingleUpdates  <- MCSingle
    MaxHeight      = 8
    MaxEpochs      = 2
    Operators      = {s1}
    Services       = {svcA}
    Stakes         = {2}
    MinStake       = 2
    MaxConfigs     = 2
    Roots          = {1, 2}
    SampleOutcomes <- MCSamples
    ProofThreshold = 2
    Penalty        = 1
INVARIANTS
    CLTypeOK
    
    EveryProofHasItsClaim
    
    PoolCoversStakes

    
CHECK_DEADLOCK FALSE
