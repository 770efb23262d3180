\* Claims in flight across several params epochs: the session length, the proof
\* window and the price change, repeatedly, while claims wait for settlement.
SPECIFICATION CLSpec
CONSTANTS
    GenesisParams  <- MCGenesis
    BulkUpdates    <- MCNone
    SingleUpdates  <- MCSingle
    MaxHeight      = 9
    MaxEpochs      = 3
    Operators      = {s1}
    Services       = {svcA}
    Stakes         = {2}
    MinStake       = 2
    MaxConfigs     = 2
    Roots          = {1}
    SampleOutcomes <- MCNoSample
    ProofThreshold = 2
    Penalty        = 1
INVARIANTS
    
    
    PriceIsPinned
CHECK_DEADLOCK FALSE
