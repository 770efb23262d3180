\* Governance of the session grid: every interleaving of single and bulk
\* updates with the blocks of four or more sessions.
SPECIFICATION Spec
CONSTANTS
    GenesisParams <- MCGenesis
    BulkUpdates   <- MCBulk
    SingleUpdates <- MCSingle
    MaxHeight     = 7
    MaxEpochs     = 5
INVARIANTS
    TypeOK
    SessionsPartitionHeights
    LiveTimingIsPreviousBlocks
PROPERTIES
    StartedSessionsNeverMove
CHECK_DEADLOCK FALSE
