\* Up to three claims of two applications, of every kind, under three sets of
\* tokenomics params.
SPECIFICATION StSpec
CONSTANTS
    a1 = a1
    a2 = a2
    Applications         = {a1, a2}
    Sessions             <- MCTwoSessions
    Stakes               = {24}
    SpendLimits          = {0, 15}
    Amounts              = {1, 2, 11}
    MaxClaims            = 3
    Batches              <- MCTwoBatches
    TokenomicsParamsSets <- MCParamsSets
INVARIANTS
    StTypeOK
    SessionBudgetIsNeverExceeded
    UnusedBudgetIsPaidOut
    NothingStaysInTransit
    AppPoolIsExact
    SettlementNeverHalts
CHECK_DEADLOCK FALSE
