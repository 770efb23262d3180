\* Two services of one application settle in a block.
SPECIFICATION StSpec
CONSTANTS
    a1 = a1
    a2 = a2
    Applications         = {a1}
    Sessions             <- MCServiceSessions
    Stakes               = {24}
    SpendLimits          = {0}
    Amounts              = {10, 19}
    MaxClaims            = 3
    Batches              <- MCServiceBatches
    TokenomicsParamsSets <- MCInflation
INVARIANT
    SettlementNeverHalts
CHECK_DEADLOCK FALSE
