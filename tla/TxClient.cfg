\* Two transactions of one supplier; windows of none to four blocks.
SPECIFICATION TxcSpec
CONSTANTS
    Txs            = {t1, t2}
    TimeoutHeights = {4}
    MaxHeight      = 5
    MaxFaults      = 1
INVARIANTS
    TxcTypeOK
    PendingTxsHaveOpenChannels
    
PROPERTIES
    CallsReturnOrAreOverlooked
CHECK_DEADLOCK FALSE
