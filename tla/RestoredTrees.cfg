\* A session of two relays, and two faults.
SPECIFICATION RsSpec
CONSTANTS
    Sessions  = {s1}
    Relays    = {r1, r2}
    Window    <- MCWindow
    MaxHeight = 6
    MaxFaults = 2
INVARIANTS
    RestoredTreesHaveTheirRoot
CHECK_DEADLOCK FALSE
