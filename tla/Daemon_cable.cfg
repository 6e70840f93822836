\* Every order of losses, pulled cables, failed opens and interrupts.
SPECIFICATION FairSpec
CONSTANTS
    Handles <- ThreeHandles
    LINK_LOST_THRESHOLD = 2
INVARIANTS
    TypeOK
    OnePort
    NoLineIntoAFrame
    CableNeverStops
PROPERTIES
    Reconnects
CHECK_DEADLOCK FALSE
