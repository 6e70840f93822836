\* What the peer hears when a daemon is stopped between transfers.
SPECIFICATION Spec
CONSTANTS
    Handles <- ThreeHandles
    LINK_LOST_THRESHOLD = 2
INVARIANT IdleStopSaysClose
CHECK_DEADLOCK FALSE
