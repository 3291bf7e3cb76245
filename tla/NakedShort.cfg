SPECIFICATION ExitsSpec
CONSTANTS
    ExitsLot = 2
    ExitsTop = 3
    ExitsSettings <- StopsAlone
    ExitsRetries = 2
INVARIANT NeverShort
CHECK_DEADLOCK FALSE
