SPECIFICATION ExitsFairSpec
CONSTANTS
    ExitsLot = 2
    ExitsTop = 4
    ExitsSettings <- PassingSettings
    ExitsRetries = 2
INVARIANTS
    
    ClosedMeansSoldOut
 
CHECK_DEADLOCK FALSE
