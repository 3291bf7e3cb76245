SPECIFICATION FairSpec
CONSTANTS
    Signals = {s1, s2}
    EntryRuns = {e1}
    Agents = {}
    Orders = {o1, o2}
    Positions = {p1, p2, p3, p4}
    MaxExits = 0
    Lot = 1
    OtherHoldings = {TRUE, FALSE}
    Hazards = {"sell"}
    NoSignal = NoSignal
    NoOrder = NoOrder
    NoPosition = NoPosition
INVARIANTS
    OneWorkingEntry
    OnePositionPerOrder
    CancelledMeansUnfilled
PROPERTIES
    DeadEntryResolved
    SoldPositionCloses
CHECK_DEADLOCK FALSE
