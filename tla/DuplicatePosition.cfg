SPECIFICATION Spec
CONSTANTS
    Signals = {s1}
    EntryRuns = {e1}
    Agents = {}
    Orders = {o1}
    Positions = {p1, p2}
    MaxExits = 0
    Lot = 1
    OtherHoldings = {FALSE}
    Hazards = {}
    NoSignal = NoSignal
    NoOrder = NoOrder
    NoPosition = NoPosition
INVARIANT OneOpenPosition
CHECK_DEADLOCK FALSE
