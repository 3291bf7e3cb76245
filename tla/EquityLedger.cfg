SPECIFICATION Spec
CONSTANTS
    Signals = {s1}
    EntryRuns = {b1}
    Agents = {b1}
    Orders = {o1}
    Positions = {p1, p2}
    MaxExits = 1
    Lot = 2
    OtherHoldings = {TRUE}
    Hazards = {"crash", "sell", "extend", "blind", "aging", "simulate", "partial"}
    NoSignal = NoSignal
    NoOrder = NoOrder
    NoPosition = NoPosition
INVARIANTS
    TypeOK
    OneTradePerPosition
    SignalMatchesOrders
    
PROPERTY LedgerSpec
CHECK_DEADLOCK FALSE
