SPECIFICATION Spec
CONSTANTS
    Programs = {"chat","entry","rules","manual"}
    Passes = {r1}
    Signals = {s1}
    Orders = {o1,o2,o3}
    Positions = {p1,p2}
    Lot = 2
    Coin = 1
    Hazards = {"partial","pieces","offline","cancel"}
    NoSignal = NoSignal
    NoOrder = NoOrder
    NoPosition = NoPosition
INVARIANTS TypeOK OneFinalTrade
PROPERTY LedgerSpec
CHECK_DEADLOCK FALSE
