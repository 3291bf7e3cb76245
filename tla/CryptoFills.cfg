SPECIFICATION Spec
CONSTANTS
    Programs = {"chat","add","rules","stops","manual","amend"}
    Passes = {r1}
    Signals = {s1}
    Orders = {o1,o2,o3}
    Positions = {p1,p2}
    Lot = 2
    Coin = 1
    Hazards = {"reject","cancel","crash"}
    NoSignal = NoSignal
    NoOrder = NoOrder
    NoPosition = NoPosition
INVARIANT ReducedOnlyByFills
CHECK_DEADLOCK FALSE
