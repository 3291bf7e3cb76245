SPECIFICATION FairSpec
CONSTANTS
    Programs = {"chat","amend"}
    Passes = {r1}
    Signals = {s1}
    Orders = {o1,o2,o3,o4,o5,o6}
    Positions = {p1,p2}
    Lot = 2
    Coin = 1
    Hazards = {"cancel"}
    NoSignal = NoSignal
    NoOrder = NoOrder
    NoPosition = NoPosition
INVARIANTS SellsOnlyWhatItBought PositionsMatchVenue NeverOverProtected EverySellTracked
PROPERTIES ProtectedByCommit FillsAreBooked
CHECK_DEADLOCK FALSE
