SPECIFICATION DcSpec
CONSTANTS
    DcCapital = {0, 1000, 5000, 100000}
    DcPrice = {1, 7, 90, 2000}
    DcRisk = {0, 1, 5}
    DcVolume = {0, 3, 200, 9000}
    DcOdd = {0, 25, 100, 300}
INVARIANT TradesInAud
CHECK_DEADLOCK FALSE
