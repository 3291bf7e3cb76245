SPECIFICATION WlSpec
CONSTANTS
    WlItems = {i1, i2}
    WlSignals = {g1, g2}
    WlWorkers = {w1, w2}
    WlSettings = {{}}
INVARIANT ClosedTickerCanSignal
CHECK_DEADLOCK FALSE
