SPECIFICATION Spec
CONSTANTS
    s1 = s1
    s2 = s2
    s3 = s3
    t1 = t1
    t2 = t2
    CtlSignals = {s1, s2, s3}
    CtlPrice <- Prices
    CtlSize = 2
    CtlCapital = 6
    CtlMinimum = 2
    CtlMaxPositions = 2
    CtlRuns = {r1}
    CtlSettings = {{"switches"}, {"confirm"}, {"offline", "switches"}}
    WlItems = {i1, i2}
    WlSignals = {g1, g2}
    WlWorkers = {w1, w2}
    WlSettings = {{"faults"}, {"overlap", "skip", "faults"}}
    AcOrgs = {o1, o2}
    AcEditors = {e1, e2}
    AcRequests = 3
    AcFailures = 2
    AcWrong = 2
    AcSettings = {{}, {"members"}, {"members", "overlap"}, {"password"}, {"password", "blip"},
                  {"tickets"}, {"tickets", "blip"}}
    UvCoins = {c1, c2}
    UvStocks <- TwoStocks
    UvCap = 1
    UvStale = 1
    UvSettings = {{}, {"coins"}, {"market"}, {"labels"}, {"labels", "overlap"}, {"stories"}}
    MdDays = 4
    MdOrgs = {o1, o2}
    MdRegimes = {"bull", "bear"}
    MdTtl = 2
    MdProcesses = {"web", "worker"}
    MdSettings = {{}, {"bars"}, {"bars", "manual"}, {"regime"}, {"regime", "faults"}, {"rate"},
                  {"rate", "outage"}, {"rate", "outage", "bridge"}, {"price"}, {"price", "outage"},
                  {"calendar"}}
INVARIANTS
    
    PromotedIsNotLost OneLiveSignal
    HomeIsDefault
    DataIsCurrent WaitEndsAtTheOpen
PROPERTIES
    HaltsHold ThrottleIsFair SettledIsKept 
CHECK_DEADLOCK FALSE
