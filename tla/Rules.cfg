SPECIFICATION Spec
CONSTANTS
    RcMin = 1
    RcMax = 2
    RcOld = 2
    RcNew = 1
    RcAsked = {0, 1, 2, 3}
    RcSettings = {{}, {"mandatory"}, {"equity"}, {"mandatory", "equity"}}
    ScAverages = {0, 10, 12, 13, 17}
    ScQuarters <- MCQuarters
    ScSectors = 5
    ScBars <- MCBars
    ScLength = 7
    DcCapital = {0, 1000, 5000, 100000}
    DcPrice = {1, 7, 90, 2000}
    DcRisk = {0, 1, 5}
    DcVolume = {0, 3, 200, 9000}
    DcOdd = {0, 25, 100, 300}
    BtPrices = {2, 3, 4, 6}
    BtDays = 5
    BtLife = 2
    BtRisk = 6
    BtSettings = {{}, {"volume"}, {"price"}, {"price", "volume"}}
INVARIANTS
    SwitchesMeanIt
    BetterNeverHurts PatternsAreOrdered ScreensAgreeAndKeep
     PlanIsSound
PROPERTY ReplayIsSound
CHECK_DEADLOCK FALSE
