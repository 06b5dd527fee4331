\* Gate and query admission with memQuota 4, ratios (1.0, 0.5, 0.5):
\* appQuota 4, indexQuota 2, queryQuota 2.  RSS moves between 0 (under
\* every quota) and 2 (over indexQuota once a batch is pending).  Three
\* interchangeable batch goroutines and two queriers, under symmetry.
CONSTANTS
    w1 = w1  w2 = w2  w3 = w3  e1 = e1  e2 = e2  q1 = q1  q2 = q2
    Workers <- MCWorkers3
    Engines <- MCEngines
    Unhooked = {}
    StatsMayFail = {}
    Scorch = {e2}
    Queriers <- MCQueriers
    WordBits = 4
    MemQuota = 4
    AppPercent = 100
    IndexPercent = 50
    QueryPercent = 50
    MemLevels = {0, 2}
    QuerySizes = {1, 2}
    Depths = {0, 1}
    MaxEngineSize = 1
    HasOverQuotaCh = TRUE
    ChCap = 1
    CloseRacesBatch = FALSE
    MaxEvents = 5
SPECIFICATION Spec
INVARIANT TypeOK GateAccounting RunningQueryAccounting PreIndexingCountsOwnBatch
PROPERTY RejectOnlyWhenBusy
SYMMETRY MCSymmetry
