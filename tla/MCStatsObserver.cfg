\* One index worker and one engine beside a caller of Stats(), which loads
\* the four counters one at a time.
CONSTANTS
    w1 = w1  e1 = e1  q1 = q1
    Workers <- MCWorkers
    Engines <- MCEngines
    Unhooked = {}
    StatsMayFail = {}
    Scorch = {}
    Queriers <- MCQueriers
    WordBits = 4
    MemQuota = 4
    AppPercent = 100
    IndexPercent = 50
    QueryPercent = 50
    MemLevels = {0, 2}
    QuerySizes = {1, 2}
    Depths = {0, 1}
    MaxEngineSize = 1
    HasOverQuotaCh = FALSE
    ChCap = 1
    CloseRacesBatch = FALSE
    MaxEvents = 4
SPECIFICATION ObsSpec
INVARIANT StatsSnapshotOrdered
CHECK_DEADLOCK FALSE
