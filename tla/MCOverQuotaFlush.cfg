\* One index worker, one engine, RSS stuck above indexQuota, a signal
\* channel of capacity 1 drained by a flushing consumer.
CONSTANTS
    w1 = w1  e1 = e1  q1 = q1
    Workers <- MCWorkers
    Engines <- MCEngines
    Unhooked = {}
    StatsMayFail = {}
    Scorch = {}
    Queriers <- MCQueriers
    WordBits = 4
    MemQuota = 4
    AppPercent = 100
    IndexPercent = 50
    QueryPercent = 50
    MemLevels = {0, 2}
    QuerySizes = {1, 2}
    Depths = {0, 1}
    MaxEngineSize = 1
    HasOverQuotaCh = TRUE
    ChCap = 1
    CloseRacesBatch = FALSE
    MaxEvents = 4
SPECIFICATION FlushSpec
PROPERTY BatchStartReturns
CHECK_DEADLOCK FALSE
