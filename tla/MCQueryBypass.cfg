\* queryRatio -0.5: queryQuota -2, so onQueryStart admits without the
\* mutex and without adding the size, while onQueryEnd still subtracts it.
CONSTANTS
    w1 = w1  w2 = w2  w3 = w3  e1 = e1  e2 = e2  q1 = q1  q2 = q2
    Workers <- MCWorkers
    Engines <- MCEngines
    Unhooked = {}
    StatsMayFail = {}
    Scorch = {e2}
    Queriers <- MCQueriers
    WordBits = 4
    MemQuota = 4
    AppPercent = 100
    IndexPercent = 50
    QueryPercent <- MCNegativePercent
    MemLevels = {0, 2}
    QuerySizes = {1, 2}
    Depths = {0, 1}
    MaxEngineSize = 1
    HasOverQuotaCh = TRUE
    ChCap = 1
    CloseRacesBatch = FALSE
    MaxEvents = 3
SPECIFICATION Spec
INVARIANT IdleQueriesLeaveNoUsage
