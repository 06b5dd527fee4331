\* An engine may close while one of its batch-start events is between
\* the atomic add of line 138 and a.m.Lock().
CONSTANTS
    w1 = w1  w2 = w2  w3 = w3  e1 = e1  e2 = e2  q1 = q1  q2 = q2
    Workers <- MCWorkers
    Engines <- MCEngines
    Unhooked = {}
    StatsMayFail = {}
    Scorch = {e2}
    Queriers <- MCQueriers
    WordBits = 4
    MemQuota = 4
    AppPercent = 100
    IndexPercent = 50
    QueryPercent = 50
    MemLevels = {0, 2}
    QuerySizes = {1, 2}
    Depths = {0, 1}
    MaxEngineSize = 1
    HasOverQuotaCh = TRUE
    ChCap = 1
    CloseRacesBatch = TRUE
    MaxEvents = 3
SPECIFICATION Spec
INVARIANT RegistryHoldsOnlyOpenEngines
