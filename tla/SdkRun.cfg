SPECIFICATION Spec
CONSTANTS
    c1 = c1
    c2 = c2
    a1 = a1
    a2 = a2
    None = None
    Call = {c1, c2}
    Account = {a1, a2}
    MaxRetries = 1
    CacheKey = {"getFee", "getAdmin"}
    Reader = {r1, r2}
    MaxEntries = 1
    Ttl = 1
    SweepInterval = 2
    MaxTime = 2
    MaxVersion = 1
    Fetch = {f1, f2}
    Limit = 2
    MaxEvents = 3
    Unreadable = {2}
    Applications <- SomeApplications
CHECK_DEADLOCK FALSE
INVARIANTS TypeOK EncodesAbi EffectOnce ReportsAreTrue NonceInTurn ResultPerChunk SpansEnd CacheAge OwnWritesShow NoEventSkipped
PROPERTIES SubmitsBatches CallsEnd EventsArrive
