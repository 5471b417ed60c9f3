SPECIFICATION Spec
CONSTANTS
    d1 = d1
    d2 = d2
    k1 = k1
    k2 = k2
    None = None
    Key = {k1, k2}
    Event = {d1, d2}
    Task = {one, two}
    Confirmations = 1
    MaxHead = 3
    MaxBlockRange = 2
    RetryLimit = 2
    Scenarios <- SomeScenarios
CHECK_DEADLOCK FALSE
INVARIANTS TypeOK PayoutsAreBacked EthAccounted SolanaAccounted OneProcessing SubmissionsAreSigned
PROPERTIES RelaysPayouts DeadLetterKept DepositsSettle RetriesEnd
