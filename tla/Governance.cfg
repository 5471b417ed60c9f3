SPECIFICATION GovernanceSpec
CONSTANTS
    alice = alice
    bob = bob
    carol = carol
    admin = admin
    collector = collector
    pool = pool
    xlm = xlm
    usdc = usdc
    None = None
    Bridge = Bridge
    Account = {alice, bob, admin, collector}
    Asset = {xlm}
    Sources = {alice}
    Targets = {bob}
    Operators = {admin, collector}
    RelayerKey = {}
    CrossTx = {}
    InitArgs <- GovernanceInit
    Amounts <- UpTo2
    Rates = {0, 1}
    Limits = {0, 1}
    TierLists <- NoTiers
    Batches <- NoBatches
    CallOptions <- GovernanceOptions
    Times = {}
    MetaNonces = {}
    AuthNonces = {0, 1}
    Windows <- AuthWindows
    LoyaltyTokens = {}
    ReserveAssets = {}
    MaxTimestamp = 1
    LedgerSeconds = {1}
    MaxTimelocks = 0
    MaxCommitments = 0
    InitialBalances <- GovernanceBalances
    FEE_DENOMINATOR = 4
    MAX_FEE_BPS = 2
    MAX_FEE_TIERS = 2
    I128_MAX = 100
    SECONDS_PER_DAY = 2
    COMMIT_REVEAL_MIN_DELAY_LEDGERS = 1
    MAX_BATCH_SIZE = 2
INVARIANT AuthNonceIsLowestUnused
PROPERTIES FeesLeaveToCollector DeactivationIsFinal
CHECK_DEADLOCK FALSE
