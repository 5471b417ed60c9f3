SPECIFICATION FeeSpec
CONSTANTS
    alice = alice
    bob = bob
    carol = carol
    admin = admin
    collector = collector
    pool = pool
    xlm = xlm
    usdc = usdc
    None = None
    Bridge = Bridge
    Account = {alice, bob, carol, admin, collector, pool}
    Asset = {xlm, usdc}
    Sources = {alice}
    Targets = {bob, carol}
    Operators = {admin, collector}
    RelayerKey = {}
    CrossTx = {}
    InitArgs <- OneInit
    Amounts = {0, 1, 4}
    Rates = {0, 1}
    Limits = {}
    TierLists <- FeeTierLists
    Batches <- FeeBatches
    CallOptions <- ByDefault
    Times = {}
    MetaNonces = {}
    LoyaltyTokens = {}
    ReserveAssets = {}
    MaxTimestamp = 0
    LedgerSeconds = {1}
    MaxTimelocks = 0
    MaxCommitments = 0
    InitialBalances <- FeeBalances
    FEE_DENOMINATOR = 2
    MAX_FEE_BPS = 1
    MAX_FEE_TIERS = 2
    I128_MAX = 100
    SECONDS_PER_DAY = 2
    COMMIT_REVEAL_MIN_DELAY_LEDGERS = 1
    MAX_BATCH_SIZE = 2
PROPERTIES SurplusExplained FeesWithinCap
CHECK_DEADLOCK FALSE
