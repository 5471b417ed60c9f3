SPECIFICATION AccessSpec
CONSTANTS
    alice = alice
    bob = bob
    carol = carol
    admin = admin
    collector = collector
    pool = pool
    xlm = xlm
    usdc = usdc
    None = None
    Bridge = Bridge
    Account = {alice, bob, carol, admin, collector}
    Asset = {xlm}
    Sources = {alice}
    Targets = {bob, carol}
    Operators = {admin, collector}
    RelayerKey = {}
    CrossTx = {}
    InitArgs <- OneInit
    Amounts <- UpTo2
    Rates = {0, 1}
    Limits = {0, 2}
    TierLists <- NoTiers
    Batches <- AccessBatches
    CallOptions <- ByDefault
    Times = {1}
    MetaNonces = {}
    LoyaltyTokens = {}
    ReserveAssets = {}
    MaxTimestamp = 1
    LedgerSeconds = {1}
    MaxTimelocks = 1
    MaxCommitments = 1
    InitialBalances <- AccessBalances
    FEE_DENOMINATOR = 4
    MAX_FEE_BPS = 2
    MAX_FEE_TIERS = 2
    I128_MAX = 100
    SECONDS_PER_DAY = 1
    COMMIT_REVEAL_MIN_DELAY_LEDGERS = 1
    MAX_BATCH_SIZE = 2
PROPERTIES OutflowWithinLimit DeniedReceiveNothing
CHECK_DEADLOCK FALSE
