SPECIFICATION OneShotSpec
CONSTANTS
    alice = alice
    bob = bob
    carol = carol
    admin = admin
    collector = collector
    pool = pool
    xlm = xlm
    usdc = usdc
    None = None
    Bridge = Bridge
    Account = {alice, bob, admin, collector}
    Asset = {xlm}
    Sources = {alice}
    Targets = {bob}
    Operators = {admin, collector}
    RelayerKey = {r1, r2, r3}
    CrossTx = {tx1, tx2}
    InitArgs <- OneInit
    Amounts <- UpTo2
    Rates = {0, 1}
    Limits = {}
    TierLists <- NoTiers
    Batches <- NoBatches
    CallOptions <- ByDefault
    Times = {1, 2}
    MetaNonces = {0, 1}
    LoyaltyTokens = {}
    ReserveAssets = {xlm}
    MaxTimestamp = 2
    LedgerSeconds = {1}
    MaxTimelocks = 1
    MaxCommitments = 1
    InitialBalances <- OneShotBalances
    FEE_DENOMINATOR = 4
    MAX_FEE_BPS = 2
    MAX_FEE_TIERS = 2
    I128_MAX = 100
    SECONDS_PER_DAY = 2
    COMMIT_REVEAL_MIN_DELAY_LEDGERS = 1
    MAX_BATCH_SIZE = 2
INVARIANTS RingFenced PaidOnceAsRecorded ThresholdReachable
PROPERTY PayoutsAsPromised
CHECK_DEADLOCK FALSE
