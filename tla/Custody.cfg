SPECIFICATION CustodySpec
CONSTANTS
    alice = alice
    bob = bob
    carol = carol
    admin = admin
    collector = collector
    pool = pool
    xlm = xlm
    usdc = usdc
    None = None
    Bridge = Bridge
    Account = {alice, bob, admin, collector}
    Asset = {xlm}
    Sources = {alice}
    Targets = {bob}
    Operators = {admin, collector}
    RelayerKey = {}
    CrossTx = {}
    InitArgs <- OneInit
    Amounts <- UpTo3
    Rates = {0, 1}
    Limits = {}
    TierLists <- NoTiers
    Batches <- NoBatches
    CallOptions <- ByDefault
    Times = {1, 2}
    MetaNonces = {}
    LoyaltyTokens = {xlm}
    ReserveAssets = {}
    MaxTimestamp = 2
    LedgerSeconds = {1}
    MaxTimelocks = 2
    MaxCommitments = 0
    InitialBalances <- CustodyBalances
    FEE_DENOMINATOR = 4
    MAX_FEE_BPS = 2
    MAX_FEE_TIERS = 2
    I128_MAX = 100
    SECONDS_PER_DAY = 2
    COMMIT_REVEAL_MIN_DELAY_LEDGERS = 1
    MAX_BATCH_SIZE = 2
INVARIANTS TypeOK RingFenced LockedIsOutstanding MaturedIsClaimable
PROPERTIES PauseFreezesUsers
CHECK_DEADLOCK FALSE
