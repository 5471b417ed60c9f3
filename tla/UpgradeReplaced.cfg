SPECIFICATION Spec
CONSTANTS
    None = None
    Hash = {h1, h2, h3}
    UPGRADE_TIMELOCK_LEDGERS = 2
    UPGRADE_EXECUTION_WINDOW_LEDGERS = 2
    U32_MAX = 20
    MaxSequence = 7
PROPERTY ReplacedOnlyAfterCancel
CHECK_DEADLOCK FALSE
