CONSTANTS
    Item = {1, 2}
    Tx = {t1, t2}
    NoTx = NoTx
    NoKey = NoKey
    Stocked = {1}
    Request <- AllRequests
    Key <- MCKey
    Opening <- MCOpening
SPECIFICATION FairSpec
INVARIANTS
    TypeOK
    NoOversell
    LedgerExplainsBalance
    RetryPostsOnce
    NoGridlock
PROPERTIES
    SerialSpec
    EveryTransactionEnds
CHECK_DEADLOCK FALSE
