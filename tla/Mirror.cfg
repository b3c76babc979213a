CONSTANTS
    t1 = t1
    t2 = t2
    Txs = {t1, t2}
    BadTxs = {}
    MaxHead = 5
    MaxPerBlock = 2
    MaxReorgs = 2
    ReorgDepth = 3
    Anchor = 1
    StartBlock = 1
    BatchSize = 2
    ReorgWindow = 3
    Word = 16
SPECIFICATION Spec
INVARIANTS TypeOK Mirror
PROPERTIES Converges
