CONSTANTS
    t1 = t1
    t2 = t2
    Txs = {t1, t2}
    BadTxs = {}
    MaxHead = 4
    MaxPerBlock = 1
    MaxReorgs = 1
    ReorgDepth = 2
    Anchor = 1
    StartBlock = 1
    BatchSize = 2
    ReorgWindow = 2
    Word = 16
SPECIFICATION TransientSpec
PROPERTIES Recovers
