SPECIFICATION Spec
CONSTANTS
    Followed = {{"indexer", "gateway"}}
    Browsers = {b1}
    b1 = b1
CHECK_DEADLOCK FALSE
PROPERTIES Shutdown
