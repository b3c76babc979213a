SPECIFICATION Spec
CONSTANTS
    Followed = {{"indexer", "gateway"}, {"notify"}}
    Browsers = {b1, b2}
    b1 = b1
    b2 = b2
CHECK_DEADLOCK FALSE
INVARIANTS TypeOK ZeroMeansSignalled
PROPERTIES DrainedAtExit StopsTogether StopsWhenIdle
