SPECIFICATION Spec
CONSTANTS
    s1 = s1
    alice = alice
    bob = bob
    Sessions = {s1}
    Owners = {alice, bob}
    OwnerOf <- MCOwnerOf
    Param <- MCParam
    BufferSize = 2
    Window = 1
    MaxEvents = 7
CHECK_DEADLOCK FALSE
INVARIANTS TypeOK NoSendOnClosed
PROPERTIES ImplementsFeed PublishEnds NothingLeaks Flows
