SPECIFICATION SpecPush
CONSTANTS
    event = event
    play = play
    w1 = w1
    w2 = w2
    b1 = b1
    mine = mine
    theirs = theirs
    NoBody = NoBody
    Key <- MCKey
    AppendOnly <- MCAppendOnly
    Body = {b1}
    Writer = {w1, w2}
    MaxRevision = 6
    Batch = {mine, theirs}
    Records <- MCRecords
    MaxDeliveries = 3
    MaxMishaps = 2
SYMMETRY Symmetry
INVARIANTS TypeOK RetryIsNoOp
PROPERTIES ImplementsFeed OverwritesTold
CHECK_DEADLOCK FALSE
