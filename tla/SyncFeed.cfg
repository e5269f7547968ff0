SPECIFICATION LiveSpec
CONSTANTS
    play = play
    rating = rating
    NoBody = NoBody
    Key <- MCKey
    AppendOnly = {}
    Body = {b1}
    Writer = {w1}
    Reader = {f1}
    MaxRevision = 3
    PageSize = 1
    Builds <- OneBuild
    ReadsTogether = TRUE
    FirstPageKept = TRUE
    MaxFaults = 1
INVARIANTS FeedTypeOK DeletionsReach
PROPERTIES Converges
