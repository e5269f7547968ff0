SPECIFICATION Spec
CONSTANTS
    play = play
    rating = rating
    event = event
    d1 = d1
    d2 = d2
    NoBody = NoBody
    Key <- AllThree
    Body = {1}
    Device = {d1, d2}
    Rule <- MCRule
    Cites <- MCCites
    TableOrder <- MCOrder
    Refusals = {"rejected", "deferred"}
    MaxRevision = 4
    MaxEdits = 3
    MaxFaults = 0
SYMMETRY Swap
INVARIANTS TypeOK
PROPERTIES ImplementsFeed
