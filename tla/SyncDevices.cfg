SPECIFICATION LiveSpec
CONSTANTS
    play = play
    rating = rating
    event = event
    d1 = d1
    d2 = d2
    NoBody = NoBody
    Key <- PlayAndRating
    Body = {1, 2}
    Device = {d1, d2}
    Rule <- MCRule
    Cites <- MCCites
    TableOrder <- MCOrder
    Refusals = {}
    MaxRevision = 4
    MaxEdits = 2
    MaxFaults = 1
INVARIANTS StateHonest CleanMeansEqual
PROPERTIES Converges
