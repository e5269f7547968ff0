SPECIFICATION SpecAdoption
CONSTANTS
    play = play
    rating = rating
    d1 = d1
    d2 = d2
    NoBody = NoBody
    Key = {rating}
    Body = {1, 2}
    Device = {d1, d2}
    Mover = {d1}
    Offline = TRUE
    Rule <- MCRule
    Cites <- MCCites
    TableOrder <- MCOrder
    Refusals = {}
    MaxRevision = 3
    MaxEdits = 2
    MaxFaults = 1
    MaxVisits = 3
INVARIANTS OnlyUsersDelete AdoptedMeansEqual
PROPERTIES ReleasedComesBack AdoptionKeepsEdits
CHECK_DEADLOCK FALSE
