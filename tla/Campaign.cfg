SPECIFICATION Spec
CONSTANTS
    s1 = s1 s2 = s2 fin = fin h1 = h1 d1 = d1 d2 = d2 v1 = v1 v2 = v2 m1 = m1 m2 = m2
    card = card other = other credits = credits p1 = p1 p2 = p2 boost = boost clean = clean
    roles = roles mission = mission
    None = None
    VillainDraw = VillainDraw
    Scenario = {s1, s2, fin}
    Hero = {h1}
    Card = {v1, v2, m1, m2, card, other}
    Counter <- MCCounter
    Flag = {clean}
    List = {roles}
    Draw = {mission}
    Template <- MCTemplate
    Device = {d1, d2}
    Answer <- MCAnswer
    MaxEvents = 9
    MaxDetours = 3
INVARIANTS FinaleLast MarketHonest NoDeadEnd
PROPERTIES VillainKept
SYMMETRY Symmetry
CHECK_DEADLOCK FALSE
