SPECIFICATION Spec
CONSTANTS
    t1 = t1
    t2 = t2
    g1 = g1
    g2 = g2
    NoGame = NoGame
    Tab = {t1, t2}
    Game = {g1, g2}
    MaxPlays = 2
    MaxSends = 3
    MaxDetours = 2
SYMMETRY Symmetry
INVARIANTS OnePlace SaidIsThere NoBlindCopy
CHECK_DEADLOCK FALSE
