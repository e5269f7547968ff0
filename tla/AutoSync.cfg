SPECIFICATION LiveSpec
CONSTANTS
    t1 = t1
    t2 = t2
    Tab = {t1, t2}
    Locks = TRUE
    Starts = {"live", "manual"}
    Backlog = 1
    MaxEdits = 2
    MaxOthers = 1
    MaxFaults = 2
INVARIANTS OwedIsScheduled UnsentIsRemembered ChangesAnnounced
PROPERTIES EditsReach
