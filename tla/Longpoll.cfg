SPECIFICATION FairSpec
CONSTANTS
    p1 = p1 p2 = p2
    Pollers = {p1, p2}
    MaxVersion = 3
    MaxClock = 3
    MaxRestarts = 1
    MaxDeletions = 1
INVARIANTS NoMissedWakeup AnnouncedIsStored
PROPERTIES NeverTold CatchesUp
