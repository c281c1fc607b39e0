SPECIFICATION Spec
CONSTANTS
    c1 = c1 c2 = c2 t1 = t1 t2 = t2 t3 = t3 l1 = l1 l2 = l2 a1 = a1 a2 = a2
    NoRecord = NoRecord NoThread = NoThread NoProbe = NoProbe
    Creds = {c1}
    Threads = {t1, t2}
    Ops <- Crashing
    Lineages = {l1, l2}
    Accounts = {a1}
    AccountOf <- SameAccount
    Rotating = TRUE
    MaxSeq = 3
    MaxAge = 1
    ExternalRefreshes = FALSE
    FaultKinds = {"crash", "lost"}
    MaxFaults = 2
    RingSize = 6
    ServeRefreshToken = FALSE
    MaxCommits = 3
    MaxNow = 3
    ClockSteps = TRUE
INVARIANTS TypeOK AckedDurable AtMostOneRotationLost
PROPERTIES NeverRolledBack GenGrows
