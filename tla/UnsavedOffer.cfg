SPECIFICATION Spec
CONSTANTS
    c1 = c1 c2 = c2 t1 = t1 t2 = t2 t3 = t3 l1 = l1 l2 = l2 a1 = a1 a2 = a2
    NoRecord = NoRecord NoThread = NoThread NoProbe = NoProbe
    Creds = {c1}
    Threads = {t1}
    Ops <- OneOffering
    Lineages = {l1, l2}
    Accounts = {a1}
    AccountOf <- SameAccount
    Rotating = TRUE
    MaxSeq = 2
    MaxAge = 0
    ExternalRefreshes = TRUE
    FaultKinds = {"save"}
    MaxFaults = 1
    RingSize = 4
    ServeRefreshToken = FALSE
    MaxCommits = 3
    MaxNow = 0
    ClockSteps = FALSE
INVARIANTS AckedDurable
