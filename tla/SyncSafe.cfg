SPECIFICATION Spec
CONSTANTS
    c1 = c1 c2 = c2 d1 = d1 d2 = d2 s1 = s1 s2 = s2
    l1 = l1 l2 = l2 l3 = l3 a1 = a1 a2 = a2 NoRecord = NoRecord NoLocal = NoLocal
    Creds = {c1, c2}
    Targets = {d1}
    Syncs = {s1, s2}
    Lineages = {l1, l2, l3}
    Accounts = {a1, a2}
    AccountOf <- TwoAccounts
    Rotating = TRUE
    MaxSeq = 2
    MaxAge = 1
    FaultKinds = {}
    MaxFaults = 0
    RingSize = 6
    ClaudeRefreshes = FALSE
    WindowHit = FALSE
    MaxUses = 1
PROPERTIES LoginsSecured AdoptedOnce KeepsPromises
SYMMETRY Symmetry
