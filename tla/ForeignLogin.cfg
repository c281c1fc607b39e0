SPECIFICATION Spec
CONSTANTS
    c1 = c1 c2 = c2 d1 = d1 d2 = d2 s1 = s1 s2 = s2
    l1 = l1 l2 = l2 l3 = l3 a1 = a1 a2 = a2 NoRecord = NoRecord NoLocal = NoLocal
    Creds = {c1, c2}
    Targets = {d1}
    Syncs = {s1}
    Lineages = {l1, l2}
    Accounts = {a1, a2}
    AccountOf <- TwoAccounts
    Rotating = TRUE
    MaxSeq = 2
    MaxAge = 2
    FaultKinds = {}
    MaxFaults = 0
    RingSize = 6
    ClaudeRefreshes = TRUE
    WindowHit = FALSE
    MaxUses = 0
PROPERTIES SameAccountHeld
