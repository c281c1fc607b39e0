SPECIFICATION FairSpec
CONSTANTS
    h1 = h1 h2 = h2 v1 = v1 v2 = v2
    w1 = w1 w2 = w2 w3 = w3 cron = cron
    NoProc = NoProc
    Watchers = {w1, w2, w3}
    Crons = {cron}
    Hooks = {h1, h2}
    Versions = {v1, v2}
    Want <- OnePlugin
    DaemonFaults = {"die", "lockerror", "starterror"}
    MaxFaults = 1
    MaxKills = 1
    KilledInstalling = FALSE
INVARIANTS OneWatcher StaleWatcherPending
PROPERTIES BinaryArrives DaemonArrives
CHECK_DEADLOCK FALSE
