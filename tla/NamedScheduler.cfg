SPECIFICATION FairSpec
CONSTANTS
    t1 = t1
    t2 = t2
    t3 = t3
    Servers = {s1, s2}
    Threads = {t1, t2, t3}
    ClientOf <- TwoClients
    NUM_RESOURCES = 2
    Kills = 1
CHECK_DEADLOCK FALSE
INVARIANTS LimitPerSemaphore ReportIsRight
PROPERTIES Served
