SPECIFICATION Spec
CONSTANTS
    t1 = t1
    t2 = t2
    t3 = t3
    Servers = {s1}
    Threads = {t1, t2, t3}
    ClientOf <- TwoClients
    NUM_RESOURCES = 1
    Kills = 0
CHECK_DEADLOCK FALSE
INVARIANTS NameRemoved
