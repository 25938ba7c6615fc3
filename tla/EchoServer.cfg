SPECIFICATION FairSpec
CONSTANTS
    Clients = {c1, c2}
    Servers = {"first", "serial", "mproc", "mthread"}
    MAX_CONN_QUEUE = 1
    Lines = 2
CHECK_DEADLOCK FALSE
INVARIANTS OwnEcho OwnAddress ClosedWhenDone
PROPERTIES ForkIsolates Welcomed
