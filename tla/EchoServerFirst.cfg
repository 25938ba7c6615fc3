SPECIFICATION FairSpec
CONSTANTS
    Clients = {c1, c2}
    Servers = {"first"}
    MAX_CONN_QUEUE = 1
    Lines = 1
CHECK_DEADLOCK FALSE
PROPERTIES HandlesSequentially
