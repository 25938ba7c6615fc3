SPECIFICATION Spec
CONSTANTS
    children = 2
    threads = 2
    Rounds = 2
    ForkFails = TRUE
    n1 = 3
    m1 = 1
    v1 <- MinusOne
    n2 = 2
    m2 = 3
    v2 = 3
    ULONG_MAX = 7
    NUM_RESOURCES = 2
    THREAD_BURST = 2
    NUM_TASKS = 1
    Bursts = 2
    Records <- Rdata
    Asked <- OneOrTwo
    Queries = 2
    src <- FiveBytes
    block_size = 3
    OldFiles <- Contents
    Rules = 3
    Packets = 1
CHECK_DEADLOCK FALSE
INVARIANTS Barrier AnswersAsAsked OnlyFromOutside
PROPERTIES ReportIsFinal NoLostAdds ResourcesShared Copied StopsClean
