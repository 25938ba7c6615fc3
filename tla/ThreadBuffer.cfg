SPECIFICATION FairSpec
CONSTANTS
    Producers = {p1, p2}
    Consumers = {c1, c2}
    BUFFER_SIZE = 2
    INITIAL_DEPOSIT = 0
    MAX_TRANSACTION = 1
    OPS_PER_PRODUCER = 2
    OPS_PER_CONSUMER = 2
INVARIANTS NoSlotRace TokensConserved FinalDeposit IInv
PROPERTIES ImplementsQueue Completes
