SPECIFICATION FairSpec
CONSTANTS
    BUFFER_SIZE = 3
    MAX_TRANSACTION = 1
    NUM_OPERATIONS = 5
    STORE_BUFFER = 4
INVARIANTS NoSlotRace
PROPERTIES ImplementsQueue BothFinish
