SPECIFICATION FairSpec
CONSTANTS
    BUFFER_SIZE = 2
    NUM_OPERATIONS = 4
    Plans <- SmallPlans
CHECK_DEADLOCK FALSE
PROPERTIES ImplementsQueue BothComplete
