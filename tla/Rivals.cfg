SPECIFICATION Spec
CONSTANTS
    BUFFER_SIZE = 1
    NUM_OPERATIONS = 2
CHECK_DEADLOCK FALSE
INVARIANTS BufferGuarded FileGuarded
