SPECIFICATION Spec
CONSTANTS
    w1 = w1
    w2 = w2
    r1 = r1
    r2 = r2
    l1 = l1
    l2 = l2
    k1 = k1
    k2 = k2
CHECK_DEADLOCK FALSE
PROPERTIES EOFIsDetected
