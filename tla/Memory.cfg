CONSTANTS
    NUM_BLOCKS = 4
    NULL = NULL
SPECIFICATION Spec
PROPERTY FreeReturns
CHECK_DEADLOCK FALSE
