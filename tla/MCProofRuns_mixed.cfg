SPECIFICATION Spec
CONSTANTS
    MaxElements = 7
    MAX_RUN_LENGTH = 3
INVARIANTS
    EncodeSucceeds
CHECK_DEADLOCK FALSE
