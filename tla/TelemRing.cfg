SPECIFICATION RingSpec
CONSTANTS
    RingSize = 3
    MaxEmits = 7
INVARIANTS
    RingTypeOK
    RingBound
    SentIntact
PROPERTIES
    ImplementsQueue
    RecordsLeave
CHECK_DEADLOCK FALSE
