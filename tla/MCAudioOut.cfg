SPECIFICATION Spec
CONSTANTS
    t1 = t1
    t2 = t2
    t3 = t3
    s1 = s1
    s2 = s2
    none = none
    Threads <- MCThreads
    Streams <- MCStreams
    MaxCalls = 2
INVARIANTS
    PcmOutlivesWrite
    PcmIsAccountedFor
    BlocksNobody
PROPERTY
    CallsReturn
CHECK_DEADLOCK FALSE
