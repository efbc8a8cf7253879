SPECIFICATION FairSpec
CONSTANTS
    c1 = c1
    c2 = c2
    cb = cb
    NoCallback = NoCallback
    Callers <- MCCallers
    Callbacks <- MCCallbacks
    mPeriod = 2
    MaxLate = 5
    MaxGap = 6
INVARIANTS
    TimestampsAreDue
    AtMostOneLateCall
PROPERTIES
    SleepsForTheNextVsync
    ImplementsSource
    EnabledKeepsFiring
