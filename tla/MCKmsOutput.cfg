SPECIFICATION Spec
CONSTANTS
    b1 = b1
    b2 = b2
    null = null
    Buffers <- MCBuffers
    MaxFrames = 2
    MaxImports = 2
    MaxFaults = 1
INVARIANTS
    FenceIsHonest
    ModesetsOnlyAfterFailures
    OneFramebufferPerHandle
PROPERTY
    TargetsAreShown
