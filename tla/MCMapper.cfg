SPECIFICATION Spec
CONSTANTS
    h1 = h1
    h2 = h2
    read = read
    write = write
    texture = texture
    Handles <- MCHandles
    Usages <- MCUsages
    CpuUsages <- MCCpuUsages
    WaiverUsages <- MCWaiverUsages
    handleUsage <- MCHandleUsage
    MaxHeld = 3
INVARIANTS
    MappedIffCpuLocked
    CpuLockIsExclusive
    NoStaleBuffer
    LocksAreBacked
