SPECIFICATION Spec
CONSTANTS
    s1 = s1
    s2 = s2
    c1 = c1
    c2 = c2
    null = null
    Servers <- MCServers
    Clients <- MCClients
    Requests <- MCRequests
    request <- MCRequest
    Addresses <- MCAddresses
    Handles <- MCHandles
    Usages <- MCUsages
    CpuUsages <- MCCpuUsages
    WaiverUsages <- MCWaiverUsages
    handleUsage <- MCHandleUsage
    formatOf <- MCFormatOf
    NoHandle <- null
    MaxCount = 1
    LockUsages <- MCLockUsages
CONSTRAINT OneProcessAtATime
SYMMETRY Symmetric
INVARIANTS
    NoBufferLeaks
    LockKeepsMapping
    LockableAsAllocated
    PlanesInBuffer
CHECK_DEADLOCK FALSE
