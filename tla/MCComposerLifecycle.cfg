SPECIFICATION FairSpec
CONSTANTS
    t1 = t1
    t2 = t2
    k1 = k1
    k2 = k2
    k3 = k3
    Creators <- MCCreators
    Clients <- MCClients
    NoClient = NoClient
    Callbacks <- MCCallbacks
    NoCallback = NoCallback
INVARIANTS
    CallbacksReachTheOwner
    AliveIsExact
PROPERTIES
    ImplementsSlot
    CreateClientReturns
    DroppedClientGoes
