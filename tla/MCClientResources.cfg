SPECIFICATION Spec
CONSTANTS
    MaxLayerId = 2
    h1 = h1
    h2 = h2
    null = null
    Handles <- MCHandles
    NoHandle <- null
    LayerCaches <- MCLayerCaches
    SlotCounts <- MCSlotCounts
CONSTRAINT Small
SYMMETRY Symmetric
INVARIANTS
    TargetIsLive
    HandlesAccounted
    LayersAreOwned
    FinalPresentIsTaken
CHECK_DEADLOCK FALSE
