SPECIFICATION Spec
CONSTANTS
    MaxLayerId = 2
    CalledDisplays <- MCCalledDisplays
INVARIANTS
    DirtyMatchesView
    ValidatedIsClean
    ReportIsExact
    FullCommandPosts
PROPERTIES
    PostsOnlyClientComposited
