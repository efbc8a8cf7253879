SPECIFICATION SetupSpec
CONSTANTS
    NumCrtcs = 2
    Cards <- MCCards
    GeneratedClocks <- MCGeneratedClocks
INVARIANTS
    OutputsNeverShare
    OutputIsWired
    ModeIsBest
    ConnectorChoice
CHECK_DEADLOCK FALSE
