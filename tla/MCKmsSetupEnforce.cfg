SPECIFICATION SetupSpec
CONSTANTS
    NumCrtcs = 2
    Cards <- MCCards
    GeneratedClocks <- MCGeneratedClocks
INVARIANT
    EnforcingSurvives
CHECK_DEADLOCK FALSE
