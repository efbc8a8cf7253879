SPECIFICATION InputSpec
CONSTANTS
    Second = 200
    DefaultRate = 200
    Configs <- MCConfigs
    Rates = {200, 400}
    SampleBytes = {1, 2}
    MaxOvershoot = 2
    MaxCut = 1
    MaxTime = 20
INVARIANTS
    KeepsPace
