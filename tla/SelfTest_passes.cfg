\* Both self-tests, two port PHYs, one MDIO access lost anywhere, polls of two
\* tries, two passes.
CONSTANTS
    NumPorts = 2
    Tries = 2
    MaxLost = 1
    NumRetries = 2
SPECIFICATION FairSpec
INVARIANTS
    QuietWhileReset
    CalibrationSurvivesReset
    NothingLeftInTest
    TrafficIsolated
    PassIsReal
PROPERTIES
    SelfTestReturns
