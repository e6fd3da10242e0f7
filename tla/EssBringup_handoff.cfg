\* What the kernel finds when boot() runs.
SPECIFICATION FairSpec
CONSTANTS
    WAN = 3
    MaxRetries = 1
    Starts = {"cold"}
    MaxMdioFails = 0
INVARIANT StoppedAtHandOff
