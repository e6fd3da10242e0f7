\* The CPU port, four LAN ports and the WAN port, five PHYs; a cold or a warm
\* start; every pattern of cables, two MDIO reads that time out.
SPECIFICATION FairSpec
CONSTANTS
    WAN = 5
    MaxRetries = 3
    Starts = {"cold", "warm"}
    MaxMdioFails = 2
INVARIANTS CpuReachedOnlyWhenReceiving WanApartFromLan DmaOnlyIntoRings
    NetworkStandsOnAll
PROPERTIES BroughtUpOnce ReadyWasSeen LinkIsFound
