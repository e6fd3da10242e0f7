\* A four-slot ring into its second lap; buffers start with any VALID bit.  Frame
\* 2, over a buffer never used, and frame 6, over that of frame 2 with its VALID
\* bit set, may show their index before their data.
SPECIFICATION FairSpec
CONSTANTS
    N = 4
    MaxLen = 2
    Sizes <- MCSizes
    MayBeEarly = {2, 6}
    GarbageValid = {TRUE, FALSE}
    MaxFrames = 7
    MaxRefused = 1
    MaxCached = 2
    NotCached = NotCached
    Garbled = Garbled
INVARIANTS EngineKeepsOff IndicesCountFrames DeliveredInOrder
PROPERTIES ImplementsFifo AcceptedIsDelivered
