\* A ring of four slots, more than one lap of it in up to three sessions; four
\* ports; two probes, either of which may fail anywhere.
SPECIFICATION Spec
CONSTANTS
    N = 4
    WAN = 3
    MaxProbes = 2
    MaxStarts = 3
    MaxFrames = 7
    MayBeEarly = {2, 6}
INVARIANTS DmaOnlyIntoRings ClosedWhenDeaf HandedInOrder DeafOnlyFromLastSlots
PROPERTIES FailedProbeLeavesNothing
