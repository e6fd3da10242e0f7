\* The source's ring of two packets of four descriptors: the send after
\* one that timed out, against an engine that works on.
SPECIFICATION FairSpec
CONSTANTS
    NT = 8
    PER = 4
    StartIdx = {0}
    MaxSends = 2
    MaxTimeouts = 1
    NoStore = NoStore
INVARIANT CompletedIsTransmitted
