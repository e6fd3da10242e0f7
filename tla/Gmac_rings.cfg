\* Two receive and two transmit descriptors, two laps; frames of no length, of
\* half the buffer, and longer than all of it; any send may give up.
SPECIFICATION FairSpec
CONSTANTS
    NumRx = 2
    NumTx = 2
    Lens = {0, 1, 3}
    MaxLen = 2
    MaxFrames = 4
    MaxTimeouts = 4
    NotCached = NotCached
INVARIANTS DeliveredInOrder NeverPastBuffer SentWholeOnce
PROPERTIES ReceivedIsDelivered SendReturns
