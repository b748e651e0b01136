\* Four events through a buffer of two; two other sessions may take its channel.
CONSTANTS
    o1 = o1
    o2 = o2
    Others = {o1, o2}
    BufferSize = 2
    MaxChannels = 2
    MaxEvents = 4
    MaxFaults = 2
SPECIFICATION FairSpec
INVARIANTS
    InOrder
    LossIsShown
PROPERTIES
    EndIsSeen
    StreamEnds
\* The session has its events and ends: a client that has seen the end does nothing more.
CHECK_DEADLOCK FALSE
