\* The client's own loss detection, after a control frame.
CONSTANTS
    o1 = o1
    o2 = o2
    Others = {o1, o2}
    BufferSize = 2
    MaxChannels = 2
    MaxEvents = 4
    MaxFaults = 2
SPECIFICATION FairSpec
INVARIANT LossAlwaysShown
CHECK_DEADLOCK FALSE
