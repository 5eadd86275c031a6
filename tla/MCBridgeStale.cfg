CONSTANTS
    States <- Versions
    Initial = 0
    Moves <- Onward
    Closed = {}
    Alert = Alert
    MayHide = FALSE
    PollSlots = {p1, p2}
    EventSlots = {e1}
    MaxMoves = 2
SPECIFICATION FairSpec
PROPERTY
    Converges
