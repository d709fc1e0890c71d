\* What the observer is given, however the stream is cut, and that pending
\* reads and requests to close come to an end. A closed connection stops.
SPECIFICATION FairSpec
CONSTANTS
    HeaderSize = 4
    PacketSizes = {4, 5}
    MinMessage = 4
    MaxPatience = 1
    MaxPackets = 3
INVARIANTS
    DeliveredInOrder
PROPERTIES
    PendingReadEnds
    ClosesUnlessSpinning
CHECK_DEADLOCK FALSE
