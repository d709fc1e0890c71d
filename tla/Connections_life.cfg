\* Two connections, to each other's node or not, with every way to lose the mutex.
\* A node that is shut down stops.
SPECIFICATION FairSpec
CONSTANTS
    n1 = n1
    n2 = n2
    Nodes = {n1, n2}
    Self = Self
    NoNode = NoNode
    OwnAddress = {n2}
    MaxOpen = 1
    SlowClose = FALSE
    CutsShort = TRUE
    ConnIds = {1, 2}
    NoThread = NoThread
    Connector = Connector
INVARIANTS
    ReportsAreComplete
    NoDanglingConnection
PROPERTIES
    ClosesWhenTold
    ShutdownEnds
CHECK_DEADLOCK FALSE
