\* A connection that takes longer than the shutdown waits. A node that is shut
\* down stops.
SPECIFICATION Spec
CONSTANTS
    n1 = n1
    n2 = n2
    Nodes = {n1}
    Self = Self
    NoNode = NoNode
    OwnAddress = {}
    MaxOpen = 1
    SlowClose = TRUE
    CutsShort = FALSE
    ConnIds = {1}
    NoThread = NoThread
    Connector = Connector
INVARIANT
    NoDanglingConnection
CHECK_DEADLOCK FALSE
