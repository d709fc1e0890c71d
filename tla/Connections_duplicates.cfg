\* Three connections to one node. A node that is shut down stops.
SPECIFICATION Spec
CONSTANTS
    n1 = n1
    n2 = n2
    Nodes = {n1}
    Self = Self
    NoNode = NoNode
    OwnAddress = {}
    MaxOpen = 1
    SlowClose = FALSE
    CutsShort = FALSE
    ConnIds = {1, 2, 3}
    NoThread = NoThread
    Connector = Connector
INVARIANT
    NoDuplicateConnection
CHECK_DEADLOCK FALSE
