\* A ring of three, one host of which answers, and the seed host.
SPECIFICATION FairConnectorSpec
CONSTANTS
    Nodes = {1, 3}
    Self = 2
    Now = 1
    Fortnight = 0
    HasIpv6 = FALSE
    Seed = 9
    Up = {1}
    Greetings <- MC_Greetings
    Neighbours = 2
    MaxOpen = 2
    MaxHot = 2
    MaxRows = 2
    TurnsPerList = 2
    Wished = {3}
    MaxWishes = 1
INVARIANTS
    RingIsSearched
    FailedNodesRest
PROPERTIES
    NeighboursAreConnected
