SPECIFICATION FairSpec
CONSTANTS
    n1 = n1
    n2 = n2
    self = self
    item = item
    Nodes = {n1, n2}
    Self = self
    NoNode = NoNode
    Known = {n1, n2}
    Dropped = {}
    ConnIds = {1}
    MaxEvents = 1
    Items = {item}
    Offers <- MC_Offers
    NodeLists <- MC_Lists
    MaxRequests = 2
    MaxArticles = 1
INVARIANTS
    NoneOverlooked
    NoOrphanRequest
PROPERTIES
    ImplementsService
    EveryRequestEnds
CHECK_DEADLOCK FALSE
