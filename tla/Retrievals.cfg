SPECIFICATION BothSpec
CONSTANTS
    n1 = n1
    n2 = n2
    self = self
    file = file
    comment = comment
    coll = coll
    record = record
    none = none
    Nodes = {n1, n2}
    Self = self
    NoNode = NoNode
    NoItem = NoItem
    Known = {n1, n2}
    Dropped = {}
    ConnIds = {1, 2}
    MaxEvents = 1
    Items = {file, comment}
    Comments = {comment}
    DbQueries <- MC_TwoQueries
    NodesAfter <- MC_NodesAfter
    Offers <- MC_Offers
    MaxRequests = 2
INVARIANTS
    NoneForgotten
    DialogIsWorkedFor
PROPERTIES
    EveryItemEnds
    KeptInformed
