\* One ad (two rows) and one connection at a time.
SPECIFICATION Spec
CONSTANTS
    n1 = n1
    other = other
    n2 = n2
    self = self
    ad = ad
    profile = profile
    group = group
    Nodes = {n1, n2}
    Self = self
    Profiles = {}
    Ads = {ad}
    Group = group
    NoHash = NoHash
    HostsEnough = 2
    BangPaths <- MC_BangPaths
    NodesAfter <- MC_NodesAfter
    Unroutable = {}
    Listed = {n2}
    NoNode = NoNode
    RetryInterval = 0
    MaxTime = 1
    ConnIds = {1}
    MaxIncoming = 1
    MaxEvents = 1
INVARIANTS
    AskedOnce
    RowsAgree
    WorkItemHasRow
