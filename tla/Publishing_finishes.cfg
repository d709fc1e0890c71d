\* One profile and one peer that also connects by itself. Three connections are
\* enough for every wish to be served: at most two go out to a node.
SPECIFICATION FairSpec
CONSTANTS
    n1 = n1
    other = other
    n2 = n2
    self = self
    ad = ad
    profile = profile
    group = group
    Nodes = {n1}
    Self = self
    Profiles = {profile}
    Ads = {}
    Group = group
    NoHash = NoHash
    HostsEnough = 2
    BangPaths <- MC_BangPathsOwn
    NodesAfter <- MC_NodesAfterOne
    Unroutable = {}
    Listed = {}
    NoNode = NoNode
    RetryInterval = 0
    MaxTime = 2
    ConnIds = {1, 2, 3}
    MaxIncoming = 1
    MaxEvents = 1
INVARIANTS
    NoOrphanCandidate
PROPERTIES
    FinishesWork
