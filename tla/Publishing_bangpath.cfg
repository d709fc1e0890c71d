\* One profile and one peer.
SPECIFICATION Spec
CONSTANTS
    n1 = n1
    other = other
    n2 = n2
    self = self
    ad = ad
    profile = profile
    group = group
    Nodes = {n1}
    Self = self
    Profiles = {profile}
    Ads = {}
    Group = group
    NoHash = NoHash
    HostsEnough = 2
    BangPaths <- MC_BangPathsOwn
    NodesAfter <- MC_NodesAfterOne
    Unroutable = {}
    Listed = {}
    NoNode = NoNode
    RetryInterval = 0
    MaxTime = 1
    ConnIds = {1}
    MaxIncoming = 1
    MaxEvents = 1
PROPERTIES
    BangPathMeansSent
