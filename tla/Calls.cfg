SPECIFICATION BothSpec
CONSTANTS
    alice = alice
    bob = bob
    carol = carol
    toBob = toBob
    toAlice = toAlice
    toCarol = toCarol
    Nodes = {alice, bob}
    CallIds = {toBob, toAlice}
    Caller <- MCCaller
    Callee <- MCCallee
    MaxDrops = 1
    MaxActs = 4
    MixedCalls = {toBob, toCarol}
    PeerOf <- MCPeerOf
    Self = alice
    Volumes <- MCVolumes
    KPreferredBufferLen = 1
    KMaxBufferLen = 3
    MaxSeq = 3
    MaxOpened = 3
INVARIANTS
    EndsAgree
    NobodyHearsThemselves
PROPERTIES
    HangUpEnds
    FillsInSilenceOnly
CHECK_DEADLOCK FALSE
