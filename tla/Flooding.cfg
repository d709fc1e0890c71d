CONSTANTS
    MaxItem = 4
    MaxSignature = 16
    MaxPhrase = 8
    MinItem = 51
    Latest = 50
    Nodes = {1, 2, 3, 4, 5, 6, 7}
    Origin = 1
    Messages <- MC_Messages
SPECIFICATION Spec
INVARIANTS
    UnderstoodAsMeant
    AncestorsAreSpared
CHECK_DEADLOCK FALSE
