SPECIFICATION Spec
CONSTANTS
    m1 = m1
    m2 = m2
    o1 = o1
    o2 = o2
    o3 = o3
    o4 = o4
    a = a
    b = b
    People <- MCPeople
    MyKeys <- MCMyKeys
    HashOrder <- MCHashOrder
    Passwords = {a, b}
    NoPassword = NoPassword
    Nobody = Nobody
    NoProfile = NoProfile
    KHowManyLevelsDeep = 3
    Things <- MCThings
    FileContents <- MCFileContents
    Databases <- MCDatabases
    Calls <- MCCalls
    Steps <- MCSteps
INVARIANTS
    ContactsArePersonal
    TrustIsCurrent
    SignedByTheirSender
    FileIsItsOwners
    ListsAreComplete
CHECK_DEADLOCK FALSE
