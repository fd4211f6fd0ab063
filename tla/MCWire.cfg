SPECIFICATION MCSpec
CONSTANTS
    Byte <- Bytes
    Unset = Unset
    InitBufLen = 5
    Data <- MCData
    Sizes = {0, 1, 2, 4}
    MaxAvailable = 5
    Events <- MCEvents
    Passwords <- MCPasswords
    NotAscii = {"c3", "a9"}
    RecvMax = 28
    TextMax = 6
    MaxSends = 2
    MaxFailures = 1
    Page = {g1, g2, g3, g4}
    Null = Null
    SizeT = 4
    SizeLimit = 1000
    Align = 4
    PageSize = 48
    PageHeader = 8
    PointerSize = 4
    SmallSize = 7
    MediumSize = 15
    MediumHeader = 4
    LargeHeader = 4
    Loads <- MCLoads
INVARIANTS
    ReceivedAsSent
    ObjectsRoundTrip
    BlocksApart
    HeapSound
PROPERTIES
    IsByteQueue
CHECK_DEADLOCK FALSE
