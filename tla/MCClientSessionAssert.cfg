CONSTANTS
    empty = empty
    invalid = invalid
    h1 = h1
    h2 = h2
    h2Port = h2Port
    s1 = s1
    s2 = s2
    NoSocket = NoSocket
    Text <- MCText
    EmptyText = empty
    Invalid = invalid
    ValidIp <- MCValidIp
    Password = {p0}
    EmptyPassword = p0
    Socket = {s1, s2}
    AssertsEnabled = TRUE
    MaxEvents = 2
SPECIFICATION Spec
INVARIANTS NoStaleCallback
