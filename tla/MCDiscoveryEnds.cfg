CONSTANTS
    d1 = d1
    d2 = d2
    top = top
    junk = junk
    low = low
    high = high
    Source = {d1}
    Text <- LiveText
    Unset = Unset
    InetAddr <- LiveInetAddr
    DefaultStart <- MCDefaultStart
    DefaultStop <- MCDefaultStop
    Computer = {c1}
    MaxProbes = 3
    MaxChanges = 1
    Peer = {p1, p2}
    none = none
    secret = secret
    letter = letter
    capital = capital
    NoPassword = none
    Password <- MCPassword
    Char <- MCChar
    Strokes <- MCStrokes
    Traffic <- MCTraffic
    MaxRequests = 2
SPECIFICATION MCSpec
INVARIANTS
    AnsweredAtMostOnce
PROPERTIES
    SweepFinishes
    RepliesLeave
