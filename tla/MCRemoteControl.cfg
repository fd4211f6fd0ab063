SPECIFICATION MCSpec
CONSTANTS
    phone = phone
    none = none
    secret = secret
    capital = capital
    Peer = {phone}
    Phone = phone
    NoPassword = none
    Password <- MCPassword
    Char = {capital}
    Strokes <- MCStrokes
    Traffic <- NoRequests
    MaxRequests = 0
    PressedButton = {0}
    PressedKey = {4}
    MaxInFlight = 3
INVARIANTS
    HeldIsPressed
PROPERTIES
    ReleasedInTime
