SPECIFICATION MCSpec
CONSTANTS
    Parsers <- MCRepairParsers
    Tables <- MCRepairTables
    MaxTokens = 1
    RepairMaxValidShift = 3
    WcharMax = 127
    Infinite = 1000
    Nul = 0
    CR = 13
    LF = 10
    LineTerminator <- MCLineTerminator
    Lower <- MCLower
    Upper <- MCUpper
    Lexers <- MCAddressLexers
    Space <- MCSpace
    Semicolon = 59
    Colon = 58
    Dot = 46
    Digit <- MCDigit
    UintLimit = 1000000
    UshortLimit = 65536
    ValidIpSize = 16
    NoToken = NoToken
    SkipToTarget <- MCSkipToTarget
INVARIANTS
    ValidIpHoldsIt
CHECK_DEADLOCK FALSE
