SPECIFICATION MCSpec
CONSTANTS
    Garbage = Garbage
    DoubleSize = 8
    Samples <- MCSamples
    NoSample = NoSample
    UintMax = 255
    Space <- MCSpace
    Zeros <- MCZeros
    Unset = Unset
    NoString = NoString
    Buckets = 3
    Cutoff = 2
    NoText = NoText
    Numerals <- MCNumerals
    ToPrint <- MCNumbers
    Pairs <- MCPairs
    ByteTexts <- MCBytes
    Directives <- MCDirectives
    Arrays <- MCArrays
    Printable <- MCPrintable
    WcharMax = 127
    WcharSize = 2
    CodePages <- MCCodePages
    NoRoom = NoRoom
    NoFile = NoFile
    Escapable <- MCEscapable
    SavedTexts <- MCSavedTexts
    Files <- MCFiles
    KeyNames <- MCKeyNames
    ExtendedVKeys <- MCExtendedVKeys
    KeyLayout <- MCKeyLayout
    KeyRoom = 9
    Desktop <- MCDesktop
    NoCriterion = NoCriterion
    KeyStrings <- MCKeyStrings
    Declarations <- MCDeclarations
    MaxItems = 4
    MinTokenVal = 256
    MaxUint = 65535
    NoConfig = NoConfig
INVARIANTS
    EliminationCorrect
    ShapesCorrect
    NumbersCorrect
    TextsCorrect
    FormatFits
    SortCorrect
    
    CollectedAsDeclared
    TablesConsistent
CHECK_DEADLOCK FALSE
