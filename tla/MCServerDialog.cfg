\* The tray program, launched, quit, killed and launched again.
SPECIFICATION Spec
CONSTANTS
    Null = Null
    NoFile = NoFile
    MaxLine = 7
    IpText = {"0.0.0.0", "10.0.0.1", "255.255.255.255"}
    AnyIp = "0.0.0.0"
    NoneIp = "255.255.255.255"
    PortText <- MCPortText
    TypedPort <- MCTypedPort
    NoText = ""
    Number <- MCNumber
    PortShown <- MCPortShown
    DefaultPort = "28412"
    Password <- MCPassword
    MaxBoxes = 2
    MaxEdits = 2
VIEW MCView
INVARIANTS
    ShowsWhatIsServed
PROPERTIES
    ServerLifecycle
    SettingsComeBack
    SavedAsShown
    QuitEndsProgram
