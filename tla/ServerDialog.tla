---------------------------- MODULE ServerDialog ----------------------------
(***************************************************************************)
(* The tray program around the server socket: CWinSrvDlg and the process    *)
(* that shows it.                                                           *)
(*                                                                          *)
(* Handlers run one at a time, but a message box runs a message loop inside *)
(* the handler that shows it.  Meanwhile the window is disabled and the     *)
(* tray's menu is not: it can start, stop and quit under the box.           *)
(***************************************************************************)
EXTENDS IniObject, Integers

CONSTANTS
    IpText,             \* addresses the address field can hold
    AnyIp,              \* "0.0.0.0"
    NoneIp,             \* "255.255.255.255": inet_addr answers INADDR_NONE
    PortText,           \* what the port field can hold, NoText included
    TypedPort,          \* those of them a user can type: digits only
    NoText,             \* the empty text
    Number,             \* Number[t]: what _wtoi reads in a port field, an int
    PortShown,          \* PortShown[t]: a port t of the file as a launch shows
                        \* it: read by AR_wtou64, cut to a DWORD, and "%d" of it
    DefaultPort,        \* "28412"
    Password,           \* what the password field can hold
    NoFile,             \* there is no server_config.ini
    MaxBoxes,           \* bound on boxes on top of one another
    MaxEdits            \* bound on the changes of fields in a process

\* Values of an USHORT.
UShort == 2 ^ 16

NoServer == [open |-> FALSE, ip |-> AnyIp, port |-> 0, pwd |-> <<>>]

Fields == [ip : IpText, port : PortText, pwd : Password, manual : BOOLEAN, autorun : BOOLEAN]

ASSUME DialogAssumption ==
    /\ AnyIp \in IpText /\ AnyIp # NoneIp
    /\ NoText \in PortText /\ DefaultPort \in PortText
    /\ TypedPort \subseteq PortText
    /\ <<>> \in Password
    /\ Number \in [PortText -> Int]
    /\ PortShown \in [PortText \ {NoText} -> PortText]
    /\ MaxBoxes \in Nat /\ MaxEdits \in Nat

\* What the config file asks of its settings: addresses and ports hold no
\* character its lines give a meaning, and what is read back of a password is
\* one the field can hold.
ASSUME TextAssumption ==
    /\ MaxLine \in Nat /\ MaxLine > 4
    /\ Null \notin Password \cup {<<>>, <<"0">>, <<"1">>} \cup {<<t>> : t \in IpText \cup PortText}
    /\ Null \notin {<<"IP">>, <<"Port">>, <<"Password">>, <<"Auto Run">>, <<"Manual IP">>}
    /\ (IpText \cup PortText) \cap {Blank, Tag} = {}
    /\ \A p \in Password : p \in Seq({p[i] : i \in DOMAIN p}) /\ ValueOf(Append(p, Blank)) \in Password

VARIABLES
    process,            \* "dead", "init" (in OnInitDialog), "loop" (RunModalLoop),
                        \* "over" (the loop ends when it comes round), or "lost":
                        \* no icon in the tray and no window
    quitting,           \* in OnBnClickedButtonQuit: the file was "opened" or not
    boxes,              \* modal boxes, each over the ones before
    window,             \* m_is_hide, and whether the window is visible
    fields,             \* the controls that hold the settings
    enabled,            \* the controls that take input
    started,            \* m_is_started
    srv,                \* m_srv: the socket and its password
    cfg,                \* m_cfg
    file,               \* server_config.ini: a text, or no file
    link,               \* the shortcut in the start-up folder
    toggled,            \* the manual-IP box was used since the server started
    edits               \* changes of fields in this process

windowVars == <<boxes, window, fields, enabled>>
serverVars == <<started, srv, toggled>>
dialogVars == <<process, quitting, windowVars, serverVars, cfg, file, link, edits>>

-----------------------------------------------------------------------------
(* Settings and their text.                                                 *)

ServerSect == <<"Server">>
MiscSect == <<"Misc">>

Flag(b) == IF b THEN <<"1">> ELSE <<"0">>
PortString(t) == IF t = NoText THEN <<>> ELSE <<t>>

\* Mutant: the address is not looked at.
KeptUnread(f) == f

\* What save_config keeps of the controls: an address inet_addr does not read is
\* none.
Kept(f) == [f EXCEPT !.ip = IF @ = NoneIp THEN AnyIp ELSE @]

\* What it sets in m_cfg.
SetSettings(obj, f) ==
    LET c1 == SetString(obj, ServerSect, <<"IP">>, <<f.ip>>, Null)
        c2 == SetString(c1, ServerSect, <<"Port">>, PortString(f.port), Null)
        c3 == SetString(c2, ServerSect, <<"Password">>, f.pwd, Null)
        c4 == SetString(c3, MiscSect, <<"Auto Run">>, Flag(f.autorun), Null)
    IN  SetString(c4, MiscSect, <<"Manual IP">>, Flag(f.manual), Null)

Configured(obj, f) == SetSettings(obj, Kept(f))

\* Ini_GetUInt, and the text of the number.
GetPort(obj) ==
    LET s == GetString(obj, ServerSect, <<"Port">>)
    IN  IF s \in {Null, <<>>} THEN DefaultPort ELSE PortShown[s[1]]

GetFlag(obj, key) == GetString(obj, MiscSect, key) \notin {Null, <<>>, <<"0">>}

\* init_config: a file that is not there, or is empty, makes an empty object.
LoadConfig == IF file = NoFile THEN <<>> ELSE LoadObjectFromString(file)

\* init_dlg_items.
FieldsOf(obj) ==
    LET ip == GetString(obj, ServerSect, <<"IP">>)
        pwd == GetString(obj, ServerSect, <<"Password">>)
    IN  [ip |-> IF ip = Null THEN AnyIp ELSE ip[1],
         port |-> GetPort(obj),
         pwd |-> Written(pwd),
         autorun |-> GetFlag(obj, <<"Auto Run">>),
         manual |-> GetFlag(obj, <<"Manual IP">>)]

EnabledAtFirst(f) ==
    [ip |-> f.manual, port |-> TRUE, pwd |-> TRUE, start |-> TRUE, stop |-> FALSE]

-----------------------------------------------------------------------------
(* OnBnClickedButtonStart and OnBnClickedButtonStop.                        *)

\* The port is cut to an USHORT; 0 lets the system choose.
Bound(f) ==
    [open |-> TRUE, ip |-> IF f.manual THEN f.ip ELSE AnyIp,
     port |-> Number[f.port] % UShort, pwd |-> f.pwd]

StartSucceeds(f, e) ==
    /\ srv' = Bound(f)
    /\ started' = TRUE
    /\ toggled' = FALSE
    /\ enabled' = [e EXCEPT !.start = FALSE, !.stop = TRUE,
                            !.ip = FALSE, !.port = FALSE, !.pwd = FALSE]
    /\ UNCHANGED boxes

\* The box is shown before the handler returns.
StartFails(e) ==
    /\ Len(boxes) < MaxBoxes
    /\ boxes' = Append(boxes, "failed")
    /\ enabled' = e
    /\ UNCHANGED serverVars

Start ==
    IF started THEN UNCHANGED <<serverVars, enabled, boxes>>
    ELSE StartSucceeds(fields, enabled) \/ StartFails(enabled)

\* Mutant: the fields stay disabled.
StoppedWithoutFields(e) == [e EXCEPT !.start = TRUE, !.stop = FALSE]

Stopped(e) ==
    [e EXCEPT !.start = TRUE, !.stop = FALSE, !.port = TRUE, !.pwd = TRUE,
              !.ip = @ \/ fields.manual]

\* Mutant: the socket is not closed.
StopServing ==
    IF ~started THEN UNCHANGED <<serverVars, enabled>>
    ELSE /\ started' = FALSE
         /\ enabled' = Stopped(enabled)
         /\ UNCHANGED <<srv, toggled>>

Stop ==
    IF ~started THEN UNCHANGED <<serverVars, enabled>>
    ELSE /\ srv' = NoServer
         /\ started' = FALSE
         /\ enabled' = Stopped(enabled)
         /\ UNCHANGED toggled

-----------------------------------------------------------------------------
(* The process.                                                             *)

Hidden == [hide |-> TRUE, visible |-> FALSE]
NoWindow == [hide |-> FALSE, visible |-> FALSE]

Blank0 == FieldsOf(<<>>)

Gone ==
    /\ process' = "dead"
    /\ quitting' = "no"
    /\ boxes' = <<>>
    /\ window' = NoWindow
    /\ fields' = Blank0
    /\ enabled' = EnabledAtFirst(Blank0)
    /\ started' = FALSE
    /\ srv' = NoServer
    /\ toggled' = FALSE
    /\ cfg' = <<>>
    /\ edits' = 0

\* InitInstance, for the first process only (IsSameProcessRunning).  The
\* server is started at once; the window is hidden when OnInitDialog returns.
Launch ==
    /\ process = "dead"
    /\ cfg' = LoadConfig
    /\ fields' = FieldsOf(cfg')
    /\ \/ /\ StartSucceeds(fields', EnabledAtFirst(fields'))
          /\ process' = "loop"
          /\ window' = Hidden
       \/ /\ StartFails(EnabledAtFirst(fields'))
          /\ process' = "init"
          /\ window' = NoWindow
    /\ UNCHANGED <<quitting, file, link, edits>>

\* init_systray fails: OnInitDialog says so and returns, nothing is set up,
\* and the window is hidden all the same.
LaunchWithoutTray ==
    /\ process = "dead"
    /\ process' = "lost"
    /\ UNCHANGED <<quitting, windowVars, serverVars, cfg, file, link, edits>>

\* Killed, or Windows shuts down.
Crash ==
    /\ process # "dead"
    /\ Gone
    /\ UNCHANGED <<file, link>>

-----------------------------------------------------------------------------
(* The tray's menu, which works under a box.                                *)

TrayWorks == process \in {"init", "loop", "over"} /\ quitting = "no"

TrayStart ==
    /\ TrayWorks
    /\ Start
    /\ UNCHANGED <<process, quitting, window, fields, cfg, file, link, edits>>

TrayStop ==
    /\ TrayWorks
    /\ Stop
    /\ UNCHANGED <<process, quitting, boxes, window, fields, cfg, file, link, edits>>

ShowDlg ==
    /\ TrayWorks
    /\ window.hide
    /\ window' = [hide |-> FALSE, visible |-> TRUE]
    /\ UNCHANGED <<process, quitting, boxes, fields, enabled, serverVars, cfg, file, link, edits>>

HideDlg ==
    /\ TrayWorks
    /\ ~window.hide
    /\ window' = Hidden
    /\ UNCHANGED <<process, quitting, boxes, fields, enabled, serverVars, cfg, file, link, edits>>

\* OnBnClickedButtonQuit: stop, then save_config, which empties the file when
\* it opens it.
OnQuit ==
    /\ TrayWorks
    /\ Stop
    /\ cfg' = Configured(cfg, fields)
    /\ quitting' \in {"opened", "not opened"}
    /\ file' = IF quitting' = "opened" THEN <<>> ELSE file
    /\ UNCHANGED <<process, boxes, window, fields, link, edits>>

\* CDialog::EndDialog ends a loop that runs, when it comes round, and hides the
\* window.  In OnInitDialog there is no loop to end.
EndDialog ==
    IF process = "loop" /\ boxes = <<>>
    THEN Gone
    ELSE /\ process' = IF process = "loop" THEN "over" ELSE process
         /\ window' = [window EXCEPT !.visible = FALSE]
         /\ quitting' = "no"
         /\ UNCHANGED <<boxes, fields, enabled, serverVars, cfg, edits>>

\* A write that fails leaves the file empty; nobody is told.
FinishQuit ==
    /\ quitting # "no"
    /\ file' \in IF quitting = "opened" THEN {<<>>, SaveObjectToString(cfg)} ELSE {file}
    /\ EndDialog
    /\ UNCHANGED link

-----------------------------------------------------------------------------
(* The window, which takes input unless a box is up.                        *)

WindowWorks ==
    process = "loop" /\ boxes = <<>> /\ window.visible /\ quitting = "no"

\* The buttons do what the tray's menu does, when they are enabled.
OnButtonStart == WindowWorks /\ enabled.start /\ TrayStart

OnButtonStop == WindowWorks /\ enabled.stop /\ TrayStop

\* OnBnClickedOk and OnClose.
OnOk == WindowWorks /\ HideDlg

\* Escape is IDCANCEL, which CDialog handles: the program ends, unsaved.
Escape ==
    /\ WindowWorks
    /\ Gone
    /\ UNCHANGED <<file, link>>

OnAbout ==
    /\ WindowWorks
    /\ boxes' = <<"about">>
    /\ UNCHANGED <<process, quitting, window, fields, enabled, serverVars, cfg, file, link, edits>>

Edit ==
    /\ WindowWorks
    /\ edits < MaxEdits
    /\ edits' = edits + 1
    /\ UNCHANGED <<process, quitting, boxes, window, started, srv, cfg, file>>

EditText ==
    /\ Edit
    /\ \/ enabled.ip /\ \E t \in IpText : fields' = [fields EXCEPT !.ip = t]
       \/ enabled.port /\ \E t \in TypedPort : fields' = [fields EXCEPT !.port = t]
       \/ enabled.pwd /\ \E t \in Password : fields' = [fields EXCEPT !.pwd = t]
    /\ UNCHANGED <<enabled, toggled, link>>

\* The box enables the address field, whether the server is started or not.
OnCheckManualIp ==
    /\ Edit
    /\ fields' = [fields EXCEPT !.manual = ~@]
    /\ enabled' = [enabled EXCEPT !.ip = fields'.manual]
    /\ toggled' = started
    /\ UNCHANGED link

\* CreateShortCut and DeleteShortCut may fail; nobody is told.
OnCheckAutorun ==
    /\ Edit
    /\ fields' = [fields EXCEPT !.autorun = ~@]
    /\ link' \in {link, fields'.autorun}
    /\ UNCHANGED <<enabled, toggled>>

-----------------------------------------------------------------------------
\* OnInitDialog returns: Windows shows the window (it may not, after an
\* EndDialog), and OnBnClickedOk hides it unless m_is_hide says it is hidden.
ReturnFromInit ==
    /\ process' = "loop"
    /\ window' \in {Hidden, [hide |-> TRUE, visible |-> window.hide]}
    /\ UNCHANGED <<quitting, fields, enabled, serverVars, cfg, edits>>

\* Mutant: the loop runs on after the box.
DismissBoxForgetting ==
    /\ boxes # <<>> /\ quitting = "no"
    /\ boxes' = Front(boxes)
    /\ process' = "loop"
    /\ UNCHANGED <<quitting, window, fields, enabled, serverVars, cfg, file, link, edits>>

\* The top box is closed, and its handler returns.
DismissBox ==
    /\ boxes # <<>> /\ quitting = "no"
    /\ IF Len(boxes) = 1 /\ process = "over" THEN Gone
       ELSE /\ boxes' = Front(boxes)
            /\ IF Len(boxes) = 1 /\ process = "init" THEN ReturnFromInit
               ELSE UNCHANGED <<process, quitting, window, fields, enabled, serverVars, cfg, edits>>
    /\ UNCHANGED <<file, link>>

Init ==
    /\ process = "dead" /\ quitting = "no"
    /\ boxes = <<>> /\ window = NoWindow
    /\ fields = Blank0 /\ enabled = EnabledAtFirst(Blank0)
    /\ started = FALSE /\ srv = NoServer /\ toggled = FALSE
    /\ cfg = <<>> /\ file = NoFile /\ link = FALSE /\ edits = 0

Tray == TrayStart \/ TrayStop \/ ShowDlg \/ HideDlg \/ OnQuit \/ FinishQuit

Window == OnButtonStart \/ OnButtonStop \/ OnOk \/ Escape \/ OnAbout
          \/ EditText \/ OnCheckManualIp \/ OnCheckAutorun

Next == Launch \/ LaunchWithoutTray \/ Crash \/ Tray \/ Window \/ DismissBox

Spec == Init /\ [][Next]_dialogVars

-----------------------------------------------------------------------------
(* Properties.                                                              *)

TypeOK ==
    /\ process \in {"dead", "init", "loop", "over", "lost"}
    /\ quitting \in {"no", "opened", "not opened"}
    /\ boxes \in Seq({"failed", "about"})
    /\ window \in [hide : BOOLEAN, visible : BOOLEAN]
    /\ fields \in Fields
    /\ enabled \in [ip : BOOLEAN, port : BOOLEAN, pwd : BOOLEAN, start : BOOLEAN, stop : BOOLEAN]
    /\ started \in BOOLEAN
    /\ srv \in [open : BOOLEAN, ip : IpText, port : 0 .. UShort - 1, pwd : Password]
    /\ toggled \in BOOLEAN /\ link \in BOOLEAN
    /\ edits \in 0 .. MaxEdits

\* What the window tells of the server is so, under boxes and across failed
\* starts: the buttons and the fields that take input say whether it runs; its
\* password and port are those shown, and so is its address unless the
\* manual-IP box was used since.
ShowsWhatIsServed ==
    /\ started = srv.open /\ enabled.stop = started
    /\ enabled.start = ~started /\ enabled.port = ~started /\ enabled.pwd = ~started
    /\ enabled.ip => fields.manual
    /\ ~started => enabled.ip = fields.manual
    /\ started =>
        /\ srv.pwd = fields.pwd
        /\ srv.port = Number[fields.port] % UShort
        /\ toggled \/ srv.ip = IF fields.manual THEN fields.ip ELSE AnyIp

\* The dialog is a user of the server socket as ServerService takes it: it
\* creates one only while there is none, whatever the tray's menu does under a
\* box, and no server outlives its process.
Service == INSTANCE ServerService WITH
    Peer <- {}, NoPassword <- <<>>, Char <- {}, Strokes <- <<>>, Traffic <- {},
    MaxRequests <- 0,
    srv <- [open |-> srv.open, pwd |-> srv.pwd, output |-> <<>>, notices |-> 0],
    held <- {}, asked <- <<>>, answered <- <<>>

ServerLifecycle == Service!ServerSpec

\* The file's nine lines for the fields f: a name of a section, and settings,
\* each a key, "=" and a value, or a key alone, and a blank.
Header(c) == <<"[", c, "]">>

SettingLine(k, v) == <<k, "=">> \o Append(v, Blank)

LineOf(k, v) == IF v = <<>> THEN <<k, Blank>> ELSE SettingLine(k, v)

TextOf(f) ==
    << Header("Server"), LineOf("IP", <<f.ip>>), LineOf("Port", PortString(f.port)),
       LineOf("Password", f.pwd), <<>>,
       Header("Misc"), LineOf("Auto Run", Flag(f.autorun)), LineOf("Manual IP", Flag(f.manual)), <<>> >>

\* A password comes back whole unless a tag cuts it, a blank begins or ends it,
\* or its last word of several is a single character.
Remembered(p) ==
    p = <<>> \/ /\ ~Contains(p, Tag)
                /\ p[1] # Blank /\ p[Len(p)] # Blank
                /\ Len(p) = 1 \/ p[Len(p) - 1] # Blank

\* The password's line, "Password=", the text and a blank, is one the loader
\* reads.
Fits(p) == Len(p) + 3 < MaxLine

\* What a launch shows of what was saved: the address always; the port as a
\* signed number of 32 bits; an empty port hides all that follows it in the
\* file, an empty password or one too long for a line the two boxes.
ComesBack(saved, shown) ==
    /\ shown.ip = saved.ip
    /\ shown.port = IF saved.port = NoText THEN DefaultPort ELSE PortShown[saved.port]
    /\ IF saved.port = NoText \/ ~Fits(saved.pwd) THEN shown.pwd = <<>>
       ELSE shown.pwd = saved.pwd <=> Remembered(saved.pwd)
    /\ LET boxesRead == saved.port # NoText /\ saved.pwd # <<>> /\ Fits(saved.pwd)
       IN  /\ shown.autorun = (saved.autorun /\ boxesRead)
           /\ shown.manual = (saved.manual /\ boxesRead)

\* A file saved whole is shown again, with an address inet_addr reads; one that
\* is missing, or was emptied and not written, shows the defaults.
SettingsComeBack ==
    [][process = "dead" /\ process' \in {"init", "loop"} =>
        IF file \in {NoFile, <<>>} THEN fields' = FieldsOf(<<>>)
        ELSE \E f \in Fields :
                f.ip # NoneIp /\ file = TextOf(f) /\ ComesBack(f, fields')]_dialogVars

\* A change of the file empties it or makes it what the window shows, whatever
\* was in it, and however much of that could be read; but an address inet_addr
\* does not read is saved as none.
SavedAsShown ==
    [][file' # file =>
        \/ file' = <<>>
        \/ fields.ip # NoneIp /\ file' = TextOf(fields)
        \/ fields.ip = NoneIp /\ file' = TextOf([fields EXCEPT !.ip = AnyIp])]_dialogVars

\* A quit ends the program, at once or when the boxes over it are closed, unless
\* it was given while the first start was still failing; a program that is over
\* does not come back.
QuitEndsProgram ==
    [][ /\ quitting # "no" /\ quitting' = "no" => process' \in {"dead", "over"} \/ process = "init"
        /\ process = "over" => process' \in {"dead", "over"}]_dialogVars
=============================================================================
