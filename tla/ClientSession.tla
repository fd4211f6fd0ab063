---------------------------- MODULE ClientSession ----------------------------
(***************************************************************************)
(* ViewController of the iOS client: the one object that owns the UDP       *)
(* session to the computer being controlled.  All of its code runs on the   *)
(* main run loop, so a handler is one step; what interleaves are the        *)
(* handlers: touches, the CFSocket write callback, the reachability         *)
(* notification, background and foreground, and the unloading of its view   *)
(* under memory pressure while a modal view covers it.                      *)
(***************************************************************************)
EXTENDS Naturals, Sequences

CONSTANTS
    Text,               \* what the address field may hold
    EmptyText,          \* the empty field
    Invalid,            \* what is_valid_ip_address answers instead of a text
    ValidIp,            \* ValidIp[t]: the address found in t, or Invalid
    Password,
    EmptyPassword,
    Socket,             \* addresses a CFSocket may have
    NoSocket,
    AssertsEnabled,     \* a Debug build, or a Release build (NDEBUG)
    MaxEvents           \* bound on the events the user makes

ASSUME ConstantAssumption ==
    /\ EmptyText \in Text
    /\ Invalid \notin Text
    /\ ValidIp \in [Text -> Text \cup {Invalid}]
    /\ ValidIp[EmptyText] = Invalid
    /\ \A t \in Text : ValidIp[t] # Invalid => ValidIp[ValidIp[t]] = ValidIp[t]
    /\ EmptyPassword \in Password
    /\ NoSocket \notin Socket
    /\ AssertsEnabled \in BOOLEAN
    /\ MaxEvents \in Nat

VARIABLES
    net,                \* the session's ivars and the sockets the process holds
    backup,             \* backup_outlist
    isSavedContext,     \* is_saved_context
    currentPwd,         \* current_pwd
    ipText, pwdText,    \* the two text fields
    isAlerted,          \* isAlerted
    screen,             \* what UIKit shows
    config,             \* config.plist
    wifi,               \* what currentReachabilityStatus answers
    note,               \* a reachability notification is on its way
    app,                \* process state
    touching,           \* a finger went down on the modal view's controls
    posted,             \* events made so far
    wire,               \* datagrams handed to the kernel
    fault               \* why the process died, if it did

fields  == <<ipText, pwdText>>
context == <<backup, isSavedContext, currentPwd>>
output  == <<posted, wire, fault>>
vars == <<net, backup, isSavedContext, currentPwd, ipText, pwdText, isAlerted,
          screen, config, wifi, note, app, touching, posted, wire, fault>>

ControlView == {"mouse", "keyboard"}
View == ControlView \cup {"shortcuts", "main"}

\* An event datagram: number, the peer it was typed for, the password in it.
Tag == [peer : Text, pwd : Password]
Message == [id : Nat, tag : Tag]

-----------------------------------------------------------------------------
(* Operators on the session: the methods the handlers call.                 *)

ClearOutList(n) == [n EXCEPT !.outlist = <<>>]

\* CFSocketInvalidate and CFRelease of the socket, and the flag.
UninitLocalNetResources(n) ==
    IF ~n.isSeted THEN n
    ELSE ClearOutList([n EXCEPT !.live   = @ \ {n.sock},
                                !.armed  = @ \ {n.sock},
                                !.sock   = NoSocket,
                                !.isSeted = FALSE])

\* A new CFSocket is created with its write callback enabled.
SetupSocket(n, addr, s) ==
    [n EXCEPT !.sock  = s,
              !.peer  = addr,
              !.live  = @ \cup {s},
              !.armed = @ \cup {s}]

\* Resolution and connect may fail; each failure but the first shows an alert.
InitOutcomes(n, field, addr) ==
    IF n.isSeted THEN {[ok |-> FALSE, net |-> n, alert |-> FALSE]}
    ELSE LET cleared == [ClearOutList(n) EXCEPT !.sock = NoSocket]
         IN  {[ok |-> FALSE, net |-> cleared, alert |-> TRUE]} \cup
             (IF field = EmptyText THEN {}
              ELSE {[ok    |-> TRUE,
                     net   |-> [SetupSocket(cleared, addr, s) EXCEPT !.isSeted = TRUE],
                     alert |-> FALSE] : s \in Socket \ n.live})

EnableWriteCallBack(n) == [n EXCEPT !.armed = @ \cup {n.sock}]

-----------------------------------------------------------------------------
(* saveContext and loadContext: the parts of a step that suspend a session  *)
(* and bring it back.                                                       *)

MustSave == ~isSavedContext /\ net.isSeted

SavedNet == IF MustSave THEN UninitLocalNetResources(net) ELSE net

\* Mutant: outlist is copied before uninitLocalNetResources empties it.
SaveContextCopyingFirst ==
    /\ net' = SavedNet
    /\ backup' = IF MustSave THEN net.outlist ELSE backup
    /\ isSavedContext' = (isSavedContext \/ MustSave)
    /\ UNCHANGED currentPwd

SaveContext ==
    /\ net' = SavedNet
    /\ backup' = IF MustSave THEN SavedNet.outlist ELSE backup
    /\ isSavedContext' = (isSavedContext \/ MustSave)
    /\ UNCHANGED currentPwd

\* The session is brought back on whatever the text fields hold now.
Restore(r, shown) ==
    /\ r.ok
    /\ net' = LET n == [r.net EXCEPT !.outlist = backup]
              IN  IF backup # <<>> THEN EnableWriteCallBack(n) ELSE n
    /\ currentPwd' = pwdText
    /\ backup' = <<>>
    /\ screen' = shown
    /\ UNCHANGED touching

GiveUp(r, shown) ==
    /\ ~r.ok
    /\ net' = r.net
    /\ screen' = [shown EXCEPT !.top = "main", !.okAlert = @ \/ r.alert]
    /\ touching' = FALSE
    /\ UNCHANGED <<currentPwd, backup>>

LoadContext(shown) ==
    IF isSavedContext /\ wifi
    THEN /\ \E r \in InitOutcomes(net, ipText, ipText) :
                Restore(r, shown) \/ GiveUp(r, shown)
         /\ isSavedContext' = FALSE
    ELSE screen' = shown /\ UNCHANGED <<net, context, touching>>

-----------------------------------------------------------------------------
(* The life of the process and of the main view.                            *)

NoNet == [isSeted |-> FALSE, sock |-> NoSocket, peer |-> EmptyText,
          live |-> {}, armed |-> {}, outlist |-> <<>>]

NoScreen == [top |-> "main", loaded |-> FALSE, okAlert |-> FALSE, wifiAlerts |-> 0]

\* The process ends; what a later one starts with is in config only.
Die(why) ==
    /\ app' = "dead"
    /\ fault' = why
    /\ net' = NoNet
    /\ screen' = NoScreen
    /\ backup' = <<>>
    /\ isSavedContext' = FALSE
    /\ currentPwd' = EmptyPassword
    /\ ipText' = EmptyText
    /\ pwdText' = EmptyPassword
    /\ isAlerted' = FALSE
    /\ note' = FALSE
    /\ touching' = FALSE
    /\ UNCHANGED <<config, wifi, posted, wire>>

\* In the code's order: the alert (with its saveContext), then the resets of
\* the ivars, then loadConfig.  Sockets the ivars forget stay open.
ViewDidLoad ==
    /\ net' = LET n == IF wifi THEN net ELSE SavedNet
              IN  [n EXCEPT !.isSeted = FALSE, !.sock = NoSocket, !.outlist = <<>>]
    /\ backup' = IF ~wifi /\ MustSave THEN SavedNet.outlist ELSE backup
    /\ isSavedContext' = FALSE
    /\ isAlerted' = ~wifi
    /\ screen' = [screen EXCEPT !.top = "main", !.loaded = TRUE,
                                !.wifiAlerts = @ + IF wifi THEN 0 ELSE 1]
    /\ ipText' = config.ip
    /\ pwdText' = config.pwd
    /\ note' = FALSE
    /\ UNCHANGED currentPwd

Launch ==
    /\ app = "dead"
    /\ app' = "active"
    /\ fault' = "none"
    /\ ViewDidLoad
    /\ UNCHANGED <<config, wifi, touching, posted, wire>>

\* UIKit drops a view that is not on screen; the observers go with it.
ViewDidUnload ==
    /\ app # "dead"
    /\ screen.loaded
    /\ screen.top # "main"
    /\ net' = [net EXCEPT !.isSeted = FALSE, !.sock = NoSocket]
    /\ screen' = [screen EXCEPT !.loaded = FALSE]
    /\ ipText' = EmptyText
    /\ pwdText' = EmptyPassword
    /\ note' = FALSE
    /\ UNCHANGED <<context, isAlerted, config, wifi, app, touching, output>>

\* Mutant: the handler leaves the session as it is.
OnEnterBackgroundKeepingSession ==
    /\ app = "active"
    /\ app' = "background"
    /\ touching' = FALSE
    /\ UNCHANGED <<net, context, fields, isAlerted, screen, config, wifi, note, output>>

OnEnterBackground ==
    /\ app = "active"
    /\ app' = "background"
    /\ touching' = FALSE
    /\ IF screen.loaded THEN SaveContext ELSE UNCHANGED <<net, context>>
    /\ UNCHANGED <<fields, isAlerted, screen, config, wifi, note, output>>

OnEnterForeground ==
    /\ app = "background"
    /\ app' = "active"
    /\ IF screen.loaded
       THEN LoadContext(screen)
       ELSE UNCHANGED <<net, context, screen, touching>>
    /\ UNCHANGED <<fields, isAlerted, config, wifi, note, output>>

KilledInBackground ==
    /\ app = "background"
    /\ Die("none")

-----------------------------------------------------------------------------
(* The network's reachability.                                              *)

WifiChanges ==
    /\ wifi' = ~wifi
    /\ note' = screen.loaded
    /\ UNCHANGED <<net, context, fields, isAlerted, screen, config, app, touching, output>>

DismissWifiAlert ==
    /\ isAlerted
    /\ wifi
    /\ isAlerted' = FALSE
    /\ LoadContext([screen EXCEPT !.wifiAlerts = @ - 1])

ShowWifiAlert ==
    /\ ~isAlerted
    /\ ~wifi
    /\ isAlerted' = TRUE
    /\ SaveContext
    /\ screen' = [screen EXCEPT !.wifiAlerts = @ + 1]
    /\ UNCHANGED touching

\* Mutant: once alerted, the handler returns early.
ReachabilityChangedOnce ==
    /\ app = "active"
    /\ note
    /\ note' = FALSE
    /\ \/ ShowWifiAlert
       \/ (isAlerted \/ wifi) /\ UNCHANGED <<net, context, isAlerted, screen, touching>>
    /\ UNCHANGED <<fields, config, wifi, app, output>>

\* alertLocalWifiReachability: what it does depends on the status now, not on
\* the change that was notified.
ReachabilityChanged ==
    /\ app = "active"
    /\ note
    /\ note' = FALSE
    /\ \/ DismissWifiAlert
       \/ ShowWifiAlert
       \/ isAlerted # wifi /\ UNCHANGED <<net, context, isAlerted, screen, touching>>
    /\ UNCHANGED <<fields, config, wifi, app, output>>

-----------------------------------------------------------------------------
(* The user.  An alert keeps every view from new touches; a finger that is  *)
(* already down goes on moving.                                             *)

Modal == screen.okAlert \/ screen.wifiAlerts > 0

AtMain == app = "active" /\ screen.top = "main" /\ ~Modal

TapOk ==
    /\ app = "active"
    /\ screen.okAlert
    /\ screen' = [screen EXCEPT !.okAlert = FALSE]
    /\ UNCHANGED <<net, context, fields, isAlerted, config, wifi, note, app, touching, output>>

EditFields ==
    /\ AtMain
    /\ \/ ipText' \in Text /\ UNCHANGED pwdText
       \/ pwdText' \in Password /\ UNCHANGED ipText
    /\ UNCHANGED <<net, context, isAlerted, screen, config, wifi, note, app, touching, output>>

\* A row of the discovery table is an address a server answered from.
DidSelectRow ==
    /\ AtMain
    /\ ipText' \in {t \in Text : ValidIp[t] = t}
    /\ UNCHANGED <<net, context, pwdText, isAlerted, screen, config, wifi, note, app,
                   touching, output>>

RejectAddress ==
    /\ ValidIp[ipText] = Invalid
    /\ screen' = [screen EXCEPT !.okAlert = TRUE]
    /\ UNCHANGED <<net, currentPwd, config, ipText>>

Connect ==
    /\ ValidIp[ipText] # Invalid
    /\ ipText' = ValidIp[ipText]
    /\ \E r \in InitOutcomes(UninitLocalNetResources(net), ipText', ipText') :
        /\ net' = r.net
        /\ IF r.ok
           THEN /\ currentPwd' = pwdText
                /\ config' = [ip |-> ipText', pwd |-> pwdText]
                /\ screen' = [screen EXCEPT !.top = "mouse"]
           ELSE /\ screen' = [screen EXCEPT !.okAlert = @ \/ r.alert]
                /\ UNCHANGED <<currentPwd, config>>

SetDestinationAddress ==
    /\ AtMain
    /\ RejectAddress \/ Connect
    /\ UNCHANGED <<backup, isSavedContext, pwdText, isAlerted, wifi, note, app, touching, output>>

\* transToMouseView, transToKeyboardView and transToShortcutsView.
TransToView ==
    /\ AtMain
    /\ net.isSeted
    /\ \E v \in View \ {"main"} : screen' = [screen EXCEPT !.top = v]
    /\ UNCHANGED <<net, context, fields, isAlerted, config, wifi, note, app, touching, output>>

\* Dismissing the modal view loads the main view again if it was dropped.
ReturnToMainFrame ==
    /\ app = "active"
    /\ screen.top # "main"
    /\ ~Modal
    /\ touching' = FALSE
    /\ IF screen.loaded
       THEN /\ screen' = [screen EXCEPT !.top = "main"]
            /\ UNCHANGED <<net, context, fields, isAlerted, note>>
       ELSE ViewDidLoad
    /\ UNCHANGED <<config, wifi, app, output>>

FingerDown ==
    /\ app = "active"
    /\ screen.top \in ControlView
    /\ ~Modal
    /\ ~touching
    /\ touching' = TRUE
    /\ UNCHANGED <<net, context, fields, isAlerted, screen, config, wifi, note, app, output>>

FingerUp ==
    /\ touching
    /\ touching' = FALSE
    /\ UNCHANGED <<net, context, fields, isAlerted, screen, config, wifi, note, app, output>>

NextMessage == [id |-> posted + 1, tag |-> [peer |-> net.peer, pwd |-> currentPwd]]

\* The common body of onMouseEvent and onKeyboardEvent: encode, queue, and
\* enable the write callback of a socket nobody checked.
PostEvent ==
    /\ app = "active"
    /\ ~Modal \/ touching
    /\ posted < MaxEvents
    /\ IF net.sock = NoSocket
       THEN Die("null_socket")
       ELSE /\ net' = EnableWriteCallBack([net EXCEPT !.outlist = Append(@, NextMessage)])
            /\ posted' = posted + 1
            /\ UNCHANGED <<context, fields, isAlerted, screen, config, wifi, note, app,
                           touching, wire, fault>>

OnMouseEvent == screen.top = "mouse" /\ PostEvent

OnKeyboardEvent == screen.top = "keyboard" /\ PostEvent

-----------------------------------------------------------------------------
(* The write callback, disabled by the run loop as it fires.                *)

Disarm(n, s) == [n EXCEPT !.armed = @ \ {s}]

StaleCallback(s) ==
    /\ s # net.sock
    /\ IF AssertsEnabled
       THEN Die("stale_callback")
       ELSE /\ net' = Disarm(net, s)
            /\ UNCHANGED <<context, fields, isAlerted, screen, config, wifi, note, app,
                           touching, output>>

NothingToSend(s) ==
    /\ s = net.sock
    /\ net.outlist = <<>>
    /\ net' = Disarm(net, s)
    /\ UNCHANGED <<screen, touching, wire>>

\* Mutant: one event per event made, the callback is not enabled again.
SendHeadWithoutRearm(s) ==
    /\ s = net.sock
    /\ net.outlist # <<>>
    /\ wire' = Append(wire, Head(net.outlist))
    /\ net' = [Disarm(net, s) EXCEPT !.outlist = Tail(@)]
    /\ UNCHANGED <<screen, touching>>

\* Mutant: the event sent stays at the head.
SendHeadKeepingIt(s) ==
    /\ s = net.sock
    /\ net.outlist # <<>>
    /\ wire' = Append(wire, Head(net.outlist))
    /\ Len(wire) < MaxEvents
    /\ net' = EnableWriteCallBack(Disarm(net, s))
    /\ UNCHANGED <<screen, touching>>

SendHead(s) ==
    /\ s = net.sock
    /\ net.outlist # <<>>
    /\ wire' = Append(wire, Head(net.outlist))
    /\ net' = EnableWriteCallBack([Disarm(net, s) EXCEPT !.outlist = Tail(@)])
    /\ UNCHANGED <<screen, touching>>

\* Mutant: the modal view stays up.
ConnectionLostStaying(s) ==
    /\ s = net.sock
    /\ net.outlist # <<>>
    /\ net' = UninitLocalNetResources(Disarm(net, s))
    /\ screen' = [screen EXCEPT !.okAlert = TRUE]
    /\ touching' = FALSE
    /\ UNCHANGED wire

ConnectionLost(s) ==
    /\ s = net.sock
    /\ net.outlist # <<>>
    /\ net' = UninitLocalNetResources(Disarm(net, s))
    /\ screen' = [screen EXCEPT !.top = "main", !.okAlert = TRUE]
    /\ touching' = FALSE
    /\ UNCHANGED wire

HandleWrite(s) ==
    /\ NothingToSend(s) \/ SendHead(s) \/ ConnectionLost(s)
    /\ UNCHANGED <<context, fields, isAlerted, config, wifi, note, app, posted, fault>>

OnWriteCallback ==
    /\ app = "active"
    /\ \E s \in net.armed : StaleCallback(s) \/ HandleWrite(s)

-----------------------------------------------------------------------------
Init ==
    /\ wifi \in BOOLEAN
    /\ config = [ip |-> EmptyText, pwd |-> EmptyPassword]
    /\ app = "dead"
    /\ fault = "none"
    /\ net = NoNet
    /\ screen = NoScreen
    /\ backup = <<>>
    /\ isSavedContext = FALSE
    /\ currentPwd = EmptyPassword
    /\ ipText = EmptyText
    /\ pwdText = EmptyPassword
    /\ isAlerted = FALSE
    /\ note = FALSE
    /\ touching = FALSE
    /\ posted = 0
    /\ wire = <<>>

System == OnEnterBackground \/ OnEnterForeground \/ KilledInBackground
          \/ ViewDidUnload \/ WifiChanges

User == Launch \/ TapOk \/ EditFields \/ DidSelectRow \/ SetDestinationAddress
        \/ TransToView \/ ReturnToMainFrame \/ FingerDown \/ FingerUp
        \/ OnMouseEvent \/ OnKeyboardEvent

Next == System \/ User \/ ReachabilityChanged \/ OnWriteCallback

Spec == Init /\ [][Next]_vars

\* The run loop of an active process delivers what is pending; nothing else
\* is promised to happen.
Fairness == WF_vars(OnWriteCallback) /\ WF_vars(ReachabilityChanged)

FairSpec == Spec /\ Fairness

-----------------------------------------------------------------------------
(* Properties.                                                              *)

NetState ==
    [isSeted : BOOLEAN, sock : Socket \cup {NoSocket}, peer : Text,
     live : SUBSET Socket, armed : SUBSET Socket, outlist : Seq(Message)]

ScreenState == [top : View, loaded : BOOLEAN, okAlert : BOOLEAN, wifiAlerts : Nat]

TypeOK ==
    /\ net \in NetState
    /\ backup \in Seq(Message)
    /\ isSavedContext \in BOOLEAN
    /\ currentPwd \in Password
    /\ ipText \in Text
    /\ pwdText \in Password
    /\ isAlerted \in BOOLEAN
    /\ screen \in ScreenState
    /\ config \in [ip : Text, pwd : Password]
    /\ wifi \in BOOLEAN
    /\ note \in BOOLEAN
    /\ app \in {"active", "background", "dead"}
    /\ touching \in BOOLEAN
    /\ posted \in Nat
    /\ wire \in Seq(Message)
    /\ fault \in {"none", "null_socket", "stale_callback"}

OwnsSocket(n) ==
    /\ n.isSeted <=> n.sock # NoSocket
    /\ n.isSeted => n.sock \in n.live
    /\ n.armed \subseteq n.live

\* The flag localNetResourcesIsSeted, which every guard reads, tells the truth
\* about sock_handle, which every send uses: they are set together, in
\* initLocalNetResources, and reset together in four other places.
SessionOwnsSocket == OwnsSocket(net)

Armed(n) == n.outlist # <<>> => n.isSeted /\ n.sock \in n.armed

\* While the controller's view is loaded, an event that waits in outlist has
\* the write callback of the session's socket enabled: handle_write sends one
\* event per callback, so a missed re-arm would strand the rest of a burst.
ArmedWhilePending == screen.loaded => Armed(net)

Belongs(n, pwd) ==
    n.isSeted => \A i \in DOMAIN n.outlist :
                    n.outlist[i].tag = [peer |-> n.peer, pwd |-> pwd]

\* An event goes out to the computer it was typed for with the password the
\* session was set up with, however sessions are replaced, suspended, lost
\* and brought back while it waits (outlist is emptied on each such path).
QueueBelongsToSession ==
    /\ Belongs(net, currentPwd)
    /\ backup = <<>>

\* The button-less "Wifi disabled" alert, which blocks the whole interface, is
\* up exactly while Wifi is down, but for a change still to be notified, and
\* the controller never loses its only reference to it.
AlertTracksWifi ==
    screen.loaded =>
        /\ ~note => (isAlerted <=> ~wifi)
        /\ screen.wifiAlerts = IF isAlerted THEN 1 ELSE 0

\* A modal view over a loaded main view has a session, unless the context is
\* saved: every path that drops the session dismisses the view or saves.
ModalViewHasSession ==
    screen.loaded /\ screen.top # "main" => net.isSeted \/ isSavedContext

\* A process in the background keeps no session, unless the user connected
\* anew while the previous context was still saved (then saveContext returns
\* early and the socket stays open).
BackgroundSuspends == app = "background" /\ net.isSeted => isSavedContext

\* The controller never forgets an open socket without closing it, but in
\* viewDidUnload, which clears sock_handle and releases nothing.
NoSilentLeak ==
    [][ (net.sock # NoSocket /\ net'.sock # net.sock /\ net.sock \in net'.live)
          => (screen.loaded /\ ~screen'.loaded) ]_vars

\* The ways to crash on a NULL socket are these and no other: an event made
\* while the context is saved (before Wifi is back, or by a finger already down
\* when it went), or over a main view that was dropped.
NullSocketWindows ==
    [][ fault' = "null_socket" /\ fault # "null_socket"
          => isSavedContext \/ ~screen.loaded ]_vars

\* A queued event is sent or dropped with its session: it never just waits,
\* while the process runs and the main view is loaded.
QueueDrains ==
    net.outlist # <<>> ~> (net.outlist = <<>> \/ ~screen.loaded \/ app # "active")

\* When Wifi is back the alert goes away, unless the process leaves the
\* foreground, Wifi goes again, or the view (with its observer) is dropped.
AlertGoes ==
    (isAlerted /\ wifi) ~>
        (~isAlerted \/ ~wifi \/ ~screen.loaded \/ app # "active")

\* The session is an EventPipe: events leave in order, once, or are forgotten.
Pipe == INSTANCE EventPipe WITH last <- posted, queue <- net.outlist, sent <- wire
PipeSpec == Pipe!Spec
PipeInOrderOnce == Pipe!InOrderOnce

\* The code asserts that a write callback belongs to the socket it holds.
NoStaleCallback == fault # "stale_callback"
=============================================================================
