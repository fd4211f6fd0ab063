------------------------- MODULE ClientSessionProofs -------------------------
(***************************************************************************)
(* Proofs about ClientSession, for all address texts, passwords, sockets    *)
(* and numbers of events.                                                   *)
(***************************************************************************)
EXTENDS ClientSession, TLAPS

\* The inductive invariant.  A dropped view has no session and is notified of
\* nothing (viewDidUnload clears the flag and removes the observers), and a
\* process starts with no alert on the screen.
IInv ==
    /\ TypeOK
    /\ SessionOwnsSocket
    /\ ArmedWhilePending
    /\ QueueBelongsToSession
    /\ AlertTracksWifi
    /\ ModalViewHasSession
    /\ BackgroundSuspends
    /\ ~screen.loaded => ~net.isSeted /\ ~note
    /\ app = "dead" => screen.wifiAlerts = 0 /\ ~screen.loaded
    /\ app # "dead" /\ screen.top = "main" => screen.loaded

-----------------------------------------------------------------------------
(* The methods called by the handlers.                                      *)

(* uninitLocalNetResources leaves no session, closes no socket but the      *)
(* session's, and empties outlist if it did anything.                       *)
LEMMA UninitFacts ==
    ASSUME NEW n \in NetState, OwnsSocket(n)
    PROVE  LET r == UninitLocalNetResources(n)
           IN  /\ r \in NetState
               /\ OwnsSocket(r)
               /\ ~r.isSeted
               /\ n.isSeted => r.outlist = <<>> /\ n.sock \notin r.live
               /\ ~n.isSeted => r = n
<1> USE ConstantAssumption
<1>1. CASE ~n.isSeted
  BY <1>1 DEF UninitLocalNetResources
<1>2. CASE n.isSeted
  <2>1. <<>> \in Seq(Message)
    OBVIOUS
  <2> QED
    BY <1>2, <2>1 DEF UninitLocalNetResources, ClearOutList, NetState, OwnsSocket
<1> QED
  BY <1>1, <1>2

(* initLocalNetResources sets up a session with an empty queue and an armed *)
(* socket, or refuses because there is one, or leaves none.                 *)
LEMMA InitFacts ==
    ASSUME NEW n \in NetState, OwnsSocket(n), NEW field, NEW addr \in Text,
           NEW r \in InitOutcomes(n, field, addr)
    PROVE  /\ r.net \in NetState
           /\ OwnsSocket(r.net)
           /\ r.net.live \subseteq n.live \cup {r.net.sock}
           /\ r.ok \in BOOLEAN
           /\ r.alert \in BOOLEAN
           /\ r.ok => /\ ~n.isSeted
                      /\ r.net.isSeted
                      /\ r.net.outlist = <<>>
                      /\ r.net.sock \in r.net.armed
           /\ ~r.ok => \/ n.isSeted /\ r.net = n
                       \/ ~n.isSeted /\ ~r.net.isSeted /\ r.net.outlist = <<>>
<1> USE ConstantAssumption
<1>1. CASE n.isSeted
  <2>1. r = [ok |-> FALSE, net |-> n, alert |-> FALSE]
    BY <1>1 DEF InitOutcomes
  <2>2. r.ok = FALSE /\ r.net = n /\ r.alert = FALSE
    BY <2>1
  <2> QED
    BY <1>1, <2>2
<1>2. CASE ~n.isSeted
  <2> DEFINE cleared == [ClearOutList(n) EXCEPT !.sock = NoSocket]
  <2>1. /\ cleared \in NetState
        /\ OwnsSocket(cleared)
        /\ ~cleared.isSeted
        /\ cleared.outlist = <<>>
        /\ cleared.live = n.live
    <3>1. <<>> \in Seq(Message)
      OBVIOUS
    <3>2. cleared = [n EXCEPT !.outlist = <<>>, !.sock = NoSocket]
      BY DEF ClearOutList
    <3>3. cleared \in NetState
      BY <3>1, <3>2 DEF NetState
    <3>4. /\ cleared.isSeted = n.isSeted
          /\ cleared.sock = NoSocket
          /\ cleared.outlist = <<>>
          /\ cleared.live = n.live
          /\ cleared.armed = n.armed
      BY <3>2 DEF NetState
    <3> HIDE DEF cleared
    <3> QED
      BY <1>2, <3>3, <3>4 DEF OwnsSocket
  <2>2. ASSUME NEW s \in Socket \ n.live,
               r = [ok    |-> TRUE,
                    net   |-> [SetupSocket(cleared, addr, s) EXCEPT !.isSeted = TRUE],
                    alert |-> FALSE]
        PROVE  /\ r.net \in NetState
               /\ OwnsSocket(r.net)
               /\ r.net.live = n.live \cup {r.net.sock}
               /\ r.ok = TRUE /\ r.alert = FALSE
               /\ r.net.isSeted
               /\ r.net.outlist = <<>>
               /\ r.net.sock \in r.net.armed
    BY <2>1, <2>2 DEF SetupSocket, NetState, OwnsSocket
  <2> HIDE DEF cleared
  <2>3. \/ r = [ok |-> FALSE, net |-> cleared, alert |-> TRUE]
        \/ \E s \in Socket \ n.live :
             r = [ok    |-> TRUE,
                  net   |-> [SetupSocket(cleared, addr, s) EXCEPT !.isSeted = TRUE],
                  alert |-> FALSE]
    BY <1>2 DEF InitOutcomes, cleared
  <2> QED
    <3>1. CASE r = [ok |-> FALSE, net |-> cleared, alert |-> TRUE]
      <4>1. r.ok = FALSE /\ r.net = cleared /\ r.alert = TRUE
        BY <3>1
      <4> QED
        BY <1>2, <2>1, <4>1
    <3>2. CASE r # [ok |-> FALSE, net |-> cleared, alert |-> TRUE]
      BY <1>2, <2>2, <2>3, <3>2
    <3> QED
      BY <3>1, <3>2
<1> QED
  BY <1>1, <1>2

(* Emptying the queue of a session and arming its socket are harmless.      *)
LEMMA EnableFacts ==
    ASSUME NEW n \in NetState, OwnsSocket(n), n.isSeted
    PROVE  LET r == EnableWriteCallBack(n)
           IN  /\ r \in NetState
               /\ OwnsSocket(r)
               /\ r.isSeted
               /\ r.sock = n.sock /\ r.sock \in r.armed
               /\ r.peer = n.peer
               /\ r.outlist = n.outlist
  BY ConstantAssumption DEF EnableWriteCallBack, NetState, OwnsSocket

(* What saveContext and viewDidLoad do to the session.                      *)
LEMMA SavedNetFacts ==
    ASSUME TypeOK, SessionOwnsSocket
    PROVE  /\ SavedNet \in NetState
           /\ OwnsSocket(SavedNet)
           /\ MustSave \in BOOLEAN
           /\ MustSave => /\ SavedNet.outlist = <<>> /\ ~SavedNet.isSeted
                          /\ net.sock \notin SavedNet.live
           /\ ~MustSave => SavedNet = net
<1>1. net \in NetState /\ OwnsSocket(net) /\ isSavedContext \in BOOLEAN /\ net.isSeted \in BOOLEAN
  BY DEF TypeOK, SessionOwnsSocket, NetState
<1>2. MustSave \in BOOLEAN
  BY <1>1 DEF MustSave
<1>3. CASE MustSave
  <2>1. SavedNet = UninitLocalNetResources(net) /\ net.isSeted
    BY <1>3 DEF SavedNet, MustSave
  <2> QED
    BY <1>2, <1>1, <1>3, <2>1, UninitFacts
<1>4. CASE ~MustSave
  <2>1. SavedNet = net
    BY <1>4 DEF SavedNet
  <2> QED
    BY <1>2, <1>1, <1>4, <2>1
<1> QED
  BY <1>3, <1>4

(* saveContext keeps the part of the invariant it can touch.                *)
LEMMA SaveContextFacts ==
    ASSUME IInv, SaveContext
    PROVE  /\ net' \in NetState
           /\ OwnsSocket(net')
           /\ screen.loaded => Armed(net')
           /\ Belongs(net', currentPwd')
           /\ backup' = <<>>
           /\ isSavedContext' \in BOOLEAN
           /\ currentPwd' \in Password
           /\ net'.isSeted => isSavedContext'
           /\ net.isSeted \/ isSavedContext => isSavedContext'
           /\ ~net.isSeted => ~net'.isSeted
           /\ net' = net \/ net.sock \notin net'.live
           /\ net'.outlist \in {net.outlist, <<>>}
<1>1. /\ TypeOK /\ SessionOwnsSocket
      /\ net' = SavedNet /\ currentPwd' = currentPwd
      /\ backup' = IF MustSave THEN SavedNet.outlist ELSE backup
      /\ isSavedContext' = (isSavedContext \/ MustSave)
      /\ backup = <<>>
  BY DEF IInv, SaveContext, QueueBelongsToSession
<1>2. /\ SavedNet \in NetState
      /\ OwnsSocket(SavedNet)
      /\ MustSave \in BOOLEAN
      /\ MustSave => /\ SavedNet.outlist = <<>> /\ ~SavedNet.isSeted
                     /\ net.sock \notin SavedNet.live
      /\ ~MustSave => SavedNet = net
  BY <1>1, SavedNetFacts
<1>3. isSavedContext' \in BOOLEAN /\ currentPwd' \in Password /\ backup' = <<>>
  BY <1>1, <1>2 DEF TypeOK
<1>4. CASE MustSave
  BY <1>1, <1>2, <1>3, <1>4 DEF Armed, Belongs
<1>5. CASE ~MustSave
  <2>1. net.isSeted => isSavedContext
    BY <1>1, <1>5 DEF MustSave
  <2> QED
    BY <1>1, <1>2, <1>3, <1>5, <2>1 DEF IInv, ArmedWhilePending, QueueBelongsToSession
<1> QED
  BY <1>4, <1>5

(* loadContext keeps it as well, on either outcome of the connection.       *)
LEMMA LoadContextFacts ==
    ASSUME IInv, screen.loaded, NEW shown \in ScreenState, shown.top = screen.top,
           LoadContext(shown)
    PROVE  /\ net' \in NetState
           /\ OwnsSocket(net')
           /\ Armed(net')
           /\ Belongs(net', currentPwd')
           /\ backup' = <<>>
           /\ isSavedContext' \in BOOLEAN
           /\ currentPwd' \in Password
           /\ screen' \in ScreenState
           /\ screen'.loaded = shown.loaded
           /\ screen'.wifiAlerts = shown.wifiAlerts
           /\ screen'.top # "main" => net'.isSeted \/ isSavedContext'
           /\ touching' \in BOOLEAN
           /\ net.isSeted => net' = net
           /\ net'.outlist \in {net.outlist, <<>>}
<1>1. /\ net \in NetState /\ OwnsSocket(net) /\ Armed(net) /\ Belongs(net, currentPwd)
      /\ backup = <<>> /\ isSavedContext \in BOOLEAN /\ currentPwd \in Password
      /\ touching \in BOOLEAN /\ ipText \in Text /\ pwdText \in Password
      /\ screen.top # "main" => net.isSeted \/ isSavedContext
  BY DEF IInv, TypeOK, SessionOwnsSocket, ArmedWhilePending, QueueBelongsToSession,
         ModalViewHasSession
<1>2. CASE ~(isSavedContext /\ wifi)
  BY <1>1, <1>2 DEF LoadContext, context
<1>3. CASE isSavedContext /\ wifi
  <2>1. PICK r \in InitOutcomes(net, ipText, ipText) : Restore(r, shown) \/ GiveUp(r, shown)
    BY <1>3 DEF LoadContext
  <2>2. isSavedContext' = FALSE
    BY <1>3 DEF LoadContext
  <2>3. /\ r.net \in NetState
        /\ OwnsSocket(r.net)
        /\ r.ok \in BOOLEAN
        /\ r.alert \in BOOLEAN
        /\ r.ok => /\ ~net.isSeted
                   /\ r.net.isSeted
                   /\ r.net.outlist = <<>>
                   /\ r.net.sock \in r.net.armed
        /\ ~r.ok => \/ net.isSeted /\ r.net = net
                    \/ ~net.isSeted /\ ~r.net.isSeted /\ r.net.outlist = <<>>
    BY <1>1, InitFacts
  <2>4. CASE Restore(r, shown)
    <3>1. net' = [r.net EXCEPT !.outlist = <<>>]
      BY <1>1, <2>4 DEF Restore
    <3>2. net' = r.net
      BY <2>3, <2>4, <3>1 DEF NetState, Restore
    <3> QED
      <4>1. /\ r.net.outlist = <<>> /\ r.net.isSeted
            /\ backup' = <<>> /\ currentPwd' = pwdText
            /\ screen' = shown /\ touching' = touching
        BY <2>3, <2>4 DEF Restore
      <4>2. Armed(net') /\ Belongs(net', currentPwd')
        BY <3>2, <4>1 DEF Armed, Belongs
      <4> QED
        BY <1>1, <2>2, <2>3, <3>2, <4>1, <4>2
  <2>5. CASE GiveUp(r, shown)
    <3>1. /\ screen' \in ScreenState /\ screen'.loaded = shown.loaded
          /\ screen'.wifiAlerts = shown.wifiAlerts /\ screen'.top = "main"
      BY <2>3, <2>5 DEF GiveUp, ScreenState, View
    <3> QED
      BY <1>1, <2>2, <2>3, <2>5, <3>1 DEF GiveUp, Armed, Belongs
  <2> QED
    BY <2>1, <2>4, <2>5
<1> QED
  BY <1>2, <1>3

(* The end of the process re-establishes the invariant.                     *)
LEMMA DieFacts ==
    ASSUME IInv, NEW why \in {"none", "null_socket", "stale_callback"}, Die(why)
    PROVE  IInv'
<1>1. NoNet \in NetState /\ OwnsSocket(NoNet)
  BY ConstantAssumption DEF NoNet, NetState, OwnsSocket
<1>2. NoScreen \in ScreenState /\ ~NoScreen.loaded /\ NoScreen.wifiAlerts = 0
  BY DEF NoScreen, ScreenState, View
<1>3. Belongs(NoNet, EmptyPassword) /\ ~NoNet.isSeted
  BY DEF NoNet, Belongs
<1>4. <<>> \in Seq(Message)
  OBVIOUS
<1>5. TypeOK'
  BY <1>1, <1>2, <1>4, ConstantAssumption DEF Die, IInv, TypeOK
<1> QED
  BY <1>1, <1>2, <1>3, <1>5
  DEF Die, IInv, SessionOwnsSocket, ArmedWhilePending, QueueBelongsToSession,
      AlertTracksWifi, ModalViewHasSession, BackgroundSuspends

(* Loading the view leaves a session unset, no matter what was set before.  *)
LEMMA ViewDidLoadFacts ==
    ASSUME IInv, screen.wifiAlerts = 0, ViewDidLoad
    PROVE  /\ net' \in NetState
           /\ OwnsSocket(net')
           /\ ~net'.isSeted /\ net'.outlist = <<>>
           /\ backup' = <<>>
           /\ isSavedContext' \in BOOLEAN
           /\ currentPwd' \in Password
           /\ isAlerted' \in BOOLEAN
           /\ screen' \in ScreenState
           /\ screen'.loaded
           /\ screen'.top = "main"
           /\ screen'.wifiAlerts = IF isAlerted' THEN 1 ELSE 0
           /\ isAlerted' = ~wifi
           /\ ipText' \in Text
           /\ pwdText' \in Password
           /\ note' \in BOOLEAN
<1> DEFINE n == IF wifi THEN net ELSE SavedNet
<1>1. TypeOK /\ SessionOwnsSocket /\ backup = <<>>
  BY DEF IInv, QueueBelongsToSession
<1>2. n \in NetState /\ OwnsSocket(n)
  BY <1>1, SavedNetFacts DEF TypeOK, SessionOwnsSocket
<1>3. net' = [n EXCEPT !.isSeted = FALSE, !.sock = NoSocket, !.outlist = <<>>]
  BY DEF ViewDidLoad
<1> HIDE DEF n
<1>4. /\ net' \in NetState /\ OwnsSocket(net')
      /\ ~net'.isSeted /\ net'.outlist = <<>>
  <2>1. <<>> \in Seq(Message)
    OBVIOUS
  <2> QED
    BY <1>2, <1>3, <2>1, ConstantAssumption DEF NetState, OwnsSocket
<1>5. backup' = <<>>
  BY <1>1, SavedNetFacts DEF ViewDidLoad
<1>6. /\ screen' \in ScreenState /\ screen'.loaded /\ screen'.top = "main"
      /\ screen'.wifiAlerts = IF isAlerted' THEN 1 ELSE 0
  <2>1. screen \in ScreenState
    BY <1>1 DEF TypeOK
  <2>2. PICK k \in {0, 1} :
          /\ k = IF isAlerted' THEN 1 ELSE 0
          /\ screen' = [screen EXCEPT !.top = "main", !.loaded = TRUE,
                                      !.wifiAlerts = screen.wifiAlerts + k]
    BY DEF ViewDidLoad
  <2>3. screen.wifiAlerts + k \in Nat /\ screen.wifiAlerts + k = k /\ "main" \in View
    BY <2>1 DEF ScreenState, View
  <2> QED
    BY <2>1, <2>2, <2>3 DEF ScreenState
<1> QED
  BY <1>1, <1>4, <1>5, <1>6 DEF ViewDidLoad, TypeOK

-----------------------------------------------------------------------------
(* Every step keeps the inductive invariant.                                *)
LEMMA InitInvariant == Init => IInv
<1> SUFFICES ASSUME Init PROVE IInv
  OBVIOUS
<1>1. NoNet \in NetState /\ OwnsSocket(NoNet)
  BY ConstantAssumption DEF NoNet, NetState, OwnsSocket
<1>2. NoScreen \in ScreenState /\ ~NoScreen.loaded /\ NoScreen.wifiAlerts = 0
  BY DEF NoScreen, ScreenState, View
<1>3. Belongs(NoNet, EmptyPassword) /\ ~NoNet.isSeted
  BY DEF NoNet, Belongs
<1>4. <<>> \in Seq(Message)
  OBVIOUS
<1>5. TypeOK
  BY <1>1, <1>2, <1>4, ConstantAssumption DEF Init, TypeOK
<1> QED
  BY <1>1, <1>2, <1>3, <1>5
  DEF Init, IInv, SessionOwnsSocket, ArmedWhilePending, QueueBelongsToSession,
      AlertTracksWifi, ModalViewHasSession, BackgroundSuspends

LEMMA SystemInvariant == IInv /\ System => IInv'
<1> SUFFICES ASSUME IInv, System PROVE IInv'
  OBVIOUS
<1> USE DEF IInv, SessionOwnsSocket, ArmedWhilePending, QueueBelongsToSession,
            AlertTracksWifi, ModalViewHasSession, BackgroundSuspends
<1>1. CASE OnEnterBackground
  <2>1. CASE screen.loaded
    <3>1. SaveContext
      BY <1>1, <2>1 DEF OnEnterBackground
    <3> QED
      BY <1>1, <2>1, <3>1, SaveContextFacts DEF OnEnterBackground, TypeOK, fields, output
  <2>2. CASE ~screen.loaded
    BY <1>1, <2>2 DEF OnEnterBackground, TypeOK, fields, context, output
  <2> QED
    BY <2>1, <2>2
<1>2. CASE OnEnterForeground
  <2>1. CASE screen.loaded
    <3>1. LoadContext(screen) /\ screen \in ScreenState
      BY <1>2, <2>1 DEF OnEnterForeground, TypeOK
    <3> QED
      BY <1>2, <2>1, <3>1, LoadContextFacts DEF OnEnterForeground, TypeOK, fields, output
  <2>2. CASE ~screen.loaded
    BY <1>2, <2>2 DEF OnEnterForeground, TypeOK, fields, context, output
  <2> QED
    BY <2>1, <2>2
<1>3. CASE KilledInBackground
  BY <1>3, DieFacts DEF KilledInBackground
<1>4. CASE ViewDidUnload
  <2>1. /\ net' \in NetState /\ OwnsSocket(net') /\ ~net'.isSeted
    BY <1>4, ConstantAssumption DEF ViewDidUnload, TypeOK, NetState, OwnsSocket
  <2>2. /\ screen' \in ScreenState /\ ~screen'.loaded /\ screen'.top # "main"
        /\ app' # "dead" /\ note' = FALSE
    BY <1>4 DEF ViewDidUnload, TypeOK, ScreenState
  <2> QED
    BY <1>4, <2>1, <2>2, ConstantAssumption
    DEF ViewDidUnload, TypeOK, context, output, Belongs
<1>5. CASE WifiChanges
  <2>1. note' \in BOOLEAN /\ wifi' \in BOOLEAN
    BY <1>5 DEF WifiChanges, TypeOK, ScreenState
  <2> QED
    BY <1>5, <2>1 DEF WifiChanges, TypeOK, fields, context, output
<1> QED
  BY <1>1, <1>2, <1>3, <1>4, <1>5 DEF System

LEMMA ReachabilityInvariant == IInv /\ ReachabilityChanged => IInv'
<1> SUFFICES ASSUME IInv, ReachabilityChanged PROVE IInv'
  OBVIOUS
<1>1. /\ note' = FALSE /\ app = "active"
      /\ UNCHANGED <<ipText, pwdText, config, wifi, app, posted, wire, fault>>
  BY DEF ReachabilityChanged, fields, output
<1>2. /\ screen.loaded /\ screen \in ScreenState
      /\ screen.wifiAlerts = IF isAlerted THEN 1 ELSE 0
      /\ isAlerted \in BOOLEAN /\ wifi \in BOOLEAN
  BY DEF ReachabilityChanged, IInv, AlertTracksWifi, TypeOK, ScreenState
<1>3. CASE DismissWifiAlert
  <2> DEFINE shown == [screen EXCEPT !.wifiAlerts = screen.wifiAlerts - 1]
  <2>1. isAlerted /\ wifi /\ isAlerted' = FALSE /\ LoadContext(shown)
    BY <1>3 DEF DismissWifiAlert
  <2>2. screen.wifiAlerts - 1 = 0
    BY <1>2, <2>1
  <2>3. /\ shown \in ScreenState /\ shown.loaded /\ shown.wifiAlerts = 0
        /\ shown.top = screen.top
    BY <1>2, <2>2 DEF ScreenState
  <2> HIDE DEF shown
  <2>4. LoadContext(shown) => /\ net' \in NetState
                              /\ OwnsSocket(net')
                              /\ Armed(net')
                              /\ Belongs(net', currentPwd')
                              /\ backup' = <<>>
                              /\ isSavedContext' \in BOOLEAN
                              /\ currentPwd' \in Password
                              /\ screen' \in ScreenState
                              /\ screen'.loaded = shown.loaded
                              /\ screen'.wifiAlerts = shown.wifiAlerts
                              /\ screen'.top # "main" => net'.isSeted \/ isSavedContext'
                              /\ touching' \in BOOLEAN
    BY <1>2, <2>3, LoadContextFacts
  <2>5. TypeOK'
    <3>1. <<>> \in Seq(Message)
      OBVIOUS
    <3> QED
      BY <1>1, <1>2, <2>1, <2>3, <2>4, <3>1 DEF IInv, TypeOK
  <2>6. AlertTracksWifi'
    BY <1>1, <1>2, <2>1, <2>3, <2>4 DEF AlertTracksWifi
  <2> QED
    BY <1>1, <1>2, <2>1, <2>3, <2>4, <2>5, <2>6
    DEF IInv, SessionOwnsSocket, ArmedWhilePending, QueueBelongsToSession,
        ModalViewHasSession, BackgroundSuspends
<1>4. CASE ShowWifiAlert
  <2>1. /\ ~isAlerted /\ ~wifi /\ isAlerted' = TRUE /\ SaveContext /\ touching' = touching
        /\ screen' = [screen EXCEPT !.wifiAlerts = screen.wifiAlerts + 1]
    BY <1>4 DEF ShowWifiAlert
  <2>2. screen.wifiAlerts + 1 = 1
    BY <1>2, <2>1
  <2>3. /\ screen' \in ScreenState /\ screen'.loaded /\ screen'.wifiAlerts = 1
        /\ screen'.top = screen.top
    BY <1>2, <2>1, <2>2 DEF ScreenState
  <2> QED
    BY <1>1, <1>2, <2>1, <2>3, SaveContextFacts
    DEF IInv, TypeOK, SessionOwnsSocket, ArmedWhilePending, QueueBelongsToSession,
        AlertTracksWifi, ModalViewHasSession, BackgroundSuspends
<1>5. CASE isAlerted # wifi /\ UNCHANGED <<net, context, isAlerted, screen, touching>>
  <2>1. isAlerted' <=> ~wifi'
    BY <1>1, <1>2, <1>5
  <2> QED
    BY <1>1, <1>2, <1>5, <2>1
    DEF IInv, TypeOK, SessionOwnsSocket, ArmedWhilePending, QueueBelongsToSession,
        AlertTracksWifi, ModalViewHasSession, BackgroundSuspends, context
<1> QED
  BY <1>3, <1>4, <1>5 DEF ReachabilityChanged

LEMMA LaunchInvariant == IInv /\ Launch => IInv'
<1> SUFFICES ASSUME IInv, Launch PROVE IInv'
  OBVIOUS
<1>1. screen.wifiAlerts = 0 /\ ViewDidLoad
  BY DEF IInv, Launch
<1>2. /\ app' = "active" /\ fault' = "none"
      /\ UNCHANGED <<config, wifi, touching, posted, wire>>
  BY DEF Launch
<1>3. TypeOK'
  <2>1. <<>> \in Seq(Message)
    OBVIOUS
  <2> QED
    BY <1>1, <1>2, <2>1, ViewDidLoadFacts DEF IInv, TypeOK
<1>4. Armed(net') /\ Belongs(net', currentPwd')
  BY <1>1, ViewDidLoadFacts DEF Armed, Belongs
<1>5. AlertTracksWifi'
  BY <1>1, <1>2, ViewDidLoadFacts DEF AlertTracksWifi
<1> QED
  BY <1>1, <1>2, <1>3, <1>4, <1>5, ViewDidLoadFacts
  DEF IInv, SessionOwnsSocket, ArmedWhilePending, QueueBelongsToSession,
      ModalViewHasSession, BackgroundSuspends

LEMMA ReturnInvariant == IInv /\ ReturnToMainFrame => IInv'
<1> SUFFICES ASSUME IInv, ReturnToMainFrame PROVE IInv'
  OBVIOUS
<1>1. /\ app = "active" /\ app' = app /\ touching' = FALSE
      /\ UNCHANGED <<config, wifi, posted, wire, fault>>
  BY DEF ReturnToMainFrame, output
<1>2. screen \in ScreenState
  BY DEF IInv, TypeOK
<1>3. CASE screen.loaded
  <2>1. /\ screen' = [screen EXCEPT !.top = "main"]
        /\ UNCHANGED <<net, context, fields, isAlerted, note>>
    BY <1>3 DEF ReturnToMainFrame
  <2>2. /\ screen' \in ScreenState /\ screen'.loaded = screen.loaded
        /\ screen'.wifiAlerts = screen.wifiAlerts /\ screen'.top = "main"
    BY <1>2, <2>1 DEF ScreenState, View
  <2> QED
    BY <1>1, <1>3, <2>1, <2>2
    DEF IInv, TypeOK, SessionOwnsSocket, ArmedWhilePending, QueueBelongsToSession,
        AlertTracksWifi, ModalViewHasSession, BackgroundSuspends, context, fields
<1>4. CASE ~screen.loaded
  <2>1. ViewDidLoad /\ screen.wifiAlerts = 0
    BY <1>2, <1>4 DEF ReturnToMainFrame, Modal, ScreenState
  <2>2. TypeOK'
    <3>1. <<>> \in Seq(Message)
      OBVIOUS
    <3> QED
      BY <1>1, <2>1, <3>1, ViewDidLoadFacts DEF IInv, TypeOK
  <2>3. Armed(net') /\ Belongs(net', currentPwd')
    BY <2>1, ViewDidLoadFacts DEF Armed, Belongs
  <2>4. AlertTracksWifi'
    BY <1>1, <2>1, ViewDidLoadFacts DEF AlertTracksWifi
  <2> QED
    BY <1>1, <2>1, <2>2, <2>3, <2>4, ViewDidLoadFacts
    DEF IInv, SessionOwnsSocket, ArmedWhilePending, QueueBelongsToSession,
        ModalViewHasSession, BackgroundSuspends
<1> QED
  BY <1>3, <1>4

LEMMA ConnectInvariant == IInv /\ SetDestinationAddress => IInv'
<1> SUFFICES ASSUME IInv, SetDestinationAddress PROVE IInv'
  OBVIOUS
<1>1. /\ app = "active" /\ app' = app
      /\ UNCHANGED <<backup, isSavedContext, pwdText, isAlerted, wifi, note, touching,
                     posted, wire, fault>>
  BY DEF SetDestinationAddress, AtMain, output
<1>2. /\ screen \in ScreenState /\ screen.top = "main" /\ config \in [ip : Text, pwd : Password]
      /\ ipText \in Text /\ pwdText \in Password /\ currentPwd \in Password
      /\ net \in NetState /\ OwnsSocket(net)
  BY DEF IInv, TypeOK, SetDestinationAddress, AtMain, SessionOwnsSocket
<1>3. CASE RejectAddress
  <2>1. /\ screen' \in ScreenState /\ screen'.loaded = screen.loaded
        /\ screen'.wifiAlerts = screen.wifiAlerts /\ screen'.top = "main"
    BY <1>2, <1>3 DEF RejectAddress, ScreenState
  <2> QED
    BY <1>1, <1>2, <1>3, <2>1
    DEF RejectAddress, IInv, TypeOK, SessionOwnsSocket, ArmedWhilePending,
        QueueBelongsToSession, AlertTracksWifi, ModalViewHasSession, BackgroundSuspends
<1>4. CASE Connect
  <2>1. ipText' \in Text
    BY <1>2, <1>4, ConstantAssumption DEF Connect
  <2> DEFINE n == UninitLocalNetResources(net)
  <2>2. n \in NetState /\ OwnsSocket(n) /\ ~n.isSeted
    BY <1>2, UninitFacts
  <2>3. PICK r \in InitOutcomes(n, ipText', ipText') :
          /\ net' = r.net
          /\ IF r.ok
             THEN /\ currentPwd' = pwdText
                  /\ config' = [ip |-> ipText', pwd |-> pwdText]
                  /\ screen' = [screen EXCEPT !.top = "mouse"]
             ELSE /\ screen' = [screen EXCEPT !.okAlert = @ \/ r.alert]
                  /\ UNCHANGED <<currentPwd, config>>
    BY <1>4 DEF Connect
  <2> HIDE DEF n
  <2>4. /\ net' \in NetState /\ OwnsSocket(net')
        /\ r.ok \in BOOLEAN /\ r.alert \in BOOLEAN
        /\ net'.outlist = <<>>
        /\ r.ok => net'.isSeted
    BY <2>1, <2>2, <2>3, InitFacts
  <2>5. Armed(net') /\ Belongs(net', currentPwd')
    BY <2>4 DEF Armed, Belongs
  <2>6. currentPwd' \in Password /\ config' \in [ip : Text, pwd : Password]
    BY <1>2, <2>1, <2>3
  <2>7. /\ screen' \in ScreenState /\ screen'.loaded = screen.loaded
        /\ screen'.wifiAlerts = screen.wifiAlerts
        /\ screen'.top # "main" => net'.isSeted
    BY <1>2, <2>3, <2>4 DEF ScreenState, View, ControlView
  <2>8. screen.loaded
    BY <1>2 DEF SetDestinationAddress, AtMain, IInv, TypeOK
  <2> QED
    BY <1>1, <1>2, <2>1, <2>4, <2>5, <2>6, <2>7, <2>8
    DEF IInv, TypeOK, SessionOwnsSocket, ArmedWhilePending,
        QueueBelongsToSession, AlertTracksWifi, ModalViewHasSession, BackgroundSuspends
<1> QED
  BY <1>3, <1>4 DEF SetDestinationAddress

(* An event that finds a socket joins the queue of the session it is for.   *)
LEMMA PostInvariant == IInv /\ PostEvent => IInv'
<1> SUFFICES ASSUME IInv, PostEvent PROVE IInv'
  OBVIOUS
<1>1. CASE net.sock = NoSocket
  BY <1>1, DieFacts DEF PostEvent
<1>2. CASE net.sock # NoSocket
  <2> DEFINE n == [net EXCEPT !.outlist = Append(net.outlist, NextMessage)]
  <2>1. /\ net \in NetState /\ OwnsSocket(net) /\ net.isSeted /\ Belongs(net, currentPwd)
        /\ posted \in Nat /\ currentPwd \in Password
    BY <1>2 DEF IInv, TypeOK, SessionOwnsSocket, OwnsSocket, QueueBelongsToSession
  <2>2. /\ net' = EnableWriteCallBack(n)
        /\ posted' = posted + 1
        /\ UNCHANGED <<context, fields, isAlerted, screen, config, wifi, note, app,
                       touching, wire, fault>>
    BY <1>2 DEF PostEvent
  <2>3. NextMessage \in Message /\ NextMessage.tag = [peer |-> net.peer, pwd |-> currentPwd]
    BY <2>1 DEF NextMessage, Message, Tag, NetState
  <2>4. net.outlist \in Seq(Message) /\ Append(net.outlist, NextMessage) \in Seq(Message)
    BY <2>1, <2>3 DEF NetState
  <2>5. /\ n \in NetState /\ OwnsSocket(n) /\ n.isSeted
        /\ n.peer = net.peer
        /\ n.outlist = Append(net.outlist, NextMessage)
    BY <2>1, <2>4 DEF NetState, OwnsSocket
  <2> HIDE DEF n
  <2>6. /\ net' \in NetState /\ OwnsSocket(net') /\ net'.isSeted
        /\ net'.sock \in net'.armed /\ net'.peer = net.peer
        /\ net'.outlist = Append(net.outlist, NextMessage)
    BY <2>2, <2>5, EnableFacts
  <2>7. Belongs(net', currentPwd')
    <3>1. currentPwd' = currentPwd
      BY <2>2 DEF context
    <3>2. \A i \in DOMAIN net.outlist :
             net.outlist[i].tag = [peer |-> net.peer, pwd |-> currentPwd]
      BY <2>1 DEF Belongs
    <3>3. \A i \in DOMAIN net'.outlist :
             net'.outlist[i] \in {NextMessage} \cup {net.outlist[j] : j \in DOMAIN net.outlist}
      BY <2>4, <2>6
    <3> QED
      BY <2>3, <2>6, <3>1, <3>2, <3>3 DEF Belongs
  <2>8. Armed(net')
    BY <2>6 DEF Armed
  <2>9. posted' \in Nat
    BY <2>1, <2>2
  <2> QED
    BY <2>1, <2>2, <2>6, <2>7, <2>8, <2>9
    DEF IInv, TypeOK, SessionOwnsSocket, ArmedWhilePending, QueueBelongsToSession,
        AlertTracksWifi, ModalViewHasSession, BackgroundSuspends, context, fields
<1> QED
  BY <1>1, <1>2

LEMMA UserInvariant == IInv /\ User => IInv'
<1> SUFFICES ASSUME IInv, User PROVE IInv'
  OBVIOUS
<1> USE DEF IInv, TypeOK, SessionOwnsSocket, ArmedWhilePending, QueueBelongsToSession,
            AlertTracksWifi, ModalViewHasSession, BackgroundSuspends
<1>1. CASE TapOk
  <2>1. /\ screen' \in ScreenState /\ screen'.loaded = screen.loaded
        /\ screen'.wifiAlerts = screen.wifiAlerts /\ screen'.top = screen.top
    BY <1>1 DEF TapOk, ScreenState
  <2> QED
    BY <1>1, <2>1 DEF TapOk, context, fields, output
<1>2. CASE EditFields
  BY <1>2 DEF EditFields, context, fields, output
<1>3. CASE DidSelectRow
  BY <1>3 DEF DidSelectRow, context, fields, output
<1>4. CASE TransToView
  <2>1. /\ screen' \in ScreenState /\ screen'.loaded = screen.loaded
        /\ screen'.wifiAlerts = screen.wifiAlerts /\ net.isSeted
        /\ screen'.loaded
    BY <1>4 DEF TransToView, AtMain, ScreenState, View
  <2> QED
    BY <1>4, <2>1 DEF TransToView, context, fields, output
<1>5. CASE FingerDown
  BY <1>5 DEF FingerDown, context, fields, output
<1>6. CASE FingerUp
  BY <1>6 DEF FingerUp, context, fields, output
<1> QED
  BY <1>1, <1>2, <1>3, <1>4, <1>5, <1>6, LaunchInvariant, ReturnInvariant, ConnectInvariant,
     PostInvariant
  DEF User, OnMouseEvent, OnKeyboardEvent

(* The write callback, of the session's socket or of a leaked one.          *)
LEMMA WriteInvariant == IInv /\ OnWriteCallback => IInv'
<1> SUFFICES ASSUME IInv, OnWriteCallback PROVE IInv'
  OBVIOUS
<1>1. PICK s \in net.armed : StaleCallback(s) \/ HandleWrite(s)
  BY DEF OnWriteCallback
<1>2. /\ net \in NetState /\ OwnsSocket(net) /\ Belongs(net, currentPwd)
      /\ app = "active" /\ s \in Socket /\ s # NoSocket
      /\ screen \in ScreenState
  BY ConstantAssumption
  DEF IInv, TypeOK, NetState, SessionOwnsSocket, QueueBelongsToSession, OnWriteCallback
<1> DEFINE n == Disarm(net, s)
<1>3. /\ n \in NetState /\ OwnsSocket(n) /\ Belongs(n, currentPwd)
      /\ n.isSeted = net.isSeted /\ n.sock = net.sock /\ n.peer = net.peer
      /\ n.outlist = net.outlist
      /\ s # net.sock => (net.sock \in n.armed <=> net.sock \in net.armed)
  BY <1>2 DEF Disarm, NetState, OwnsSocket, Belongs
<1> HIDE DEF n
<1>4. CASE StaleCallback(s)
  <2>1. CASE AssertsEnabled
    BY <1>4, <2>1, DieFacts DEF StaleCallback
  <2>2. CASE ~AssertsEnabled
    <3>1. /\ net' = n /\ s # net.sock
          /\ UNCHANGED <<context, fields, isAlerted, screen, config, wifi, note, app,
                         touching, output>>
      BY <1>4, <2>2 DEF StaleCallback, n
    <3> QED
      BY <1>3, <3>1
      DEF IInv, TypeOK, SessionOwnsSocket, ArmedWhilePending, Armed, QueueBelongsToSession,
          AlertTracksWifi, ModalViewHasSession, BackgroundSuspends, context, fields, output
  <2> QED
    BY <2>1, <2>2
<1>5. CASE HandleWrite(s)
  <2>1. /\ UNCHANGED <<context, fields, isAlerted, config, wifi, note, app, posted, fault>>
        /\ NothingToSend(s) \/ SendHead(s) \/ ConnectionLost(s)
    BY <1>5 DEF HandleWrite
  <2>2. s = net.sock /\ net.isSeted /\ screen.loaded
    BY <1>2, <2>1
    DEF NothingToSend, SendHead, ConnectionLost, OwnsSocket, IInv
  <2>3. CASE NothingToSend(s)
    <3>1. net' = n /\ net'.outlist = <<>> /\ UNCHANGED <<screen, touching, wire>>
      BY <1>3, <2>3 DEF NothingToSend, n
    <3> QED
      BY <1>3, <2>1, <3>1
      DEF IInv, TypeOK, SessionOwnsSocket, ArmedWhilePending, Armed, QueueBelongsToSession,
          AlertTracksWifi, ModalViewHasSession, BackgroundSuspends, context, fields
  <2>4. CASE SendHead(s)
    <3> DEFINE m == [n EXCEPT !.outlist = Tail(net.outlist)]
    <3>1. /\ net' = EnableWriteCallBack(m)
          /\ wire' = Append(wire, Head(net.outlist))
          /\ net.outlist # <<>>
          /\ UNCHANGED <<screen, touching>>
      BY <1>3, <2>4 DEF SendHead, n
    <3>2. /\ net.outlist \in Seq(Message)
          /\ Head(net.outlist) \in Message /\ Tail(net.outlist) \in Seq(Message)
      BY <1>2, <3>1 DEF NetState
    <3>3. /\ m \in NetState /\ OwnsSocket(m) /\ m.isSeted
          /\ m.peer = net.peer /\ m.outlist = Tail(net.outlist)
      BY <1>3, <2>2, <3>2 DEF NetState, OwnsSocket
    <3> HIDE DEF m
    <3>4. /\ net' \in NetState /\ OwnsSocket(net') /\ net'.isSeted
          /\ net'.sock \in net'.armed /\ net'.peer = net.peer
          /\ net'.outlist = Tail(net.outlist)
      BY <3>1, <3>3, EnableFacts
    <3>5. Belongs(net', currentPwd')
      <4>1. currentPwd' = currentPwd
        BY <2>1 DEF context
      <4>2. \A i \in DOMAIN net'.outlist :
               net'.outlist[i] \in {net.outlist[j] : j \in DOMAIN net.outlist}
        BY <3>1, <3>2, <3>4
      <4> QED
        BY <1>2, <2>2, <3>4, <4>1, <4>2 DEF Belongs
    <3>6. Armed(net')
      BY <3>4 DEF Armed
    <3>7. wire' \in Seq(Message)
      BY <3>1, <3>2 DEF IInv, TypeOK
    <3> QED
      BY <2>1, <2>2, <3>1, <3>4, <3>5, <3>6, <3>7
      DEF IInv, TypeOK, SessionOwnsSocket, ArmedWhilePending, QueueBelongsToSession,
          AlertTracksWifi, ModalViewHasSession, BackgroundSuspends, context, fields
  <2>5. CASE ConnectionLost(s)
    <3>1. /\ net' = UninitLocalNetResources(n)
          /\ screen' = [screen EXCEPT !.top = "main", !.okAlert = TRUE]
          /\ touching' = FALSE /\ wire' = wire
      BY <2>5 DEF ConnectionLost, n
    <3>2. /\ net' \in NetState /\ OwnsSocket(net') /\ ~net'.isSeted /\ net'.outlist = <<>>
      BY <1>3, <2>2, <3>1, UninitFacts
    <3>3. /\ screen' \in ScreenState /\ screen'.loaded /\ screen'.top = "main"
          /\ screen'.wifiAlerts = screen.wifiAlerts
      BY <1>2, <2>2, <3>1 DEF ScreenState, View
    <3>4. Armed(net') /\ Belongs(net', currentPwd')
      BY <3>2 DEF Armed, Belongs
    <3> QED
      BY <1>2, <2>1, <2>2, <3>1, <3>2, <3>3, <3>4
      DEF IInv, TypeOK, SessionOwnsSocket, ArmedWhilePending, QueueBelongsToSession,
          AlertTracksWifi, ModalViewHasSession, BackgroundSuspends, context, fields
  <2> QED
    BY <2>1, <2>3, <2>4, <2>5
<1> QED
  BY <1>1, <1>4, <1>5

-----------------------------------------------------------------------------
(* The inductive invariant holds in every reachable state.                  *)
THEOREM Invariant == Spec => []IInv
<1>1. IInv /\ [Next]_vars => IInv'
  <2> SUFFICES ASSUME IInv, [Next]_vars PROVE IInv'
    OBVIOUS
  <2>1. CASE Next
    BY <2>1, SystemInvariant, UserInvariant, ReachabilityInvariant, WriteInvariant DEF Next
  <2>2. CASE UNCHANGED vars
    BY <2>2
    DEF vars, IInv, TypeOK, SessionOwnsSocket, ArmedWhilePending, QueueBelongsToSession,
        AlertTracksWifi, ModalViewHasSession, BackgroundSuspends
  <2> QED
    BY <2>1, <2>2
<1> QED
  BY <1>1, InitInvariant, PTL DEF Spec

(* The types of the controller's state, of the screen and of the network.   *)
THEOREM TypeCorrect == Spec => []TypeOK
  BY Invariant, PTL DEF IInv

(* localNetResourcesIsSeted and sock_handle always agree.                    *)
THEOREM SessionAndSocketAgree == Spec => []SessionOwnsSocket
  BY Invariant, PTL DEF IInv

(* No queued event is without an armed write callback.                      *)
THEOREM PendingIsArmed == Spec => []ArmedWhilePending
  BY Invariant, PTL DEF IInv

(* No event reaches a computer, or carries a password, it was not made for. *)
THEOREM QueueIsOfSession == Spec => []QueueBelongsToSession
  BY Invariant, PTL DEF IInv

(* The blocking Wifi alert follows Wifi.                                    *)
THEOREM AlertIsRight == Spec => []AlertTracksWifi
  BY Invariant, PTL DEF IInv

(* A modal view over a loaded main view has a session or a saved context.   *)
THEOREM ModalViewIsBacked == Spec => []ModalViewHasSession
  BY Invariant, PTL DEF IInv

(* No session outlives the move to the background, but one made while the   *)
(* context was saved.                                                       *)
THEOREM BackgroundIsSuspended == Spec => []BackgroundSuspends
  BY Invariant, PTL DEF IInv

-----------------------------------------------------------------------------
(* What a step does to the events and to the socket, apart from making an   *)
(* event and from a write callback: it keeps the queue or empties it, and   *)
(* forgets a socket only by closing it or in viewDidUnload.                 *)
KeepsOrForgets ==
    /\ posted' = posted
    /\ wire' = wire
    /\ net'.outlist \in {net.outlist, <<>>}

Forgets(s) == s # NoSocket /\ net'.sock # s /\ s \in net'.live

LEMMA DieStep ==
    ASSUME NEW why, Die(why)
    PROVE  KeepsOrForgets /\ ~Forgets(net.sock)
  BY DEF Die, NoNet, KeepsOrForgets, Forgets

LEMMA SystemStep ==
    ASSUME IInv, System \/ ReachabilityChanged
    PROVE  /\ KeepsOrForgets
           /\ Forgets(net.sock) => screen.loaded /\ ~screen'.loaded
           /\ fault' = fault \/ fault' = "none"
<1> USE DEF KeepsOrForgets, Forgets, context, fields, output
<1>1. CASE OnEnterBackground
  BY <1>1, SaveContextFacts DEF OnEnterBackground
<1>2. ASSUME NEW shown \in ScreenState, shown.top = screen.top, LoadContext(shown),
             screen.loaded, UNCHANGED output
      PROVE  KeepsOrForgets /\ ~Forgets(net.sock)
  <2>1. /\ net'.outlist \in {net.outlist, <<>>}
        /\ net.isSeted => net' = net
    BY <1>2, LoadContextFacts
  <2>2. ~net.isSeted => net.sock = NoSocket
    BY DEF IInv, SessionOwnsSocket, OwnsSocket
  <2> QED
    BY <1>2, <2>1, <2>2
<1>3. CASE OnEnterForeground
  <2>1. screen \in ScreenState
    BY DEF IInv, TypeOK
  <2> QED
    BY <1>2, <1>3, <2>1 DEF OnEnterForeground
<1>4. CASE KilledInBackground
  BY <1>4, DieStep DEF KilledInBackground, Die
<1>5. CASE ViewDidUnload
  <2>1. net'.outlist = net.outlist /\ screen.loaded /\ ~screen'.loaded
    BY <1>5 DEF ViewDidUnload, IInv, TypeOK, NetState, ScreenState
  <2> QED
    BY <1>5, <2>1 DEF ViewDidUnload
<1>6. CASE WifiChanges
  BY <1>6 DEF WifiChanges
<1>7. CASE ReachabilityChanged
  <2>1. UNCHANGED output /\ screen.loaded /\ screen \in ScreenState
    BY <1>7 DEF ReachabilityChanged, IInv, TypeOK
  <2>2. CASE DismissWifiAlert
    <3> DEFINE shown == [screen EXCEPT !.wifiAlerts = screen.wifiAlerts - 1]
    <3>1. isAlerted /\ LoadContext(shown)
      BY <2>2 DEF DismissWifiAlert
    <3>2. screen.wifiAlerts = 1
      BY <2>1, <3>1 DEF IInv, AlertTracksWifi
    <3>3. shown \in ScreenState /\ shown.top = screen.top
      BY <2>1, <3>2 DEF ScreenState
    <3> HIDE DEF shown
    <3> QED
      BY <1>2, <2>1, <3>1, <3>3
  <2>3. CASE ShowWifiAlert
    BY <2>1, <2>3, SaveContextFacts DEF ShowWifiAlert
  <2>4. CASE isAlerted # wifi /\ UNCHANGED <<net, context, isAlerted, screen, touching>>
    BY <2>1, <2>4
  <2> QED
    BY <1>7, <2>2, <2>3, <2>4 DEF ReachabilityChanged
<1> QED
  BY <1>1, <1>3, <1>4, <1>5, <1>6, <1>7 DEF System

LEMMA UserStep ==
    ASSUME IInv, User, ~OnMouseEvent, ~OnKeyboardEvent
    PROVE  /\ KeepsOrForgets
           /\ ~Forgets(net.sock)
           /\ fault' = fault \/ fault' = "none"
<1> USE DEF KeepsOrForgets, Forgets, context, fields, output
<1>1. ASSUME ViewDidLoad, ~screen.loaded, screen.wifiAlerts = 0, posted' = posted, wire' = wire
      PROVE  KeepsOrForgets /\ ~Forgets(net.sock)
  <2>1. net'.outlist = <<>>
    BY <1>1, ViewDidLoadFacts
  <2>2. net.sock = NoSocket
    BY <1>1 DEF IInv, SessionOwnsSocket, OwnsSocket
  <2> QED
    BY <1>1, <2>1, <2>2
<1>2. CASE Launch
  BY <1>1, <1>2 DEF Launch, IInv
<1>3. CASE ReturnToMainFrame
  <2>1. screen.loaded \/ screen.wifiAlerts = 0
    BY <1>3 DEF ReturnToMainFrame, Modal, IInv, TypeOK, ScreenState
  <2> QED
    BY <1>1, <1>3, <2>1 DEF ReturnToMainFrame
<1>4. CASE SetDestinationAddress
  <2>1. /\ posted' = posted /\ wire' = wire /\ fault' = fault
        /\ RejectAddress \/ Connect
    BY <1>4 DEF SetDestinationAddress
  <2>2. CASE RejectAddress
    BY <2>1, <2>2 DEF RejectAddress
  <2>3. CASE Connect
    <3> DEFINE n == UninitLocalNetResources(net)
    <3>1. net \in NetState /\ OwnsSocket(net) /\ ipText' \in Text
      BY <2>3, ConstantAssumption DEF IInv, TypeOK, SessionOwnsSocket, Connect
    <3>2. /\ n \in NetState /\ OwnsSocket(n) /\ ~n.isSeted
          /\ net.isSeted => net.sock \notin n.live
      BY <3>1, UninitFacts
    <3>3. PICK r \in InitOutcomes(n, ipText', ipText') : net' = r.net
      BY <2>3 DEF Connect
    <3> HIDE DEF n
    <3>4. /\ net'.outlist = <<>>
          /\ net'.live \subseteq n.live \cup {net'.sock}
      BY <3>1, <3>2, <3>3, InitFacts
    <3>5. net.sock # NoSocket => net.isSeted
      BY <3>1 DEF OwnsSocket
    <3> QED
      BY <2>1, <3>2, <3>4, <3>5
  <2> QED
    BY <2>1, <2>2, <2>3
<1>5. CASE TapOk \/ EditFields \/ DidSelectRow \/ TransToView \/ FingerDown \/ FingerUp
  BY <1>5 DEF TapOk, EditFields, DidSelectRow, TransToView, FingerDown, FingerUp
<1> QED
  BY <1>2, <1>3, <1>4, <1>5 DEF User

LEMMA PostStep ==
    ASSUME IInv, PostEvent
    PROVE  /\ ~Forgets(net.sock)
           /\ \/ KeepsOrForgets
              \/ /\ posted' = posted + 1
                 /\ wire' = wire
                 /\ net'.outlist = Append(net.outlist, NextMessage)
                 /\ NextMessage.tag \in Tag
                 /\ fault' = fault
           /\ fault' = fault \/ net.sock = NoSocket
<1>1. CASE net.sock = NoSocket
  BY <1>1, DieStep DEF PostEvent
<1>2. CASE net.sock # NoSocket
  <2>1. /\ net' = EnableWriteCallBack([net EXCEPT !.outlist = Append(net.outlist, NextMessage)])
        /\ posted' = posted + 1 /\ wire' = wire /\ fault' = fault
    BY <1>2 DEF PostEvent
  <2>2. net \in NetState
    BY DEF IInv, TypeOK
  <2>3. net'.outlist = Append(net.outlist, NextMessage) /\ net'.sock = net.sock
    BY <2>1, <2>2 DEF EnableWriteCallBack, NetState
  <2>4. NextMessage.tag \in Tag
    BY <2>2 DEF IInv, TypeOK, NextMessage, Tag, NetState
  <2> QED
    BY <2>1, <2>3, <2>4 DEF Forgets
<1> QED
  BY <1>1, <1>2

LEMMA WriteStep ==
    ASSUME IInv, OnWriteCallback
    PROVE  /\ ~Forgets(net.sock)
           /\ \/ KeepsOrForgets
              \/ /\ net.outlist # <<>>
                 /\ wire' = Append(wire, Head(net.outlist))
                 /\ net'.outlist = Tail(net.outlist)
                 /\ posted' = posted
           /\ fault' = fault \/ fault' = "stale_callback"
<1>1. PICK s \in net.armed : StaleCallback(s) \/ HandleWrite(s)
  BY DEF OnWriteCallback
<1>2. net \in NetState /\ OwnsSocket(net) /\ s \in Socket /\ s # NoSocket
  BY <1>1, ConstantAssumption DEF IInv, TypeOK, NetState, SessionOwnsSocket
<1> DEFINE n == Disarm(net, s)
<1>3. /\ n \in NetState /\ OwnsSocket(n)
      /\ n.isSeted = net.isSeted /\ n.sock = net.sock /\ n.outlist = net.outlist
      /\ n.live = net.live
  BY <1>2 DEF Disarm, NetState, OwnsSocket
<1> HIDE DEF n
<1>4. CASE StaleCallback(s)
  <2>1. CASE AssertsEnabled
    BY <1>4, <2>1, DieStep DEF StaleCallback, Die
  <2>2. CASE ~AssertsEnabled
    BY <1>3, <1>4, <2>2 DEF StaleCallback, KeepsOrForgets, Forgets, output, n
  <2> QED
    BY <2>1, <2>2
<1>5. CASE HandleWrite(s)
  <2>1. posted' = posted /\ fault' = fault
    BY <1>5 DEF HandleWrite
  <2>2. CASE NothingToSend(s)
    BY <1>3, <2>1, <2>2 DEF NothingToSend, KeepsOrForgets, Forgets, n
  <2>3. CASE SendHead(s)
    <3> DEFINE m == [n EXCEPT !.outlist = Tail(net.outlist)]
    <3>1. /\ net' = EnableWriteCallBack(m)
          /\ wire' = Append(wire, Head(net.outlist))
          /\ net.outlist # <<>>
      BY <1>3, <2>3 DEF SendHead, n
    <3>2. net'.outlist = Tail(net.outlist) /\ net'.sock = net.sock
      BY <1>3, <3>1 DEF EnableWriteCallBack, NetState
    <3> QED
      BY <2>1, <3>1, <3>2 DEF Forgets
  <2>4. CASE ConnectionLost(s)
    <3>1. net' = UninitLocalNetResources(n) /\ wire' = wire /\ net.sock = s
      BY <2>4 DEF ConnectionLost, n
    <3>2. net.isSeted
      BY <1>2, <3>1 DEF OwnsSocket
    <3>3. net'.outlist = <<>> /\ net.sock \notin net'.live
      BY <1>3, <3>1, <3>2, UninitFacts
    <3> QED
      BY <2>1, <3>1, <3>3 DEF KeepsOrForgets, Forgets
  <2> QED
    BY <1>5, <2>2, <2>3, <2>4 DEF HandleWrite
<1> QED
  BY <1>1, <1>4, <1>5

-----------------------------------------------------------------------------
(* Only viewDidUnload leaks a socket.                                       *)
THEOREM OnlyUnloadLeaks == Spec => NoSilentLeak
<1>1. IInv /\ [Next]_vars =>
        [ (net.sock # NoSocket /\ net'.sock # net.sock /\ net.sock \in net'.live)
           => (screen.loaded /\ ~screen'.loaded) ]_vars
  <2> SUFFICES ASSUME IInv, Next
               PROVE  Forgets(net.sock) => screen.loaded /\ ~screen'.loaded
    BY DEF Forgets
  <2> QED
    BY SystemStep, UserStep, PostStep, WriteStep DEF Next, OnMouseEvent, OnKeyboardEvent
<1> QED
  BY <1>1, Invariant, PTL DEF Spec, NoSilentLeak

(* A NULL socket is used only while a context is saved or the view dropped. *)
THEOREM NullSocketOnlyInWindows == Spec => NullSocketWindows
<1>1. IInv /\ [Next]_vars =>
        [ fault' = "null_socket" /\ fault # "null_socket"
            => isSavedContext \/ ~screen.loaded ]_vars
  <2> SUFFICES ASSUME IInv, Next, fault' = "null_socket", fault # "null_socket"
               PROVE  isSavedContext \/ ~screen.loaded
    OBVIOUS
  <2>1. OnMouseEvent \/ OnKeyboardEvent
    BY SystemStep, UserStep, WriteStep DEF Next
  <2>2. PostEvent /\ screen.top # "main"
    BY <2>1 DEF OnMouseEvent, OnKeyboardEvent
  <2>3. net.sock = NoSocket
    BY <2>2, PostStep
  <2> QED
    BY <2>2, <2>3 DEF IInv, ModalViewHasSession, SessionOwnsSocket, OwnsSocket
<1> QED
  BY <1>1, Invariant, PTL DEF Spec, NullSocketWindows

-----------------------------------------------------------------------------
(* The session implements the event pipe: each of its steps accepts one     *)
(* event, sends the oldest one, forgets all of them, or does nothing.       *)
THEOREM SessionIsPipe == Spec => PipeSpec
<1>1. Init => Pipe!Init
  BY DEF Init, Pipe!Init, NoNet
<1>2. IInv /\ [Next]_vars => [Pipe!Next]_<<posted, net.outlist, wire>>
  <2> SUFFICES ASSUME IInv, [Next]_vars
               PROVE  Pipe!Next \/ UNCHANGED <<posted, net.outlist, wire>>
    OBVIOUS
  <2>1. ASSUME KeepsOrForgets
        PROVE  Pipe!Next \/ UNCHANGED <<posted, net.outlist, wire>>
    BY <2>1 DEF KeepsOrForgets, Pipe!Next, Pipe!Forget
  <2>2. CASE OnMouseEvent \/ OnKeyboardEvent
    <3>1. PostEvent
      BY <2>2 DEF OnMouseEvent, OnKeyboardEvent
    <3>2. CASE /\ posted' = posted + 1
               /\ wire' = wire
               /\ net'.outlist = Append(net.outlist, NextMessage)
               /\ NextMessage.tag \in Tag
      <4>1. NextMessage = [id |-> posted + 1, tag |-> NextMessage.tag]
        BY DEF NextMessage
      <4>2. Pipe!Accept
        BY <3>2, <4>1 DEF Pipe!Accept
      <4> QED
        BY <4>2 DEF Pipe!Next
    <3> QED
      BY <2>1, <3>1, <3>2, PostStep
  <2>3. CASE OnWriteCallback
    <3>1. CASE /\ net.outlist # <<>>
               /\ wire' = Append(wire, Head(net.outlist))
               /\ net'.outlist = Tail(net.outlist)
               /\ posted' = posted
      BY <3>1 DEF Pipe!Transmit, Pipe!Next
    <3> QED
      BY <2>1, <2>3, <3>1, WriteStep
  <2>4. CASE System \/ ReachabilityChanged
    BY <2>1, <2>4, SystemStep
  <2>5. CASE User /\ ~OnMouseEvent /\ ~OnKeyboardEvent
    BY <2>1, <2>5, UserStep
  <2>6. CASE UNCHANGED vars
    BY <2>6 DEF vars
  <2> QED
    BY <2>2, <2>3, <2>4, <2>5, <2>6 DEF Next
<1> QED
  BY <1>1, <1>2, Invariant, PTL DEF Spec, PipeSpec, Pipe!Spec, Pipe!pipeVars

(* The state of a pipe is well formed, whatever is accepted, sent or       *)
(* forgotten.                                                              *)
THEOREM PipeTypeCorrect == PipeSpec => []Pipe!TypeOK
<1>1. Pipe!Init => Pipe!TypeOK
  BY DEF Pipe!Init, Pipe!TypeOK
<1>2. Pipe!TypeOK /\ [Pipe!Next]_<<posted, net.outlist, wire>> => Pipe!TypeOK'
  <2> SUFFICES ASSUME Pipe!TypeOK, [Pipe!Next]_<<posted, net.outlist, wire>>
               PROVE  Pipe!TypeOK'
    OBVIOUS
  <2>1. CASE Pipe!Accept
    <3>1. PICK t \in Tag : net'.outlist = Append(net.outlist, [id |-> posted + 1, tag |-> t])
      BY <2>1 DEF Pipe!Accept
    <3>2. [id |-> posted + 1, tag |-> t] \in Pipe!Event
      BY DEF Pipe!TypeOK, Pipe!Event
    <3> QED
      BY <2>1, <3>1, <3>2 DEF Pipe!Accept, Pipe!TypeOK
  <2>2. CASE Pipe!Transmit
    <3>1. Head(net.outlist) \in Pipe!Event /\ Tail(net.outlist) \in Seq(Pipe!Event)
      BY <2>2 DEF Pipe!Transmit, Pipe!TypeOK
    <3> QED
      BY <2>2, <3>1 DEF Pipe!Transmit, Pipe!TypeOK
  <2>3. CASE Pipe!Forget
    BY <2>3 DEF Pipe!Forget, Pipe!TypeOK
  <2>4. CASE UNCHANGED <<posted, net.outlist, wire>>
    BY <2>4 DEF Pipe!TypeOK
  <2> QED
    BY <2>1, <2>2, <2>3, <2>4 DEF Pipe!Next
<1> QED
  BY <1>1, <1>2, PTL DEF PipeSpec, Pipe!Spec, Pipe!pipeVars

(* Every element of a sequence of events has a number.                      *)
LEMMA EventNumbers ==
    ASSUME NEW s \in Seq(Pipe!Event)
    PROVE  \A i \in DOMAIN s : s[i].id \in Nat
<1>1. \A i \in DOMAIN s : s[i] \in Pipe!Event
  OBVIOUS
<1> QED
  BY <1>1 DEF Pipe!Event

(* Events leave the pipe in the order they entered it, each at most once:   *)
(* what is sent or forgotten never comes back.                              *)
THEOREM PipeInOrder == PipeSpec => []Pipe!InOrderOnce
<1>1. Pipe!Init => Pipe!InOrderOnce
  BY DEF Pipe!Init, Pipe!InOrderOnce, Pipe!Ascending
<1>2. Pipe!TypeOK /\ Pipe!InOrderOnce /\ [Pipe!Next]_<<posted, net.outlist, wire>> => Pipe!InOrderOnce'
  <2> SUFFICES ASSUME Pipe!TypeOK, Pipe!InOrderOnce, [Pipe!Next]_<<posted, net.outlist, wire>>
               PROVE  Pipe!InOrderOnce'
    OBVIOUS
  <2>1. CASE Pipe!Accept
    <3>1. PICK t \in Tag : net'.outlist = Append(net.outlist, [id |-> posted + 1, tag |-> t])
      BY <2>1 DEF Pipe!Accept
    <3>2. /\ Len(net'.outlist) = Len(net.outlist) + 1
          /\ \A i \in DOMAIN net.outlist : net'.outlist[i] = net.outlist[i]
          /\ net'.outlist[Len(net.outlist) + 1].id = posted + 1
          /\ DOMAIN net'.outlist = 1 .. Len(net.outlist) + 1
          /\ DOMAIN net.outlist = 1 .. Len(net.outlist)
      BY <3>1 DEF Pipe!TypeOK
    <3>3. \A i \in DOMAIN net.outlist : net.outlist[i].id \in Nat
      BY EventNumbers DEF Pipe!TypeOK
    <3>4. \A i \in DOMAIN wire : wire[i].id \in Nat
      BY EventNumbers DEF Pipe!TypeOK
    <3>5. posted' = posted + 1 /\ wire' = wire /\ posted \in Nat /\ Len(net.outlist) \in Nat
      BY <2>1 DEF Pipe!Accept, Pipe!TypeOK
    <3>6. \A j \in DOMAIN net'.outlist : j \in DOMAIN net.outlist \/ j = Len(net.outlist) + 1
      BY <3>2, <3>5
    <3>7. \A i, j \in DOMAIN net.outlist : i < j => net.outlist[i].id < net.outlist[j].id
      BY DEF Pipe!InOrderOnce, Pipe!Ascending
    <3>8. \A j \in DOMAIN net.outlist : net'.outlist[j] = net.outlist[j] /\ net.outlist[j].id <= posted
      BY <3>2 DEF Pipe!InOrderOnce
    <3>9. Pipe!Ascending(net.outlist)'
      <4> SUFFICES ASSUME NEW i \in DOMAIN net'.outlist, NEW j \in DOMAIN net'.outlist, i < j
                   PROVE  net'.outlist[i].id < net'.outlist[j].id
        BY DEF Pipe!Ascending
      <4>1. i \in DOMAIN net.outlist
        BY <3>2, <3>5
      <4>2. net'.outlist[i] = net.outlist[i]
        BY <4>1, <3>2
      <4>3. CASE j \in DOMAIN net.outlist
        <5>1. net'.outlist[j] = net.outlist[j] /\ net.outlist[i].id < net.outlist[j].id
          BY <4>1, <4>3, <3>2, <3>7
        <5> QED
          BY <4>2, <5>1
      <4>4. CASE j = Len(net.outlist) + 1
        <5>1. net'.outlist[j].id = posted + 1
          BY <4>4, <3>2
        <5>2. net.outlist[i].id <= posted /\ net.outlist[i].id \in Nat
          BY <4>1, <3>3, <3>8
        <5> QED
          BY <4>2, <5>1, <5>2, <3>5
      <4> QED
        BY <4>3, <4>4, <3>6
    <3>10. \A i \in DOMAIN net'.outlist : net'.outlist[i].id <= posted'
      BY <3>2, <3>3, <3>5, <3>6, <3>8
    <3>11. \A i \in DOMAIN wire', j \in DOMAIN net'.outlist : wire'[i].id < net'.outlist[j].id
      <4>1. \A i \in DOMAIN wire, j \in DOMAIN net.outlist : wire[i].id < net.outlist[j].id
        BY DEF Pipe!InOrderOnce
      <4>2. \A i \in DOMAIN wire : wire[i].id <= posted
        BY DEF Pipe!InOrderOnce
      <4> SUFFICES ASSUME NEW i \in DOMAIN wire, NEW j \in DOMAIN net'.outlist
                   PROVE  wire[i].id < net'.outlist[j].id
        BY <3>5
      <4>3. CASE j \in DOMAIN net.outlist
        <5>1. net'.outlist[j] = net.outlist[j]
          BY <4>3, <3>2
        <5> QED
          BY <4>1, <4>3, <5>1
      <4>4. CASE j = Len(net.outlist) + 1
        <5>1. net'.outlist[j].id = posted + 1
          BY <4>4, <3>2
        <5>2. wire[i].id <= posted /\ wire[i].id \in Nat
          BY <4>2, <3>4
        <5> QED
          BY <5>1, <5>2, <3>5
      <4> QED
        BY <4>3, <4>4, <3>6
    <3>12. \A i \in DOMAIN wire' : wire'[i].id <= posted'
      BY <3>4, <3>5 DEF Pipe!InOrderOnce
    <3>13. Pipe!Ascending(wire)'
      BY <3>5 DEF Pipe!InOrderOnce, Pipe!Ascending
    <3> QED
      BY <3>9, <3>10, <3>11, <3>12, <3>13 DEF Pipe!InOrderOnce
  <2>2. CASE Pipe!Transmit
    <3>1. /\ Len(net.outlist) \in Nat \ {0}
          /\ Len(net'.outlist) = Len(net.outlist) - 1
          /\ \A i \in 1 .. Len(net.outlist) - 1 : net'.outlist[i] = net.outlist[i + 1]
          /\ DOMAIN net'.outlist = 1 .. Len(net.outlist) - 1
          /\ DOMAIN net.outlist = 1 .. Len(net.outlist)
      BY <2>2 DEF Pipe!Transmit, Pipe!TypeOK
    <3>2. /\ Len(wire) \in Nat
          /\ \A i \in DOMAIN wire : wire'[i] = wire[i]
          /\ wire'[Len(wire) + 1] = net.outlist[1]
          /\ DOMAIN wire' = 1 .. Len(wire) + 1
          /\ DOMAIN wire = 1 .. Len(wire)
      BY <2>2 DEF Pipe!Transmit, Pipe!TypeOK
    <3>3. \A i \in DOMAIN net.outlist : net.outlist[i].id \in Nat
      BY EventNumbers DEF Pipe!TypeOK
    <3>4. \A i \in DOMAIN wire : wire[i].id \in Nat
      BY EventNumbers DEF Pipe!TypeOK
    <3>5. posted' = posted /\ posted \in Nat
      BY <2>2 DEF Pipe!Transmit, Pipe!TypeOK
    <3>6. Pipe!Ascending(wire)'
      BY <3>1, <3>2, <3>3, <3>4 DEF Pipe!InOrderOnce, Pipe!Ascending
    <3>7. \A i \in DOMAIN net'.outlist :
            i \in Nat /\ i > 0 /\ i + 1 \in DOMAIN net.outlist /\ net'.outlist[i].id = net.outlist[i + 1].id
      BY <3>1
    <3>8. \A i, j \in DOMAIN net.outlist : i < j => net.outlist[i].id < net.outlist[j].id
      BY DEF Pipe!InOrderOnce, Pipe!Ascending
    <3>9. Pipe!Ascending(net.outlist)'
      <4> SUFFICES ASSUME NEW i \in DOMAIN net'.outlist, NEW j \in DOMAIN net'.outlist, i < j
                   PROVE  net'.outlist[i].id < net'.outlist[j].id
        BY DEF Pipe!Ascending
      <4>1. i + 1 < j + 1
        BY <3>7
      <4> QED
        BY <4>1, <3>7, <3>8
    <3>10. \A i \in DOMAIN wire', j \in DOMAIN net'.outlist : wire'[i].id < net'.outlist[j].id
      <4> SUFFICES ASSUME NEW i \in DOMAIN wire', NEW j \in DOMAIN net'.outlist
                   PROVE  wire'[i].id < net'.outlist[j].id
        OBVIOUS
      <4>1. CASE i = Len(wire) + 1
        <5>1. 1 \in DOMAIN net.outlist /\ 1 < j + 1
          BY <3>1, <3>7
        <5> QED
          BY <4>1, <5>1, <3>2, <3>7, <3>8
      <4>2. CASE i \in DOMAIN wire
        BY <4>2, <3>2, <3>7 DEF Pipe!InOrderOnce
      <4> QED
        BY <4>1, <4>2, <3>2
    <3>11. \A i \in DOMAIN wire' : wire'[i].id <= posted'
      BY <3>1, <3>2, <3>5 DEF Pipe!InOrderOnce
    <3>12. \A i \in DOMAIN net'.outlist : net'.outlist[i].id <= posted'
      BY <3>7, <3>5 DEF Pipe!InOrderOnce
    <3> QED
      BY <3>6, <3>9, <3>10, <3>11, <3>12 DEF Pipe!InOrderOnce
  <2>3. CASE Pipe!Forget
    BY <2>3 DEF Pipe!Forget, Pipe!InOrderOnce, Pipe!Ascending
  <2>4. CASE UNCHANGED <<posted, net.outlist, wire>>
    BY <2>4 DEF Pipe!InOrderOnce, Pipe!Ascending
  <2> QED
    BY <2>1, <2>2, <2>3, <2>4 DEF Pipe!Next
<1> QED
  BY <1>1, <1>2, PipeTypeCorrect, PTL DEF PipeSpec, Pipe!Spec, Pipe!pipeVars

(* So events leave the phone in order, at most once.                        *)
THEOREM EventsInOrderOnce == Spec => []PipeInOrderOnce
BY PipeInOrder, SessionIsPipe, PTL DEF PipeInOrderOnce

=============================================================================
