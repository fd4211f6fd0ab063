------------------------------ MODULE Discovery ------------------------------
(***************************************************************************)
(* DiscoveryViewDataSource of the iOS client: the sweep that asks every     *)
(* address of a range for a computer to control, one datagram for each tick *)
(* of a timer, and the list it fills from the answers.                      *)
(*                                                                          *)
(* A data source belongs to the discovery view of the main view, but its    *)
(* timer retains it too: a view dropped while a sweep runs leaves an orphan *)
(* behind.  All handlers run on the main run loop, one at a time.           *)
(***************************************************************************)
EXTENDS Ipv4, Sequences

CONSTANTS
    Source,             \* addresses a data source may have
    Text,               \* what the user may type as a start or a stop address
    Unset,              \* a setting with neither a stored nor a registered value
    InetAddr,           \* inet_addr of a text (junk is 255.255.255.255)
    DefaultStart,       \* the range of Root.plist
    DefaultStop,
    Computer,           \* names found in replies
    MaxProbes,          \* bound on the datagrams of one sweep
    MaxChanges          \* bound on the user's changes of the settings

ASSUME DiscoveryAssumption ==
    /\ Unset \notin Text
    /\ InetAddr \in [Text -> Address]
    /\ DefaultStart \in Address
    /\ DefaultStop \in Address
    /\ MaxProbes \in Nat
    /\ MaxChanges \in Nat

VARIABLES
    ds,                 \* the data sources
    stored,             \* the settings the user changed; they outlive the process
    registered,         \* registerDefaults was called in this process
    prefsNote,          \* NSUserDefaultsDidChangeNotification is on its way
    wifi,               \* the status of the local Wifi
    note,               \* a reachability notification is on its way
    app,                \* process state
    changes,            \* changes of the settings so far
    fault               \* why the process died, if it did

settings == <<stored, registered, changes>>
vars == <<ds, stored, registered, prefsNote, wifi, note, app, changes, fault>>

Zero == <<0, 0, 0, 0>>
Answer == {"sent", "tolerated", "fatal"}

NoSource == [phase |-> "free", wifiEnable |-> FALSE, auto |-> FALSE,
             first |-> Zero, ipBeg |-> Zero, ipEnd |-> Zero, probes |-> <<>>,
             isStarted |-> FALSE, sock |-> FALSE, armed |-> FALSE,
             discovered |-> {}, blind |-> FALSE, gaveUp |-> FALSE]

Alive == {s \in Source : ds[s].phase # "free"}
Attached == {s \in Source : ds[s].phase = "attached"}
Orphans == {s \in Source : ds[s].phase = "orphan"}

-----------------------------------------------------------------------------
(* Settings: a stored value, else a registered default, else nil.           *)

AutoSetting == stored.auto = "on" \/ (stored.auto = "unset" /\ registered)

HasRange == registered \/ (stored.start # Unset /\ stored.stop # Unset)

RangeStart ==
    IF ~HasRange THEN Zero
    ELSE IF stored.start # Unset THEN InetAddr[stored.start] ELSE DefaultStart

RangeStop ==
    IF ~HasRange THEN Zero
    ELSE IF stored.stop # Unset THEN InetAddr[stored.stop] ELSE DefaultStop

\* A sweep starts over from the first address.
LoadConfig(d) ==
    [d EXCEPT !.auto = AutoSetting, !.first = RangeStart,
              !.ipBeg = RangeStart, !.ipEnd = RangeStop, !.probes = <<>>]

-----------------------------------------------------------------------------
(* start and stop.                                                          *)

\* A sweep goes on from where it was stopped.  The timer is scheduled, and
\* the sweep counts as started, even when there is no socket to be had.
Start(d, ok) ==
    IF ~d.wifiEnable \/ d.isStarted \/ ~d.auto THEN d
    ELSE [d EXCEPT !.isStarted = TRUE, !.sock = ok, !.armed = ok, !.gaveUp = FALSE]

\* Invalidating the timer releases what only the timer retained.
Stop(d) ==
    IF ~d.isStarted THEN d
    ELSE IF d.phase = "orphan" THEN NoSource
    ELSE [d EXCEPT !.isStarted = FALSE, !.sock = FALSE, !.armed = FALSE]

\* wifi_is_enable starts as YES, whatever the status is.
NewSource(ok) ==
    Start(LoadConfig([NoSource EXCEPT !.phase = "attached", !.wifiEnable = TRUE,
                                      !.blind = ~wifi]), ok)

Die(why) ==
    /\ app' = "dead"
    /\ fault' = why
    /\ ds' = [s \in Source |-> NoSource]
    /\ registered' = FALSE
    /\ prefsNote' = FALSE
    /\ note' = FALSE
    /\ UNCHANGED <<stored, changes, wifi>>

-----------------------------------------------------------------------------
(* The process, the main view and the settings.                             *)

\* Defaults are registered when no port is stored, whatever else is.
Launch ==
    /\ app = "dead"
    /\ app' = "active"
    /\ fault' = "none"
    /\ registered' = ~stored.port
    /\ UNCHANGED <<ds, stored, changes, prefsNote, wifi, note>>

\* A view is loaded from the storyboard, its data source made with it.
ViewLoads ==
    /\ app = "active"
    /\ Attached = {}
    /\ \E s \in Source, ok \in BOOLEAN :
        /\ s \notin Alive
        /\ ds' = [ds EXCEPT ![s] = NewSource(ok)]
    /\ note' = FALSE
    /\ UNCHANGED <<settings, prefsNote, wifi, app, fault>>

Release(d) == IF d.isStarted THEN [d EXCEPT !.phase = "orphan"] ELSE NoSource

\* The main view is dropped while a modal view covers it; the reachability
\* notifier goes with it.
ViewUnloads ==
    /\ app # "dead"
    /\ \E s \in Attached : ds' = [ds EXCEPT ![s] = Release(@)]
    /\ note' = FALSE
    /\ UNCHANGED <<settings, prefsNote, wifi, app, fault>>

OnEnterBackground ==
    /\ app = "active"
    /\ app' = "background"
    /\ ds' = [s \in Source |-> Stop(ds[s])]
    /\ UNCHANGED <<settings, prefsNote, wifi, note, fault>>

\* Mutant: nothing starts again.
OnEnterForegroundIdle ==
    /\ app = "background"
    /\ app' = "active"
    /\ UNCHANGED <<ds, settings, prefsNote, wifi, note, fault>>

\* Each data source is notified, and each may fail to get a socket.
OnEnterForeground ==
    /\ app = "background"
    /\ app' = "active"
    /\ \E ok \in [Source -> BOOLEAN] : ds' = [s \in Source |-> Start(ds[s], ok[s])]
    /\ UNCHANGED <<settings, prefsNote, wifi, note, fault>>

KilledInBackground ==
    /\ app = "background"
    /\ Die("none")

\* The Settings app writes the one setting the user changed.
ChangeSettings ==
    /\ app # "active"
    /\ changes < MaxChanges
    /\ changes' = changes + 1
    /\ \/ stored' = [stored EXCEPT !.port = TRUE]
       \/ \E b \in {"on", "off"} : stored' = [stored EXCEPT !.auto = b]
       \/ \E t \in Text : \/ stored' = [stored EXCEPT !.start = t]
                          \/ stored' = [stored EXCEPT !.stop = t]
    /\ prefsNote' = (app = "background")
    /\ UNCHANGED <<ds, registered, wifi, note, app, fault>>

Restart(d, ok) ==
    IF d.phase = "free" THEN d ELSE Start(Stop(LoadConfig(d)), ok)

\* An orphan frees itself in stop, and then goes on to start.
DefaultsChanged ==
    /\ app = "active"
    /\ prefsNote
    /\ \/ /\ \E ok \in [Source -> BOOLEAN] :
                ds' = [s \in Source |-> Restart(ds[s], ok[s])]
          /\ prefsNote' = FALSE
          /\ UNCHANGED <<settings, wifi, note, app, fault>>
       \/ Orphans # {} /\ Die("freed_source")

-----------------------------------------------------------------------------
(* The network's reachability.                                              *)

WifiChanges ==
    /\ wifi' = ~wifi
    /\ note' = (Attached # {})
    /\ UNCHANGED <<ds, settings, prefsNote, app, fault>>

HearWifi(d, ok) ==
    LET heard == [d EXCEPT !.wifiEnable = wifi, !.blind = FALSE]
    IN  IF d.phase = "free" THEN d
        ELSE IF wifi THEN Start(heard, ok) ELSE Stop(heard)

ReachabilityChanged ==
    /\ app = "active"
    /\ note
    /\ note' = FALSE
    /\ \E ok \in [Source -> BOOLEAN] : ds' = [s \in Source |-> HearWifi(ds[s], ok[s])]
    /\ UNCHANGED <<settings, prefsNote, wifi, app, fault>>

-----------------------------------------------------------------------------
(* The sweep.                                                               *)

BeforeEnd(d) == AR_ipv4cmp(d.ipBeg, d.ipEnd) < 0

\* Mutant: the write callback is never enabled again.
OnTimerWithoutArming(s) ==
    /\ app = "active"
    /\ ds[s].isStarted
    /\ IF ds[s].sock THEN UNCHANGED vars ELSE Die("null_socket")

\* Enabling the callbacks of a NULL socket ends the process.
OnTimer(s) ==
    /\ app = "active"
    /\ ds[s].isStarted
    /\ IF ds[s].sock
       THEN /\ ds' = [ds EXCEPT ![s].armed = BeforeEnd(ds[s]) \/ @]
            /\ UNCHANGED <<settings, prefsNote, wifi, note, app, fault>>
       ELSE Die("null_socket")

\* Mutant: an address without an answer from sendto is tried again.
AdvanceUnlessLost(d, answer) ==
    LET r == AR_ipv4add(d.ipBeg)
    IN  IF answer = "tolerated" THEN d
        ELSE [d EXCEPT !.ipBeg = IF r.ok THEN r.addr ELSE @]

\* ip_beg moves on whatever became of the datagram.
Advance(d, answer) ==
    LET r == AR_ipv4add(d.ipBeg)
    IN  [d EXCEPT !.ipBeg = IF r.ok THEN r.addr ELSE @]

\* One datagram to ip_beg.  A send error that is not tolerated stops the sweep.
Probe(d, answer) ==
    LET sent == [d EXCEPT !.probes = Append(@, d.ipBeg)]
    IN  Advance(IF answer = "fatal" THEN [Stop(sent) EXCEPT !.gaveUp = TRUE] ELSE sent,
                answer)

\* A write callback is disabled as it fires.
HandleWrite(d, answer) ==
    LET fired == [d EXCEPT !.armed = FALSE]
    IN  IF BeforeEnd(d) THEN Probe(fired, answer) ELSE fired

OnWriteCallback(s) ==
    /\ app = "active"
    /\ ds[s].armed
    /\ BeforeEnd(ds[s]) => Len(ds[s].probes) < MaxProbes
    /\ \E answer \in Answer :
        IF ds[s].phase = "orphan" /\ answer = "fatal" /\ BeforeEnd(ds[s])
        THEN \/ /\ ds' = [ds EXCEPT ![s] = NoSource]
                /\ UNCHANGED <<settings, prefsNote, wifi, note, app, fault>>
             \/ Die("freed_source")
        ELSE /\ ds' = [ds EXCEPT ![s] = HandleWrite(@, answer)]
             /\ UNCHANGED <<settings, prefsNote, wifi, note, app, fault>>

\* An answer adds a row and reloads the view, which an orphan no longer has.
OnReadCallback(s) ==
    /\ app = "active"
    /\ ds[s].sock
    /\ ds[s].probes # <<>>
    /\ \E c \in Computer \ ds[s].discovered :
        \/ /\ ds' = [ds EXCEPT ![s].discovered = @ \cup {c}]
           /\ UNCHANGED <<settings, prefsNote, wifi, note, app, fault>>
        \/ ds[s].phase = "orphan" /\ Die("freed_view")

-----------------------------------------------------------------------------
Init ==
    /\ ds = [s \in Source |-> NoSource]
    /\ stored = [port |-> FALSE, auto |-> "unset", start |-> Unset, stop |-> Unset]
    /\ registered = FALSE
    /\ prefsNote = FALSE
    /\ wifi \in BOOLEAN
    /\ note = FALSE
    /\ app = "dead"
    /\ changes = 0
    /\ fault = "none"

Environment == Launch \/ ViewLoads \/ ViewUnloads \/ KilledInBackground
               \/ ChangeSettings \/ WifiChanges

Notification == OnEnterBackground \/ OnEnterForeground \/ DefaultsChanged
                \/ ReachabilityChanged

Sweep == \E s \in Source : OnTimer(s) \/ OnWriteCallback(s) \/ OnReadCallback(s)

Next == Environment \/ Notification \/ Sweep

Spec == Init /\ [][Next]_vars

\* The run loop serves the timer and a writable socket of each data source.
Fairness == \A s \in Source : WF_vars(OnTimer(s)) /\ WF_vars(OnWriteCallback(s))

FairSpec == Spec /\ Fairness

-----------------------------------------------------------------------------
SourceState ==
    [phase : {"free", "attached", "orphan"}, wifiEnable : BOOLEAN, auto : BOOLEAN,
     first : Address, ipBeg : Address, ipEnd : Address, probes : Seq(Address),
     isStarted : BOOLEAN, sock : BOOLEAN, armed : BOOLEAN,
     discovered : SUBSET Computer, blind : BOOLEAN, gaveUp : BOOLEAN]

\* The type of every variable.
TypeOK ==
    /\ ds \in [Source -> SourceState]
    /\ stored \in [port : BOOLEAN, auto : {"unset", "on", "off"},
                   start : Text \cup {Unset}, stop : Text \cup {Unset}]
    /\ registered \in BOOLEAN
    /\ prefsNote \in BOOLEAN
    /\ wifi \in BOOLEAN
    /\ note \in BOOLEAN
    /\ app \in {"active", "background", "dead"}
    /\ changes \in Nat
    /\ fault \in {"none", "null_socket", "freed_view", "freed_source"}

Ordered(d) ==
    /\ Value(d.ipBeg) = Value(d.first) + Len(d.probes)
    /\ \A i \in 1..Len(d.probes) : Value(d.probes[i]) = Value(d.first) + i - 1

\* However often a sweep is stopped and started again, and whatever became of
\* its datagrams, it asks every address from the first one on, each once and
\* in numeric order, over the carries from byte to byte.
SweepInOrder == \A s \in Source : Ordered(ds[s])

InRange(d) == d.probes # <<>> => Value(d.ipBeg) =< Value(d.ipEnd)

\* A sweep never asks an address at or past the end of its range and never
\* wraps around, even at the top of the address space.
SweepStaysInRange == \A s \in Source : InRange(ds[s])

\* A sweep runs without Wifi only until the change is notified, or in a data
\* source made while Wifi was down, which takes it for up.
SweepNeedsWifi ==
    \A s \in Attached : ds[s].isStarted /\ ~wifi => note \/ ds[s].blind

\* In the foreground, with Wifi up and discovery switched on, the data source
\* of the view is sweeping, unless a send error made it give up.
SweepRunsWhenItMay ==
    \A s \in Attached :
        app = "active" /\ wifi /\ ~note /\ ds[s].auto => ds[s].isStarted \/ ds[s].gaveUp

\* A data source works with the settings as they are, but for a change still
\* to be notified; one whose discovery is switched off does not sweep.
SettingsApplied ==
    \A s \in Attached :
        /\ app = "active" /\ ~prefsNote
             => /\ ds[s].auto = AutoSetting
                /\ ds[s].first = RangeStart
                /\ ds[s].ipEnd = RangeStop
        /\ ds[s].isStarted => ds[s].auto

\* A data source without a view lives on its timer alone, and nothing sweeps
\* in the background: an orphan is gone at the latest then.
OrphansAreTemporary ==
    /\ \A s \in Orphans : ds[s].isStarted
    /\ app # "active" => \A s \in Source : ~ds[s].isStarted /\ ~ds[s].sock

\* A running sweep reaches its end, unless it is stopped: the timer and the
\* write callback keep each other going.
SweepFinishes ==
    \A s \in Source :
        (ds[s].isStarted /\ BeforeEnd(ds[s])) ~> ~(ds[s].isStarted /\ BeforeEnd(ds[s]))

\* Settings.bundle ships with discovery switched on: it is on until the user
\* switches it off.
DefaultsRespected ==
    \A s \in Attached : stored.auto = "unset" => ds[s].auto
=============================================================================
