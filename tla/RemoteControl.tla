---------------------------- MODULE RemoteControl ----------------------------
(***************************************************************************)
(* The whole path of an input event: a finger on a button of the phone      *)
(* (MouseViewController, KeyboardViewController), the queue of the client   *)
(* session, UDP, and the server that presses the button of the computer.    *)
(*                                                                          *)
(* A press and its release are two datagrams, and nothing in the protocol   *)
(* numbers, acknowledges or repeats them.  The module says exactly when a   *)
(* button of the computer can differ from the finger that controls it.      *)
(*                                                                          *)
(* Of the client session it keeps what EventPipe promises: events enter a   *)
(* queue, leave it from the front, or are all forgotten.                    *)
(***************************************************************************)
EXTENDS ServerService, SequencesExt

CONSTANTS
    Phone,              \* the address of the phone that is held
    PressedButton,      \* buttons of the mouse view
    PressedKey,         \* labelled keys of the keyboard view
    MaxInFlight         \* bound on the events queued and in flight

Control == ({"button"} \X PressedButton) \cup ({"key"} \X PressedKey)

Backspace == 15

ASSUME RemoteAssumption ==
    /\ Phone \in Peer
    /\ PressedButton \subseteq Button
    /\ PressedKey \subseteq Key \ {Backspace}
    /\ \A m \in Traffic : m.type = "request"
    /\ MaxInFlight \in Nat

VARIABLES
    view,               \* the view on the screen
    fingers,            \* the controls a finger holds down
    session,            \* current_pwd of the session, or no session
    queue,              \* outlist
    net,                \* datagrams in flight
    strayed             \* inputs of the computer that may differ from the fingers

clientVars == <<view, fingers, session, queue>>
remoteVars == <<serverVars, clientVars, net, strayed>>

NoSession == [open |-> FALSE, pwd |-> NoPassword]

\* Everything on its way, what is to arrive first in front.
Pipeline == net \o queue

-----------------------------------------------------------------------------
(* What is decided by the events of a sequence.                             *)

DecidedBy(s) == UNION {Decides(s[i]) : i \in DOMAIN s}

\* The inputs about which s[i] is the last word of s.
LastWord(s, i) ==
    {x \in Decides(s[i]) : \A j \in DOMAIN s : j > i => x \notin Decides(s[j])}

-----------------------------------------------------------------------------
(* The encoding: NetMessage.h, with the password of the session.            *)

MouseEvent(t) == [type |-> "mouse", what |-> t, pwd |-> session.pwd]
FunctionEvent(code) == [type |-> "function", what |-> code, pwd |-> session.pwd]

PressEvent(c) ==
    IF c[1] = "button" THEN MouseEvent(3 * c[2] + 1) ELSE FunctionEvent(2 * c[2])

\* Mutant: buttonUpOutside sends the press again.
ReleaseEventWrong(c) ==
    IF c[1] = "button" THEN MouseEvent(3 * c[2] + 1) ELSE FunctionEvent(2 * c[2] + 1)

ReleaseEvent(c) ==
    IF c[1] = "button" THEN MouseEvent(3 * c[2] + 2) ELSE FunctionEvent(2 * c[2] + 1)

BackspaceEvents == <<FunctionEvent(2 * Backspace), FunctionEvent(2 * Backspace + 1)>>

CharEvent(c) == [type |-> "ascii", what |-> c, pwd |-> session.pwd]
TextEvent == [type |-> "text", what |-> 0, pwd |-> session.pwd]

-----------------------------------------------------------------------------
(* The phone.                                                               *)

\* Events about x that come later settle what was amiss before.
Post(events, amiss) ==
    /\ Len(Pipeline) + Len(events) <= MaxInFlight
    /\ queue' = queue \o events
    /\ strayed' = (strayed \ DecidedBy(events)) \cup amiss
    /\ UNCHANGED <<serverVars, session, net, view>>

Controls(v) == {c \in Control : c[1] = IF v = "mouse" THEN "button" ELSE "key"}

Touchable == session.open /\ view # "main"

Press ==
    /\ Touchable
    /\ \E c \in Controls(view) \ fingers :
        /\ fingers' = fingers \cup {c}
        /\ Post(<<PressEvent(c)>>, {})

\* touchUpInside and touchUpOutside do the same.
Release ==
    /\ Touchable
    /\ \E c \in fingers :
        /\ fingers' = fingers \ {c}
        /\ Post(<<ReleaseEvent(c)>>, {})

Wheel ==
    /\ Touchable
    /\ view = "mouse"
    /\ \E t \in {MouseMove, MouseWheel, MouseHWheel} : Post(<<MouseEvent(t)>>, {})
    /\ UNCHANGED fingers

\* The characters of the text field, one at a time; a longer replacement is
\* sent as a text.  A character that strokes a modifier somebody holds
\* releases it.
TypeChar ==
    /\ Touchable
    /\ view = "keyboard"
    /\ \/ \E c \in Char : Post(<<CharEvent(c)>>, StrokedBy(c) \cap fingers)
       \/ Post(<<TextEvent>>, {})
    /\ UNCHANGED fingers

TypeBackspace ==
    /\ Touchable
    /\ view = "keyboard"
    /\ Post(BackspaceEvents, {})
    /\ UNCHANGED fingers

\* Setting up a session empties outlist.
Connect ==
    /\ view = "main"
    /\ \E p \in Password : session' = [open |-> TRUE, pwd |-> p]
    /\ view' = "mouse"
    /\ queue' = <<>>
    /\ strayed' = strayed \cup DecidedBy(queue)
    /\ UNCHANGED <<serverVars, fingers, net>>

TransToView ==
    /\ session.open
    /\ view = "main"
    /\ view' \in {"mouse", "keyboard"}
    /\ UNCHANGED <<serverVars, fingers, session, queue, net, strayed>>

\* The controls' touches are cancelled, which no action is connected to: the
\* view is left by a swipe or its button, or an alert or a call covers it.
TouchesCancelled ==
    /\ view # "main"
    /\ view' \in {view, "main"}
    /\ fingers' = {}
    /\ strayed' = strayed \cup fingers
    /\ UNCHANGED <<serverVars, session, queue, net>>

\* The session is suspended (background, Wifi gone) or lost on an error.  The
\* alert about Wifi leaves a finger where it is.
DropSession ==
    /\ session.open
    /\ session' = NoSession
    /\ view' \in {view, "main"}
    /\ fingers' \in {{}, fingers}
    /\ view' = "main" => fingers' = {}
    /\ queue' = <<>>
    /\ strayed' = strayed \cup (fingers \ fingers') \cup DecidedBy(queue)
    /\ UNCHANGED <<serverVars, net>>

\* loadContext on a modal view, with what the password field holds then.
RestoreSession ==
    /\ ~session.open
    /\ view # "main"
    /\ \E p \in Password : session' = [open |-> TRUE, pwd |-> p]
    /\ UNCHANGED <<serverVars, view, fingers, queue, net, strayed>>

\* Mutant: the event sent is the last one queued.
TransmitLast ==
    /\ session.open
    /\ queue # <<>>
    /\ net' = Append(net, queue[Len(queue)])
    /\ queue' = SubSeq(queue, 1, Len(queue) - 1)
    /\ UNCHANGED <<serverVars, view, fingers, session, strayed>>

Transmit ==
    /\ session.open
    /\ queue # <<>>
    /\ net' = Append(net, Head(queue))
    /\ queue' = Tail(queue)
    /\ UNCHANGED <<serverVars, view, fingers, session, strayed>>

-----------------------------------------------------------------------------
(* The network, and the server at its end.                                  *)

\* The datagram is gone without effect.
Lose(i) ==
    /\ net' = RemoveAt(net, i)
    /\ strayed' = strayed \cup LastWord(Pipeline, i)
    /\ UNCHANGED <<serverVars, clientVars>>

DatagramLost == \E i \in DOMAIN net : Lose(i)

\* No socket, or another password: as good as lost.
Refused ==
    /\ net # <<>>
    /\ Ignored(Head(net))
    /\ Lose(1)

\* What a datagram older than net[i] decides too, and nothing younger.
Overtaken(i) ==
    {x \in LastWord(Pipeline, i) : \E j \in 1 .. i - 1 : x \in Decides(net[j])}

\* UDP may deliver any datagram first.
Deliver(i) ==
    /\ ~Ignored(net[i])
    /\ OnReceive(net[i], Phone)
    /\ net' = RemoveAt(net, i)
    /\ strayed' = strayed \cup Overtaken(i)
    /\ UNCHANGED clientVars

DeliverFirst == net # <<>> /\ Deliver(1)

DeliverLater == \E i \in 2 .. Len(net) : Deliver(i)

\* UDP may deliver a datagram and keep a copy of it.
Duplicated ==
    /\ net # <<>>
    /\ ~Ignored(net[1])
    /\ OnReceive(net[1], Phone)
    /\ UNCHANGED <<clientVars, net, strayed>>

Server ==
    /\ Receive \/ OnSend \/ Lifecycle
    /\ UNCHANGED <<clientVars, net, strayed>>

-----------------------------------------------------------------------------
Init ==
    /\ ServerInit
    /\ view = "main"
    /\ fingers = {}
    /\ session = NoSession
    /\ queue = <<>>
    /\ net = <<>>
    /\ strayed = {}

User == Press \/ Release \/ Wheel \/ TypeChar \/ TypeBackspace
        \/ Connect \/ TransToView

Session == TouchesCancelled \/ DropSession \/ RestoreSession \/ Transmit

Network == DatagramLost \/ Refused \/ DeliverFirst \/ DeliverLater \/ Duplicated

Next == User \/ Session \/ Network \/ Server

Spec == Init /\ [][Next]_remoteVars

\* The write callback of an open session fires, and the network does not keep
\* its oldest datagram for ever.
Fairness ==
    /\ WF_remoteVars(Transmit)
    /\ WF_remoteVars(DeliverFirst \/ Refused)

FairSpec == Spec /\ Fairness

-----------------------------------------------------------------------------
(* Properties.                                                              *)

TypeOK ==
    /\ ServerTypeOK
    /\ view \in {"main", "mouse", "keyboard"}
    /\ fingers \subseteq Control
    /\ session \in [open : BOOLEAN, pwd : Password]
    /\ queue \in Seq(Message)
    /\ net \in Seq(Message)
    /\ strayed \subseteq Input

Quiet(x) == x \notin DecidedBy(Pipeline)

\* When nothing about a button or key is on its way, it is down on the
\* computer exactly when a finger holds it, unless it strayed: its last event
\* was lost, refused, overtaken by an older one or forgotten with a session,
\* its touch was cancelled, or a character that strokes it was typed over it.
\* Duplicates alone do no harm, and pressing a strayed one again repairs it.
HeldIsPressed ==
    \A x \in Input \ strayed : Quiet(x) => (x \in held <=> x \in fingers)

\* A character or Backspace is typed that decides about x.
Typed(x) == (TypeChar \/ TypeBackspace) /\ x \in Decides(Last(queue'))

\* A control left alone comes up on the computer, and so does the Backspace
\* key, unless it strays; or unless it is typed without end, each time before
\* the event that was lost had the last word.
ReleasedInTime ==
    \A x \in Control \cup {<<"key", Backspace>>} :
        []<>(x \notin held \/ x \in fingers \/ x \in strayed) \/ []<><<Typed(x)>>_remoteVars
=============================================================================
