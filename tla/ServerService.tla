---------------------------- MODULE ServerService ----------------------------
(***************************************************************************)
(* CServerService of the Windows server: the UDP socket of the computer     *)
(* being controlled.  A datagram is decoded, its password is compared, and  *)
(* it becomes mouse_event and keybd_event calls, which move buttons and     *)
(* keys of the computer, or it asks for a discovery reply, which waits in   *)
(* m_output_list for the socket to be writable.                             *)
(*                                                                          *)
(* MFC calls the handlers from the one thread that owns the socket's        *)
(* window, one at a time.  An event is told from another by its numbers in  *)
(* NetMessage.h; movements, wheels and texts carry nothing that is kept.    *)
(***************************************************************************)
EXTENDS Naturals, Sequences, FiniteSets

CONSTANTS
    Peer,               \* addresses datagrams come from
    Password,
    NoPassword,         \* the empty password
    Char,               \* single-byte characters
    Strokes,            \* Strokes[c]: function keys SendChar strokes to type c
    Traffic,            \* messages sent to the server by any program
    MaxRequests         \* bound on the discovery requests of a peer

-----------------------------------------------------------------------------
(* What NetMessage.h numbers.                                               *)

LeftButton == 0
RightButton == 1
MiddleButton == 2

Button == 0 .. 2        \* in the order of WI_*BUTTONDOWN, UP, DBLCLK
Key == 0 .. 16          \* in the order of WI_KEY_FUNC_*, two codes for each

Input == ({"button"} \X Button) \cup ({"key"} \X Key)

MouseMove == 0
MouseWheel == 10
MouseHWheel == 11
MiddleClick == 16
LeftClick == 17
RightClick == 18

MouseType == 0 .. 11 \cup 16 .. 18
FuncKey == 0 .. 33

\* The password is left out of a message when it is empty.
Message ==
    [type : {"mouse"}, what : MouseType, pwd : Password] \cup
    [type : {"function"}, what : FuncKey, pwd : Password] \cup
    [type : {"ascii"}, what : Char, pwd : Password] \cup
    [type : {"text", "shortcuts"}, what : {0}, pwd : Password] \cup
    [type : {"request"}, what : {0}, pwd : {NoPassword}]

ASSUME ServerAssumption ==
    /\ NoPassword \in Password
    /\ Strokes \in [Char -> SUBSET Key]
    /\ Traffic \subseteq Message
    /\ MaxRequests \in Nat

-----------------------------------------------------------------------------
VARIABLES
    srv,                \* the dialog's m_srv and what it holds
    held,               \* buttons and keys that are down on the computer
    asked,              \* asked[p]: discovery requests of p that were read
    answered            \* answered[p]: replies to p handed to the network

serverVars == <<srv, held, asked, answered>>

Closed == [open |-> FALSE, pwd |-> NoPassword, output |-> <<>>, notices |-> 0]

-----------------------------------------------------------------------------
(* NetMessage_To_Event.                                                     *)

\* A server without a password accepts any event.
PasswordAccepts(m, pwd) == pwd = NoPassword \/ m.pwd = pwd

\* Discovery is answered before the password is looked at; the decoder of
\* shortcuts always fails.
Decodes(m, pwd) ==
    \/ m.type = "request"
    \/ m.type # "shortcuts" /\ PasswordAccepts(m, pwd)

-----------------------------------------------------------------------------
(* on_mouse_event and on_keyboard_event: the inputs a message leaves down   *)
(* and those it leaves up, whatever they were before.                       *)

IsButtonEvent(t) == t \in 1 .. 9
ButtonOf(t) == <<"button", (t - 1) \div 3>>
IsButtonDown(t) == IsButtonEvent(t) /\ (t - 1) % 3 = 0

\* A double click is down, up, down and up.  The middle click passes the
\* numbers of two window messages as the flags of mouse_event: as flags,
\* WM_MBUTTONDOWN presses and releases the left button and WM_MBUTTONUP
\* presses the right one.
MouseDowns(t) ==
    IF IsButtonDown(t) THEN {ButtonOf(t)}
    ELSE IF t = MiddleClick THEN {<<"button", RightButton>>}
    ELSE {}

MouseUps(t) ==
    CASE IsButtonEvent(t) /\ ~IsButtonDown(t) -> {ButtonOf(t)}
      [] t \in {LeftClick, MiddleClick} -> {<<"button", LeftButton>>}
      [] t = RightClick -> {<<"button", RightButton>>}
      [] OTHER -> {}

KeyOf(code) == <<"key", code \div 2>>

KeyDowns(code) == IF code % 2 = 0 THEN {KeyOf(code)} ELSE {}

KeyUps(code) == IF code % 2 = 1 THEN {KeyOf(code)} ELSE {}

\* CSendKeys::SendChar strokes the modifiers the character needs, and the
\* key itself: each goes down and comes up, held by a finger or not.
StrokedBy(c) == {<<"key", k>> : k \in Strokes[c]}

LeavesDown(m) ==
    CASE m.type = "mouse" -> MouseDowns(m.what)
      [] m.type = "function" -> KeyDowns(m.what)
      [] OTHER -> {}

LeavesUp(m) ==
    CASE m.type = "mouse" -> MouseUps(m.what)
      [] m.type = "function" -> KeyUps(m.what)
      [] m.type = "ascii" -> StrokedBy(m.what)
      [] OTHER -> {}

Decides(m) == LeavesDown(m) \cup LeavesUp(m)

-----------------------------------------------------------------------------
(* The handlers.                                                            *)

Inject(m) == held' = (held \ LeavesUp(m)) \cup LeavesDown(m)

\* Mutant: AsyncSelect is left to the caller.
QueueReplyWithoutAsyncSelect(p) ==
    srv' = [srv EXCEPT !.output = Append(@, p)]

\* AsyncSelect asks for FD_WRITE, which a writable socket posts at once.
QueueReply(p) ==
    srv' = [srv EXCEPT !.output = Append(@, p), !.notices = @ + 1]

\* GetSockName may fail: no reply then.
OnDiscoveryRequest(p) ==
    /\ asked' = [asked EXCEPT ![p] = @ + 1]
    /\ QueueReply(p) \/ UNCHANGED srv
    /\ UNCHANGED <<held, answered>>

Handle(m, p) ==
    IF m.type = "request"
    THEN OnDiscoveryRequest(p)
    ELSE Inject(m) /\ UNCHANGED <<srv, asked, answered>>

Ignored(m) == ~srv.open \/ ~Decodes(m, srv.pwd)

\* A datagram that comes to no open socket, or is not decoded, does nothing.
OnReceive(m, p) ==
    IF Ignored(m) THEN UNCHANGED serverVars ELSE Handle(m, p)

Reply(p) == answered' = [answered EXCEPT ![p] = @ + 1]

\* Mutant: the reply stays in the list after it was sent.
SendReplyKeepingIt ==
    /\ srv.output # <<>>
    /\ Reply(Head(srv.output)) \/ UNCHANGED answered
    /\ srv' = [srv EXCEPT !.notices = @ - 1]

\* A reply leaves the list whether SendTo succeeds or fails.
SendReply ==
    /\ srv.output # <<>>
    /\ Reply(Head(srv.output)) \/ UNCHANGED answered
    /\ srv' = [srv EXCEPT !.output = Tail(@), !.notices = @ - 1]

NoReplyToSend ==
    /\ srv.output = <<>>
    /\ srv' = [srv EXCEPT !.notices = @ - 1]
    /\ UNCHANGED answered

OnSend ==
    /\ srv.notices > 0
    /\ SendReply \/ NoReplyToSend
    /\ UNCHANGED <<held, asked>>

\* InitServerService and SetPassword, in one handler of the dialog.
Create(p) ==
    /\ ~srv.open
    /\ srv' = [Closed EXCEPT !.open = TRUE, !.pwd = p]
    /\ UNCHANGED <<held, asked, answered>>

\* UninitServerService: the queued replies go with the object; what is down
\* on the computer stays down.
Close ==
    /\ srv.open
    /\ srv' = Closed
    /\ UNCHANGED <<held, asked, answered>>

-----------------------------------------------------------------------------
ServerInit ==
    /\ srv = Closed
    /\ held = {}
    /\ asked = [p \in Peer |-> 0]
    /\ answered = [p \in Peer |-> 0]

Lifecycle == Close \/ \E p \in Password : Create(p)

Receive ==
    \E p \in Peer : \E m \in Traffic :
        /\ m.type = "request" => asked[p] < MaxRequests
        /\ OnReceive(m, p)

ServerNext == Receive \/ OnSend \/ Lifecycle

ServerSpec == ServerInit /\ [][ServerNext]_serverVars

\* The message loop delivers the FD_WRITE messages that were posted.
FairServerSpec == ServerSpec /\ WF_serverVars(OnSend)

-----------------------------------------------------------------------------
(* Properties.                                                              *)

ServerState == [open : BOOLEAN, pwd : Password, output : Seq(Peer), notices : Nat]

ServerTypeOK ==
    /\ srv \in ServerState
    /\ held \subseteq Input
    /\ asked \in [Peer -> Nat]
    /\ answered \in [Peer -> Nat]

\* Every queued reply has an FD_WRITE notification of its own to come: OnSend
\* sends one reply and returns, so a reply queued without AsyncSelect would
\* wait for somebody else's request.
RepliesHaveNotice == Len(srv.output) <= srv.notices

Waiting(p) == {i \in DOMAIN srv.output : srv.output[i] = p}

\* A request is answered at most once, and to the address it came from,
\* across replies that fail and servers that are stopped with a full list.
AnsweredAtMostOnce ==
    \A p \in Peer : answered[p] + Cardinality(Waiting(p)) <= asked[p]

\* A queued reply leaves the list, with the server if not before.
RepliesLeave == srv.output # <<>> ~> srv.output = <<>>
=============================================================================
