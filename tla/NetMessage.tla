----------------------------- MODULE NetMessage ------------------------------
(* How an event gets from one program to the other: src/Common/NetMessage.h  *)
(* makes it a dictionary, the serializer puts that into a buffer piece by    *)
(* piece, a datagram takes what is there, and the other end reads it into a  *)
(* buffer and decodes it.  One end sends and the other receives: the server, *)
(* events of the mouse, the keyboard and of discovery, or the client,        *)
(* replies to discovery.  The buffer inherited from ArBuffer is the          *)
(* receiver's.  Any allocation may fail, but only MaxFailures do.            *)
EXTENDS ArBuffer, Serializer

CONSTANTS
    Events,       \* of either end: [server |-> ..., client |-> ...]
    Passwords,    \* entered at the client and set at the server; <<>>: none
    NotAscii,     \* the characters outside ASCII
    RecvMax,      \* room in the receiver's array
    TextMax,      \* room for the text of a keyboard event
    MaxSends,     \* bound: events made
    MaxFailures   \* bound: allocations that fail

VARIABLES
    end,          \* which end receives
    current_pwd,  \* the client's password
    m_pwd,        \* the server's
    event,        \* being encoded, or NoEvent
    puts,         \* what is still to be put into the sender's buffer
    smem, sread, swrite,   \* the sender's buffer
    whole,        \* nothing failed in encoding the event
    sends, failures,
    net,          \* the datagrams under way
    receiving,    \* the datagram being received, or NoDatagram
    pc,           \* how far that is: "idle", "cleared" or "filled"
    got           \* the last datagram decoded and the event it gave

S == INSTANCE ArBuffer WITH mem <- smem, read_cur <- sread, write_cur <- swrite

sender == <<event, puts, smem, sread, swrite, whole>>
receiver == <<mem, read_cur, write_cur, receiving, pc, got>>
setting == <<end, current_pwd, m_pwd>>
msg_vars == <<setting, sender, sends, failures, net, receiver>>

-----------------------------------------------------------------------------
(* Events: nums are the numbers of one in the order they are sent, text its  *)
(* bytes.  A coordinate is a float, here a number of halves.                 *)

Mouse == 0
Keyboard == 1
DiscoveryRequest == 3
DiscoveryReply == 4
NoKind == 5

Event(kind, type, nums, text) ==
    [kind |-> kind, type |-> type, nums |-> nums, text |-> text]

NoEvent == Event(NoKind, 0, <<>>, <<>>)

MouseWheel == 10
MouseHWheel == 11
IsWheel(type) == type \in {MouseWheel, MouseHWheel}

FunctionKey == 0
AsciiKey == 1
Text == 2

PASSWORD == <<"PWD">>
EVENT_NAME == <<"EVT">>
MOUSE_EVENT_TYPE == <<"TP">>
MOUSE_X == <<"X">>
MOUSE_Y == <<"Y">>
MOUSE_DATA == <<"D">>
KEYBOARD_EVENT_TYPE == <<"KBEVT">>
FUNCKEY_VALUE == <<"FUNC_VALUE">>
ASCIIKEY_VALUE == <<"ASCII_VALUE">>
TEXTKEY_VALUE == <<"TEXT_VALUE">>
REPLY_IPADDR == <<"IP">>
REPLY_PORT == <<"PORT">>

IpMax == 20

\* A port is an uint_16_t.
PortSize == 65536

\* A float becomes an integer towards zero.
Whole(halves) == IF halves < 0 THEN -((-halves) \div 2) ELSE halves \div 2

IntPair(key, n) == Pair(key, SnInt(n))

MouseFields(e) ==
    << IntPair(EVENT_NAME, Mouse), IntPair(MOUSE_EVENT_TYPE, e.type) >>
    \o IF IsWheel(e.type)
       THEN << IntPair(MOUSE_DATA, Whole(e.nums[1])) >>
       ELSE << IntPair(MOUSE_X, Whole(e.nums[1])), IntPair(MOUSE_Y, Whole(e.nums[2])) >>

KeyboardFields(e) ==
    << IntPair(EVENT_NAME, Keyboard), IntPair(KEYBOARD_EVENT_TYPE, e.type),
       CASE e.type = FunctionKey -> IntPair(FUNCKEY_VALUE, e.nums[1])
         [] e.type = AsciiKey -> IntPair(ASCIIKEY_VALUE, e.nums[1])
         [] e.type = Text -> Pair(TEXTKEY_VALUE, SnStr(e.text)) >>

RequestFields == << IntPair(EVENT_NAME, DiscoveryRequest) >>

ReplyFields(e) ==
    << IntPair(EVENT_NAME, DiscoveryReply), Pair(REPLY_IPADDR, SnStr(e.text)),
       IntPair(REPLY_PORT, e.nums[1]) >>

\* A password that is not in ASCII has no length there, and is not sent.
PwdFields(pwd) ==
    IF pwd = <<>> \/ ToSet(pwd) \cap NotAscii # {} THEN <<>>
    ELSE << Pair(PASSWORD, SnStr(pwd)) >>

Fields(e, pwd) ==
    CASE e.kind = Mouse -> PwdFields(pwd) \o MouseFields(e)
      [] e.kind = Keyboard -> PwdFields(pwd) \o KeyboardFields(e)
      [] e.kind = DiscoveryRequest -> RequestFields
      [] e.kind = DiscoveryReply -> ReplyFields(e)

-----------------------------------------------------------------------------
(* Decoding: the event, or NoEvent.                                          *)

\* A string where a number is looked for counts as 0.
Number(d, key) ==
    LET obj == FindFromDict(d, key) IN IF obj.t = "int" THEN obj.v ELSE 0

TextOf(d, key) == FindFromDict(d, key).v

HasString(d, key) == HasKey(d, key) /\ FindFromDict(d, key).t = "string"

\* A string that leaves room for the zero that ends it.
HasText(d, key, room) == HasString(d, key) /\ Len(TextOf(d, key)) < room

\* Nothing is found in what is not a dictionary.
Pairs(r) == IF r.ok /\ r.obj.t = "dict" THEN r.obj.v ELSE <<>>

DecodeMouse(d) ==
    IF ~HasKey(d, MOUSE_EVENT_TYPE) THEN NoEvent
    ELSE LET type == Number(d, MOUSE_EVENT_TYPE)
             keys == IF IsWheel(type) THEN <<MOUSE_DATA>> ELSE <<MOUSE_X, MOUSE_Y>>
         IN  IF \E k \in DOMAIN keys : ~HasKey(d, keys[k]) THEN NoEvent
             ELSE Event(Mouse, type, [k \in DOMAIN keys |-> Number(d, keys[k])], <<>>)

DecodeKeyboard(d) ==
    IF ~HasKey(d, KEYBOARD_EVENT_TYPE) THEN NoEvent
    ELSE LET type == Number(d, KEYBOARD_EVENT_TYPE)
             NumberAt(key) == IF HasKey(d, key)
                              THEN Event(Keyboard, type, << Number(d, key) >>, <<>>)
                              ELSE NoEvent
         IN  CASE type = FunctionKey -> NumberAt(FUNCKEY_VALUE)
               [] type = AsciiKey -> NumberAt(ASCIIKEY_VALUE)
               [] type = Text ->
                     IF HasText(d, TEXTKEY_VALUE, TextMax)
                     THEN Event(Keyboard, Text, <<>>, TextOf(d, TEXTKEY_VALUE))
                     ELSE NoEvent
               [] OTHER -> NoEvent

IsRequest(d) == HasKey(d, EVENT_NAME) /\ Number(d, EVENT_NAME) = DiscoveryRequest

\* A server without a password takes any.
PwdAccepted(d, pwd) ==
    pwd = <<>> \/ (HasString(d, PASSWORD) /\ TextOf(d, PASSWORD) = pwd)

\* A request for discovery needs no password.
ToEvent(r, pwd) ==
    LET d == Pairs(r)
        kind == IF HasKey(d, EVENT_NAME) THEN Number(d, EVENT_NAME) ELSE NoKind
    IN  IF IsRequest(d) THEN Event(DiscoveryRequest, 0, <<>>, <<>>)
        ELSE IF ~PwdAccepted(d, pwd) THEN NoEvent
        ELSE CASE kind = Mouse -> DecodeMouse(d)
               [] kind = Keyboard -> DecodeKeyboard(d)
               [] OTHER -> NoEvent

ToDiscoveryReplyEvent(r) ==
    LET d == Pairs(r)
    IN  IF /\ HasKey(d, EVENT_NAME) /\ Number(d, EVENT_NAME) = DiscoveryReply
           /\ HasText(d, REPLY_IPADDR, IpMax)
           /\ HasKey(d, REPLY_PORT)
        THEN Event(DiscoveryReply, 0, << Number(d, REPLY_PORT) % PortSize >>,
                   TextOf(d, REPLY_IPADDR))
        ELSE NoEvent

-----------------------------------------------------------------------------
(* The sender.                                                               *)

RemoveFields(d, k) == IF k = 0 THEN d ELSE RemoveAt(d, k)

\* What SN_PutObject puts for a message.
Pieces(d) == PutDict(d, [i \in DOMAIN d |-> PutLeaf(d[i].val)])

\* The buffer made for it is cleared before the object is put.  A field whose
\* objects or room in the dictionary cannot be allocated is left out.
Encode ==
    /\ event = NoEvent
    /\ sends < MaxSends
    /\ \E e \in Events[end] :
         LET d == Fields(e, current_pwd)
         IN  \E k \in 0 .. Len(d) :
               /\ k = 0 \/ failures < MaxFailures
               /\ event' = e
               /\ puts' = Pieces(RemoveFields(d, k))
               /\ whole' = (k = 0)
               /\ failures' = IF k = 0 THEN failures ELSE failures + 1
    /\ S!ClearBuffer
    /\ sends' = sends + 1
    /\ UNCHANGED <<setting, net, receiver>>

\* No caller looks at the status of SN_PutObject: what is there is sent.
Put ==
    /\ puts # <<>>
    /\ \/ /\ S!InsertBuffer(Head(puts))
          /\ puts' = Tail(puts)
          /\ UNCHANGED <<whole, failures>>
       \/ /\ failures < MaxFailures
          /\ S!InsertFails(Head(puts))
          /\ puts' = <<>>
          /\ whole' = FALSE
          /\ failures' = failures + 1
    /\ UNCHANGED <<setting, event, sends, net, receiver>>

\* The client sends no empty message.
Send ==
    /\ event # NoEvent
    /\ puts = <<>>
    /\ net' = IF end = "server" /\ S!GetBufferAvailable = 0 THEN net
              ELSE net \cup {[bytes |-> S!Contents, event |-> event, whole |-> whole]}
    /\ event' = NoEvent
    /\ S!ClearBuffer
    /\ UNCHANGED <<setting, puts, whole, sends, failures, receiver>>

Lose ==
    /\ \E m \in net : net' = net \ {m}
    /\ UNCHANGED <<setting, sender, sends, failures, receiver>>

-----------------------------------------------------------------------------
(* What the programs make events of.                                         *)

\* A text is never empty, and is made in an array as long as the one it gets
\* to; so is an address.
IsEvent(e) ==
    /\ e = Event(e.kind, e.type, e.nums, e.text)
    /\ e.type \in Nat /\ e.nums \in Seq(Int) /\ e.text \in Seq(Byte)
    /\ \/ /\ e.kind = Mouse
          /\ Len(e.nums) = IF IsWheel(e.type) THEN 1 ELSE 2
          /\ e.text = <<>>
       \/ /\ e.kind = Keyboard
          /\ \/ /\ e.type \in {FunctionKey, AsciiKey}
                /\ Len(e.nums) = 1
                /\ e.text = <<>>
             \/ /\ e.type = Text
                /\ e.nums = <<>>
                /\ Len(e.text) \in 1 .. TextMax - 1
       \/ e = Event(DiscoveryRequest, 0, <<>>, <<>>)
       \/ /\ e.kind = DiscoveryReply
          /\ e.type = 0
          /\ Len(e.nums) = 1 /\ e.nums[1] \in 0 .. PortSize - 1
          /\ Len(e.text) \in 1 .. IpMax - 1

Keys ==
    { PASSWORD, EVENT_NAME, MOUSE_EVENT_TYPE, MOUSE_X, MOUSE_Y, MOUSE_DATA,
      KEYBOARD_EVENT_TYPE, FUNCKEY_VALUE, ASCIIKEY_VALUE, TEXTKEY_VALUE,
      REPLY_IPADDR, REPLY_PORT }

\* The server makes replies and the client everything else, and the client's
\* array has room for whatever a reply becomes.
ASSUME MessageAssumption ==
    /\ RecvMax \in Nat
    /\ TextMax \in Nat
    /\ ToSet(Digits) \cup {"-", ":", "i", "d", "e"} \subseteq Byte
    /\ Keys \cup Passwords \subseteq Seq(Byte)
    /\ TextMax <= SizeLimit /\ IpMax <= SizeLimit
    /\ \A pwd \in Passwords : Len(pwd) < SizeLimit
    /\ \A e \in Events["server"] : IsEvent(e) /\ e.kind # DiscoveryReply
    /\ \A e \in Events["client"] :
          /\ IsEvent(e) /\ e.kind = DiscoveryReply
          /\ \A k \in 0 .. 3 :
                Len(FlattenSeq(Pieces(RemoveFields(ReplyFields(e), k)))) <= RecvMax

-----------------------------------------------------------------------------
(* The receiver.                                                             *)

NoDatagram == [bytes |-> <<>>, event |-> NoEvent, whole |-> TRUE]

\* Mutant: behind whatever the buffer holds.
ReceiveUncleared ==
    /\ pc = "idle"
    /\ \E m \in net :
         /\ net' \in {net, net \ {m}}
         /\ IF \/ end = "server" /\ Len(m.bytes) > RecvMax
               \/ end = "client" /\ m.bytes = <<>>
            THEN UNCHANGED receiver
            ELSE /\ receiving' = [m EXCEPT !.bytes =
                                    SubSeq(@, 1, Min({Len(@), RecvMax}))]
                 /\ UNCHANGED buffer
                 /\ pc' = "cleared"
                 /\ UNCHANGED got
    /\ UNCHANGED <<setting, sender, sends, failures>>

\* Winsock gives an error for a datagram longer than the array, recvfrom what
\* has room; either way it is gone, unless there is another copy.
Receive ==
    /\ pc = "idle"
    /\ \E m \in net :
         /\ net' \in {net, net \ {m}}
         /\ IF \/ end = "server" /\ Len(m.bytes) > RecvMax
               \/ end = "client" /\ m.bytes = <<>>
            THEN UNCHANGED receiver
            ELSE /\ receiving' = [m EXCEPT !.bytes =
                                    SubSeq(@, 1, Min({Len(@), RecvMax}))]
                 /\ IF end = "server" THEN ClearBuffer ELSE CreateBuffer(InitBufLen)
                 /\ pc' = "cleared"
                 /\ UNCHANGED got
    /\ UNCHANGED <<setting, sender, sends, failures>>

Insert ==
    /\ pc = "cleared"
    /\ \/ /\ InsertBuffer(receiving.bytes)
          /\ UNCHANGED <<receiving, failures>>
       \/ /\ failures < MaxFailures
          /\ InsertFails(receiving.bytes)
          /\ failures' = failures + 1
          /\ receiving' = [receiving EXCEPT !.whole = FALSE]
    /\ pc' = "filled"
    /\ UNCHANGED <<setting, sender, sends, net, got>>

\* What was decoded is erased; the client has no more use for its buffer.
Decode ==
    /\ pc = "filled"
    /\ LET r == SN_GetObject(Contents)
       IN  /\ got' = [from |-> receiving,
                      event |-> IF end = "server" THEN ToEvent(r, m_pwd)
                                ELSE ToDiscoveryReplyEvent(r)]
           /\ IF end = "server" THEN EraseBuffer(r.erased) ELSE ClearBuffer
    /\ pc' = "idle"
    /\ receiving' = NoDatagram
    /\ UNCHANGED <<setting, sender, sends, failures, net>>

MsgInit ==
    /\ end \in {"server", "client"}
    /\ current_pwd \in Passwords
    /\ m_pwd \in Passwords
    /\ event = NoEvent
    /\ puts = <<>>
    /\ S!BufferInit
    /\ whole = TRUE
    /\ sends = 0
    /\ failures = 0
    /\ net = {}
    /\ mem = IF end = "server" THEN [k \in 1 .. Larger(RecvMax, InitBufLen) |-> Unset]
             ELSE <<>>
    /\ read_cur = 0
    /\ write_cur = 0
    /\ receiving = NoDatagram
    /\ pc = "idle"
    /\ got = [from |-> NoDatagram, event |-> NoEvent]

MsgNext == Encode \/ Put \/ Send \/ Lose \/ Receive \/ Insert \/ Decode

MsgSpec == MsgInit /\ [][MsgNext]_msg_vars

-----------------------------------------------------------------------------
(* Properties.                                                               *)

\* What is left of an event at the other end: whole steps of the mouse.
AsWhole(e) ==
    CASE e.kind = Mouse -> [e EXCEPT !.nums = [k \in DOMAIN @ |-> Whole(@[k])]]
      [] e.kind # Mouse -> e

\* Decided by what the two users entered.
Admitted(e) ==
    \/ e.kind \notin {Mouse, Keyboard}
    \/ m_pwd = <<>>
    \/ current_pwd = m_pwd /\ ToSet(current_pwd) \cap NotAscii = {}

\* Whatever fails, is lost or comes twice, a datagram gives the event it was
\* made for or none, and none only if something failed or the passwords do not
\* agree: nothing that an earlier message left in a buffer, and no piece of a
\* message cut short, is taken for an event.
ReceivedAsSent ==
    LET sent == got.from.event
    IN  got.from # NoDatagram =>
            IF got.event = NoEvent THEN ~got.from.whole \/ ~Admitted(sent)
            ELSE got.event = AsWhole(sent) /\ Admitted(sent)
=============================================================================
