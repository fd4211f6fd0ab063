------------------------------- MODULE MCWire --------------------------------
(* Messages between the two programs; and, apart from them, what they stand  *)
(* on: the buffer in the hands of any caller, objects that no message has,   *)
(* and the heap.                                                             *)
EXTENDS NetMessage, Heap

VARIABLE part   \* "messages", "buffer", "heap", or "object" and which

Bytes ==
    ToSet(Digits) \cup {"a", "b", "c3", "a9", "i", "e", "d", "l", "-", ":", "."}
    \cup {"PWD", "EVT", "TP", "X", "Y", "D", "KBEVT", "FUNC_VALUE", "ASCII_VALUE",
          "TEXT_VALUE", "IP", "PORT"}

MCData == { <<"a">>, <<"b", "a">>, <<"a", "a", "b">> }

\* A move with a fraction, the wheel, a key, a text that looks like an
\* encoding, one of which the server has no room for, and a request; replies
\* with and without an address.
MCEvents ==
    [server |-> { Event(Mouse, 0, << -25, 3 >>, <<>>),
                  Event(Mouse, MouseWheel, << 240 >>, <<>>),
                  Event(Keyboard, FunctionKey, << 33 >>, <<>>),
                  Event(Keyboard, AsciiKey, << 97 >>, <<>>),
                  Event(Keyboard, Text, <<>>, << "3", ":", "e" >>),
                  Event(Keyboard, Text, <<>>, << "a", "c3", "a9", "a", "c3" >>),
                  Event(DiscoveryRequest, 0, <<>>, <<>>) },
     client |-> { Event(DiscoveryReply, 0, << 8901 >>, << "1", ".", "2" >>),
                  Event(DiscoveryReply, 0, << 65535 >>, << "0", ".", "0" >>) }]

MCPasswords == { <<>>, << "a", "1" >>, << "c3", "a9" >> }

Objects ==
    { SnInt(-120), SnInt(0), SnStr(<<"e">>), SnList(<<>>), SnDict(<<>>),
      SnStr([k \in 1 .. 11 |-> "1"]),
      SnList(<< SnInt(7), SnList(<<>>), SnDict(<< Pair(<<"a">>, SnList(<< SnStr(<<"l">>) >>)) >>) >>),
      SnDict(<< Pair(<<"b">>, SnInt(10)), Pair(<<"a", "b">>, SnDict(<< Pair(<<"b">>, SnInt(-1)) >>)),
              Pair(<<"a">>, SnStr(<<"i", "1">>)) >>) }

\* As many pairs as a dictionary can hold, and one more, which only a text has.
Numbered(n) == SnDict([k \in 1 .. n |-> Pair(<<Digits[k]>>, SnInt(k % 10))])

MCObjects == Objects \cup {Numbered(HeldPairs), Numbered(HeldPairs + 1)}

Load(sizes, most, pages) == [sizes |-> sizes, most |-> most, pages |-> pages]

\* Small blocks that use up pages; each kind of block; pages that are full and
\* have room again; and medium blocks of two sizes that split and merge.
MCLoads ==
    { Load({4, 7}, 3, 3), Load({7, 8, 16}, 3, 3), Load({15}, 6, 4),
      Load({8, 15}, 4, 3) }

\* Objects in objects, which no message has.
RECURSIVE PutObject(_)
PutObject(obj) ==
    CASE obj.t \in {"int", "string"} -> PutLeaf(obj)
      [] obj.t = "list" -> PutList([i \in DOMAIN obj.v |-> PutObject(obj.v[i])])
      [] obj.t = "dict" ->
            PutDict(obj.v, [i \in DOMAIN obj.v |-> PutObject(obj.v[i].val)])

RECURSIVE Same(_, _)
Same(x, y) ==
    /\ x.t = y.t
    /\ CASE x.t \in {"int", "string"} -> x.v = y.v
         [] x.t = "list" ->
               /\ Len(x.v) = Len(y.v)
               /\ \A i \in DOMAIN x.v : Same(x.v[i], y.v[i])
         [] x.t = "dict" ->
               /\ Len(x.v) = Len(y.v)
               /\ \A i \in DOMAIN x.v :
                     x.v[i].key = y.v[i].key /\ Same(x.v[i].val, y.v[i].val)

RECURSIVE Outgrown(_)
Outgrown(obj) ==
    CASE obj.t \in {"int", "string"} -> FALSE
      [] obj.t = "list" -> \E i \in DOMAIN obj.v : Outgrown(obj.v[i])
      [] obj.t = "dict" ->
            Len(obj.v) > HeldPairs \/ \E i \in DOMAIN obj.v : Outgrown(obj.v[i].val)

\* Decoding what was put for an object gives the object, unless a dictionary of
\* it has more pairs than it holds, and takes its bytes and no more, whatever
\* comes behind; a part of them is no object.
ObjectsRoundTrip ==
    part.name = "object" /\ sends = 1 /\ puts = <<>> =>
        LET Cut(n) == SubSeq(S!Contents, 1, n)
        IN  IF ~whole THEN ~SN_GetObject(S!Contents).ok
            ELSE /\ \A more \in {<<>>, <<"e">>, <<"1">>} :
                      LET r == SN_GetObject(S!Contents \o more)
                      IN  /\ r.ok
                          /\ r.erased = S!GetBufferAvailable
                          /\ Same(r.obj, part.obj) <=> ~Outgrown(part.obj)
                 /\ \A n \in 0 .. S!GetBufferAvailable - 1 : ~SN_GetObject(Cut(n)).ok

Part(name, obj) == [name |-> name, obj |-> obj]

Alone == end = "client" /\ current_pwd = <<>> /\ m_pwd = <<>>

NoLoad == heap = NoHeap /\ held = <<>> /\ load = Load({}, 0, 0)

\* Two passwords that do not agree need not both be tried outside ASCII, and a
\* reply has none.
FewPasswords ==
    /\ end = "client" => Alone
    /\ ToSet(m_pwd) \cap NotAscii # {} => current_pwd = m_pwd

MCInit ==
    \/ part = Part("messages", SnInt(0)) /\ MsgInit /\ FewPasswords /\ NoLoad
    \/ part = Part("buffer", SnInt(0)) /\ MsgInit /\ Alone /\ NoLoad
    \/ part = Part("heap", SnInt(0)) /\ MsgInit /\ Alone /\ HeapInit
    \/ \E obj \in MCObjects :
          part = Part("object", obj) /\ MsgInit /\ Alone /\ NoLoad

PutAlone ==
    /\ sends = 0
    /\ S!ClearBuffer
    /\ puts' = PutObject(part.obj)
    /\ sends' = 1
    /\ UNCHANGED <<setting, event, whole, failures, net, receiver>>

MCNext ==
    \/ part.name = "messages" /\ MsgNext /\ UNCHANGED <<heap_vars, part>>
    \/ /\ part.name = "buffer"
       /\ BufferNext
       /\ UNCHANGED <<setting, sender, sends, failures, net, receiving, pc, got>>
       /\ UNCHANGED <<heap_vars, part>>
    \/ part.name = "heap" /\ HeapNext /\ UNCHANGED <<msg_vars, part>>
    \/ part.name = "object" /\ (PutAlone \/ Put) /\ UNCHANGED <<heap_vars, part>>

MCSpec == MCInit /\ [][MCNext]_<<msg_vars, heap_vars, part>>
=============================================================================
