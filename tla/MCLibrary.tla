------------------------------ MODULE MCLibrary ------------------------------
(* The library over samples: matrices up to three by three, of every kind   *)
(* the operations tell apart; texts, formats, bytes, files, keys and arrays; *)
(* grammars of a few declarations. A behaviour is about one part.            *)
EXTENDS MatrixMeaning, TextMeaning, GrammarCode

VARIABLE part

Mat(rows, cols, s) == [nrows |-> rows, ncols |-> cols, m |-> [k \in 0 .. rows * cols - 1 |-> Q(s[k + 1])]]
Vec(s) == [count |-> Len(s), v |-> [k \in 0 .. Len(s) - 1 |-> Q(s[k + 1])]]

Tiny == {Mat(1, 1, <<a>>) : a \in -1 .. 2}
Small2 == {Mat(2, 2, <<a, b, c, d>>) : a \in -1 .. 2, b \in -1 .. 2, c \in -1 .. 2, d \in -1 .. 2}
Square3 ==
    {Mat(3, 3, <<a, b, c, d, e, f, 1, h, 2>>) :
        a \in 0 .. 1, b \in -1 .. 1, c \in 0 .. 1, d \in 0 .. 1, e \in -1 .. 1, f \in 0 .. 1, h \in -1 .. 1}
Symmetric3 ==
    {Mat(3, 3, <<a, b, c, b, d, e, c, e, f>>) :
        a \in 0 .. 2, b \in -1 .. 1, c \in -1 .. 1, d \in 1 .. 2, e \in -1 .. 0, f \in 1 .. 2}
Wide == {Mat(2, 3, <<a, b, c, d, 1, f>>) : a \in 0 .. 1, b \in -1 .. 1, c \in 0 .. 1, d \in 0 .. 1, f \in -1 .. 1}
High == {Mat(3, 2, <<a, b, c, d, 1, f>>) : a \in 0 .. 1, b \in -1 .. 1, c \in 0 .. 1, d \in 0 .. 1, f \in -1 .. 1}

\* Either vector has numbers of both signs, or none.
SampleOf(A) ==
    [mat |-> A,
     other |-> Mat(A.nrows, 2, [i \in 1 .. 2 * A.nrows |-> i - 2]),
     vec |-> Vec([i \in 1 .. A.nrows |-> IF Val(A, 0, 0) = Zero THEN i ELSE 2 * i * (i - 1) - 3]),
     dest |-> Mat(2, 2, <<7, 7, 7, 7>>),
     out |-> Vec(<<9, 8>>)]

MCSamples == {SampleOf(A) : A \in Tiny \cup Small2 \cup Square3 \cup Symmetric3 \cup Wide \cup High}

-----------------------------------------------------------------------------
MCSpace == {32}
MCZeros == {48, 1632}
Words(S, n) == UNION {[1 .. k -> S] : k \in 0 .. n}
MCNumerals == Words({32, 43, 45, 48, 49, 55, 70, 120, 1634}, 4)
   \cup {s \o t : s \in Words({48, 51, 46}, 2), t \in {u \o v : u \in {<<46>>, <<>>}, v \in Words({49, 50, 46}, 2)}}
   \cup {s \o t \o e : s \in Words({48, 51, 46}, 2), t \in {<<101>>, <<69, 45>>, <<101, 43>>}, e \in {<<>>, <<49>>, <<50, 46>>, <<120>>}}
   \cup {<<45>> \o s : s \in {<<49, 46, 53>>, <<49, 50, 56>>, <<49, 50, 57>>, <<48, 88, 70, 70>>}}
MCNumbers == -127 .. 255
MCPairs == Words({32, 65, 97, 98}, 4) \X Words({65, 97, 98}, 3)
MCBytes == Words({0, 97, 255}, 5) \ {<<>>}
D(conv, mod, flags, width, dot, prec, arg, neg) ==
  [conv |-> conv, mod |-> mod, flags |-> flags, width |-> width, dot |-> dot, prec |-> prec, arg |-> arg, neg |-> neg]
MCDirectives ==
   {D(c, m, f, w, d, p, a, n) : c \in {"c", "d", "x", "e", "f", "s"}, m \in {"", "I", "l"}, f \in {{}, {"+"}, {"#"}},
     w \in {-3, 0, 5, 40}, d \in {TRUE}, p \in {0, 3, 31, 140}, a \in {1, 19}, n \in BOOLEAN}
   \cup {D(c, "", {}, w, FALSE, 0, a, FALSE) : c \in {Character, Percent, "p", "n", "g", "C", "o", "k"}, w \in {0, 50}, a \in {1, 22}}
   \cup {D(c, "h", {}, w, p > 0, p, a, FALSE) : c \in {"s", "S"}, w \in {0, 5, 40}, p \in {0, 3, 50}, a \in {NoString, 0, 4, 60}}
MCArrays == Words(0 .. 3, 5) \cup [1 .. 7 -> 0 .. 2]

MCPrintable == 32 .. 126
MCEscapable == Words({1, 10, 34, 48, 65, 92, 110, 120}, 4)
MCCodePages == << [b \in 0 .. 127 |-> b], [b \in 0 .. 127 |-> b], [b \in (0 .. 127) \cup 160 .. 254 |-> b] >>
MCSavedTexts ==
    {"ascii", "utf8", "utf16be", "utf16le", "utf32be", "utf32le"}
        \X Words({65, 233, 2047, 2048, 65279, 65534, 65535}, 3)
MCFiles ==
    {mark \o s : mark \in {<<>>, <<239, 187, 191>>, <<254, 255>>, <<255, 254>>, <<0, 0, 254, 255>>, <<255, 254, 0, 0>>},
                 s \in Words({0, 65, 128, 195, 224, 240, 254}, 4)}

-----------------------------------------------------------------------------
Sign(is) == [is |-> is, text |-> <<>>]
Key(c) == [is |-> "char", text |-> <<c>>]
Brace(inside) == [is |-> "{", text |-> inside]
NameOf(name, VKey, normalkey) == [name |-> name, VKey |-> VKey, normalkey |-> normalkey]
MCKeyNames ==
   << NameOf(<<65, 84>>, 64, TRUE), NameOf(<<66, 83>>, 8, FALSE), NameOf(<<68, 69, 76>>, 46, FALSE),
      NameOf(<<68, 69, 76, 69, 84, 69>>, 46, FALSE), NameOf(<<70, 49>>, 112, FALSE),
      NameOf(<<70, 49, 48>>, 121, FALSE), NameOf(<<70, 49, 54>>, 127, FALSE), NameOf(<<70, 50>>, 113, FALSE),
      NameOf(<<76, 69, 70, 84>>, 37, FALSE), NameOf(<<76, 69, 70, 84, 66>>, 123, TRUE),
      NameOf(<<78, 85, 77>>, 144, FALSE) >>
MCExtendedVKeys == {37, 46}
\* "a", "A", "@" with AltGr; "{" is on no key.
MCKeyLayout == (97 :> 65) @@ (65 :> 321) @@ (64 :> 1617)
MCDesktop == << [title |-> <<97>>, class |-> <<98>>], [title |-> <<65, 97>>, class |-> <<98>>] >>

BraceTexts == {<<100, 101, 108>>, <<70, 49>>, <<78, 85, 77>>, <<65, 84>>, <<76, 69>>, <<76, 69, 70, 84, 66>>, <<>>, <<90>>,
           <<68, 69, 76, 32, 51>>, VKEY \o <<32, 55>>, DELAY \o <<61, 57>>, <<65, 65, 65, 65, 65, 65, 65, 65, 65>>}
Signs == {Sign(is) : is \in {"(", ")", "%", "+", "~"}}
MCKeyStrings ==
    {[keys |-> keys, times |-> times] :
        keys \in Words({Brace(w) : w \in BraceTexts} \cup Signs \cup {Key(65), Key(64)}, 3)
                 \cup Words({Sign("("), Sign(")"), Sign("+"), Sign("^"), Key(97), Key(65)}, 5)
                 \cup Words({Sign("@"), Sign("%"), Sign("("), Key(123)}, 3),
        times \in {0, 2}}

-----------------------------------------------------------------------------
Lexeme(str) == [val |-> "lexeme", str |-> str]
Braces(c) == [val |-> "action_ins", str |-> << "{", ":", c, ":", "}" >>]

Name(c) == Lexeme(<< c >>)
Quoted(c) == Lexeme(<< "'", " ", c, "'" >>)
HandleS == Lexeme(<< "h", "a", "n", "d", "l", "e", "_", "s" >>)
Nothing == Lexeme(<< "N", "U", "L", "L" >>)

Token(skip, name, val, prec, value, action, regex) ==
    [kind |-> "token", is_skip |-> skip, name |-> name, val |-> val, regex |-> regex,
     prec |-> prec, value |-> value, action |-> action, junk |-> FALSE]

Rhs(terms, prec, action) == [terms |-> terms, prec |-> prec, action |-> action]
Rule(lhs, rhs_list) == [kind |-> "rule", lhs |-> lhs, rhs_list |-> rhs_list, junk |-> FALSE]
Prec(assoc, terms) ==
    [kind |-> "prec", assoc |-> [val |-> "assoc", str |-> assoc], terms |-> terms, junk |-> FALSE]

MCDeclarations ==
    { [kind |-> "name", name |-> Name("d"), regex |-> Quoted("1"), junk |-> TRUE],
      Token(FALSE, Name("a"), <<>>, <<>>, <<>>, << Name("f") >>, Quoted("a")),
      Token(FALSE, Quoted("a"), << 0 >>, << 1 >>, << Name("A") >>, << Name("f"), Braces("x") >>, Name("a")),
      Token(FALSE, Name("b"), << 257 >>, << 99999 >>, << Name("A") >>, << Name("f"), Braces("y") >>, Quoted("b")),
      Token(FALSE, Name("c"), << 258 >>, <<>>, <<>>, << Nothing >>, Quoted("c")),
      Token(TRUE, Name("e"), <<>>, <<>>, <<>>, << Name("g") >>, Quoted("e")),
      Prec(<< "%", "r" >>, << Quoted(" ") >>),
      Prec(<< "%", "l" >>, << Name("z"), Name("b"), Name("z") >>),
      Prec(<< "%", "n" >>, << Name("a"), Name("z") >>),
      Rule(Name("s"), << Rhs(<< Name("a"), Quoted("s") >>, << Name("z") >>, <<>>),
                         Rhs(<<>>, <<>>, << Name("f"), Braces("x") >>) >>),
      Rule(Name("t"), << Rhs(<< Name("b") >>, <<>>, << HandleS, Braces("y") >>),
                         Rhs(<< Name("s") >>, <<>>, << Nothing >>),
                         Rhs(<< Name("t") >>, <<>>, << Name("f") >>) >>),
      [kind |-> "start", name |-> Name("t"), junk |-> FALSE],
      [kind |-> "start", name |-> Name("s"), junk |-> FALSE],
      [kind |-> "code", name |-> <<>>, ins |-> Braces("x"), attrs |-> << Name("b"), Lexeme(BottomAttr) >>, junk |-> FALSE],
      [kind |-> "code", name |-> << Name("b") >>, ins |-> Braces("y"), attrs |-> <<>>, junk |-> FALSE],
      [kind |-> "error", toks |-> << Name("a") >>, junk |-> TRUE],
      [kind |-> "empty", junk |-> FALSE] }

-----------------------------------------------------------------------------
grammarVars == <<collectorVars, codeVars>>
textVars == <<kind, text>>

MCInit ==
    /\ part \in {"matrix", "text", "grammar"}
    /\ SampleInit
    /\ TextInit
    /\ CodeInit

MCNext ==
    \/ part = "matrix" /\ TakeSample /\ UNCHANGED <<part, textVars, grammarVars>>
    \/ part = "text" /\ TakeText /\ UNCHANGED <<part, sample, grammarVars>>
    \/ part = "grammar" /\ CodeNext /\ UNCHANGED <<part, sample, textVars>>

MCSpec == MCInit /\ [][MCNext]_<<part, sample, textVars, grammarVars>>
=============================================================================
