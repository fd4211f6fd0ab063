------------------------------ MODULE MCParser -------------------------------
(* Parsers for small grammars of the kinds the tests use; and, apart from    *)
(* them, lexers like those of the tests and of the grammar tools, and the    *)
(* one of the address fields.                                                *)
EXTENDS GrammarMeaning, Lexer

VARIABLE part   \* "parser" or "lexer"

-----------------------------------------------------------------------------
(* Lexers.                                                                   *)

MCLineTerminator == 10 .. 13
MCSpace == {9, 32} \cup MCLineTerminator
MCDigit == [i \in 1 .. 10 |-> 47 + i]
MCLower == [c \in 0 .. 127 |-> IF c \in 65 .. 90 THEN c + 32 ELSE c]
MCUpper == [c \in 0 .. 127 |-> IF c \in 97 .. 122 THEN c - 32 ELSE c]

\* The characters of the texts.
a == 97
b == 98
B == 66
sp == 32
star == 42
slash == 47

Gives(expr, value, priority) ==
    [expr |-> expr, value |-> value, priority |-> priority, is_skip |-> FALSE]
Skips(expr, priority) ==
    [expr |-> expr, value |-> 0, priority |-> priority, is_skip |-> TRUE]
Def(name, expr) == [name |-> name, expr |-> expr]

One(c) == Set(FALSE, << <<c, c>> >>)
Letters == Set(FALSE, << <<a, b>> >>)
But(c, d) == Set(TRUE, << <<c, c>>, <<d, d>> >>)

Upto(chars, n) == UNION {[1 .. k -> chars] : k \in 0 .. n}

LexerFor(caller, names, rules, texts, flags) ==
    [caller |-> caller, names |-> names, rules |-> rules, texts |-> texts, flags |-> flags]

\* Lines: CR a token of its own, so that a token may end within a CR LF.
Lines == LexerFor("any", <<>>,
    << Gives(Lit(CR), 1, 0), Gives(Plus(Letters), 2, 0),
       Skips(Plus(Set(FALSE, << <<sp, sp>>, <<LF, LF>> >>)), 0) >>,
    Upto({a, CR, LF}, 4), {{}})

\* Words: of one priority, the first inserted; of another, the higher.
Words == LexerFor("any", << Def("letter", Letters), Def("letter", Lit(sp)) >>,
    << Gives(Quote(<<a, b>>), 1, 0), Gives(Plus(Name("letter")), 2, 0),
       Gives(Cat(<<Quote(<<a, b, a>>), Look(Name("letter"), TRUE)>>), 3, 1),
       Gives(Count(Lit(b), 2, 3, FALSE), 4, 2), Skips(One(sp), 0), Gives(Edge("$"), 0, 2) >>,
    Upto({a, b, sp}, 4), {{}})

\* Edges and flags.
Edges == LexerFor("any", <<>>,
    << Gives(Cat(<<Edge("\\B"), Lit(b)>>), 1, 1), Gives(Cat(<<Edge("^"), AnyChar>>), 2, 0),
       Gives(Cat(<<AnyChar, Edge("\\E")>>), 3, 0), Gives(Cat(<<Lit(a), AnyChar>>), 4, 0) >>,
    Upto({a, B, LF}, 3), {{}, {"single_line"}, {"ignore_case"}})

\* Rules that take nothing.
Empties == LexerFor("any", <<>>,
    << Skips(Star(Lit(a)), 1), Gives(Edge("$"), 0, 2), Gives(Plus(Lit(b)), 1, 0) >>,
    Upto({a, b}, 3), {{}})

\* Where threads go astray.
Astray == LexerFor("any", <<>>,
    << Gives(Cat(<<Alt(<<Count(Lit(a), 2, 2, FALSE), Lit(a)>>), Lit(a), Lit(b)>>), 1, 1),
       Gives(Cat(<<Star(Edge("^")), Lit(b)>>), 2, 0) >>,
    { <<a, a, b>>, <<a, b>>, <<b>> }, {{}})

\* The lexer of grammars (grammar_collector.c), cut down.
Comment ==
    Cat(<<Lit(slash), Lit(star),
          Star(Alt(<<But(star, star), Cat(<<Plus(Lit(star)), But(star, slash)>>)>>)),
          Plus(Lit(star)), Lit(slash)>>)

Grammars(caller, texts) == LexerFor(caller,
    << Def("delim", Plus(Set(FALSE, << <<sp, sp>>, <<CR, CR>>, <<LF, LF>> >>))),
       Def("comment", Comment), Def("skip", Name("delim")),
       Def("key", Alt(<<Plus(Name("skip")), Quote(<<slash>>)>>)) >>,
    << Gives(Edge("$"), 0, 2), Skips(Plus(Name("skip")), 1), Gives(Name("comment"), 1, 1),
       Gives(Cat(<<Quote(<<b, a>>), Look(Name("key"), FALSE)>>), 2, 0),
       Gives(Plus(Letters), 3, 0), Gives(Quote(<<Semicolon>>), 4, 1) >>,
    texts, {{}})

(* ---- the address fields --------------------------------------------------- *)

D(i) == Lit(MCDigit[i + 1])
DigitSet(i, j) == Set(FALSE, << <<MCDigit[i + 1], MCDigit[j + 1]>> >>)
AnOctet == Alt(<<Count(Name("digit"), 1, 2, FALSE),
                 Cat(<<D(1), Name("digit"), Name("digit")>>),
                 Cat(<<D(2), DigitSet(0, 4), Name("digit")>>),
                 Cat(<<D(2), D(5), DigitSet(0, 5)>>)>>)
IpPattern ==
    Cat(<<AnOctet, Lit(Dot), AnOctet, Lit(Dot), AnOctet, Lit(Dot), AnOctet,
          Look(Name("digit"), TRUE)>>)

Dg(i) == MCDigit[i + 1]

Typed ==
    LET Numbers(n) == Upto({Dg(0), Dg(1), Dg(2), Dg(5), Dg(6)}, n)
        With(n, k) == FlattenSeq([i \in 1 .. 7 |-> IF i % 2 = 0 THEN <<Dot>>
                                     ELSE IF i = 2 * k - 1 THEN n ELSE <<Dg(9)>>])
        Address == With(<<Dg(2), Dg(5), Dg(5)>>, 4) IN
    {With(n, k) : n \in Numbers(3), k \in {1, 4}}
    \cup {With(n, k) \o more : n \in {<<Dg(9)>>, <<Dg(1), Dg(0), Dg(0), Dg(0)>>}, k \in 1 .. 4,
                               more \in {<<>>, <<Dot>>, <<sp>>}}
    \cup {Address \o <<Colon>> \o n : n \in Numbers(2) \cup
             { [i \in 1 .. 5 |-> Dg(6)], [i \in 1 .. 7 |-> Dg(5)] }}
    \cup {<<sp>> \o Address \o <<sp, Colon, sp, Dg(8)>>, Address \o <<sp, Dg(8)>>,
          Address \o <<sp>> \o Address, Address \o <<Colon, Colon, Dg(8)>>,
          <<Colon, Dg(8)>>, <<Dg(8), Dg(8)>>, <<a>>, Address \o <<a>>}
    \cup {[i \in 1 .. n |-> Dg(1)] \o more : n \in {15, 16}, more \in {<<>>, <<Colon, Dg(8)>>}}

Addresses == LexerFor("address",
    << Def("delim", Set(FALSE, << <<sp, sp>>, <<CR, CR>>, <<9, 9>>, <<LF, LF>> >>)),
       Def("digit", DigitSet(0, 9)) >>,
    << Skips(Plus(Name("delim")), 1), Gives(IpPattern, IpValue, 0),
       Gives(Lit(Colon), ColonValue, 0), Gives(Plus(Name("digit")), PortValue, 0) >>,
    Typed, {{}})

MCLexers ==
    << Lines, Words, Edges, Empties, Astray,
       Grammars("lexical_set", Upto({a, slash, star, LF}, 4)),
       Grammars("collector", Upto({b, slash, Semicolon, sp}, 4)),
       Grammars("print", Upto({a, slash, CR, LF}, 3)),
       Addresses >>

MCSkipToTarget == {<<b>>, <<a, a>>, <<CR>>}
-----------------------------------------------------------------------------
(* Parsers.                                                                  *)

Val(name) == CASE name = "-" -> 357
               [] name = "*" -> 358
               [] name = "^" -> 613
               [] name = "number" -> 256
               [] name = "(" -> 300
               [] name = ")" -> 301
               [] name = "=" -> 302
               [] name = ";" -> 303
               [] name = "UMINUS" -> 65535

Plain(name) == Term(name, Val(name), "nonassoc", 0)

R(head, body) == Rule(head, body, NoPrec)

\* Test/calc_test.c, with a right-associative operator; the second "-", the
\* term below the least value and the two last rules are refused.
Calc == Grammar(
    << Term("-", Val("-"), "left", 1), Term("*", Val("*"), "left", 2),
       Term("^", Val("^"), "right", 3), Plain("number"),
       Term("UMINUS", Val("UMINUS"), "right", 4),
       Term("-", 1000, "left", 5), Term("low", 255, "left", 5) >>,
    << R("E", <<"E", "-", "E">>), R("E", <<"E", "*", "E">>),
       R("E", <<"E", "^", "E">>), Rule("E", <<"-", "E">>, "UMINUS"),
       R("E", <<"number">>), R("-", <<"E">>), Rule("E", <<"E", "E">>, "low") >>)

\* Test/psr_misc.c: S : ( S ) S | .
Balanced == Grammar(<< Plain("("), Plain(")") >>,
                    << R("S", <<"(", "S", ")", "S">>), R("S", <<>>) >>)

\* LALR(1), and not SLR(1).
Pointers == Grammar(<< Plain("="), Plain("*"), Plain("number") >>,
    << R("S", <<"L", "=", "R">>), R("S", <<"R">>), R("L", <<"*", "R">>),
       R("L", <<"number">>), R("R", <<"L">>) >>)

\* Statements, of which a wrong one is skipped up to its ";".
Statements == SetStartRule(
    Grammar(<< Plain("number"), Plain(";"), Plain("("), Plain(")") >>,
    << R("S", <<"number", ";">>), R("S", <<Error, ";">>), R("L", <<"L", "S">>),
       R("L", <<>>), R("B", <<"(", "L", ")">>) >>), "B")

\* The same where an error alone is a statement, three reductions deep.
Chain == Grammar(<< Plain("number"), Plain(";"), Plain("("), Plain(")") >>,
    << R("P", <<"L", ";">>), R("L", <<"L", "S">>), R("L", <<"S">>), R("S", <<"A">>),
       R("A", <<"C">>), R("C", <<"number">>), R("C", <<Error>>),
       R("A", <<"(", "L", ")">>) >>)

\* auto: the rules without a handler and the child they return.
Of(g, type, tokens, auto) ==
    [grammar |-> g, type |-> type,
     auto_ret |-> [n \in DOMAIN g.rules |-> IF n \in DOMAIN auto THEN auto[n] ELSE 0],
     tokens |-> {EndOfInput} \cup {Val(x) : x \in tokens}]

\* Of the statements, those with a number return it, a wrong one nothing.
MCParserList ==
    << Of(Calc, "LALR", {"-", "*", "^", "number"}, <<>>),
       Of(Calc, "SLR", {"-", "*", "number"}, <<>>),
       Of(Balanced, "LALR", {"(", ")"}, <<>>),
       Of(Balanced, "SLR", {"(", ")"}, <<>>),
       Of(Pointers, "LALR", {"=", "*", "number"}, <<>>),
       Of(Statements, "LALR", {"number", ";", "(", ")"}, 2 :> 1 @@ 3 :> 3),
       Of(Chain, "LALR", {"number", ";", "(", ")"}, <<>>) >>

\* Each made once.
MCParsers == [p \in 1 .. 7 |-> MCParserList[p]]

TablesOf(parser) == CreateActionTable(parser.grammar, parser.type)
MCTableList == [p \in 1 .. 7 |-> TablesOf(MCParserList[p])]
MCTables == [p \in 1 .. 7 |-> MCTableList[p]]

\* One parser, no lexer; and the lexer of the address fields alone.
MCRepairParsers == <<MCParserList[7]>>
MCRepairTables == <<MCTableList[7]>>
MCNoLexers == <<>>
MCAddressLexers == <<Addresses>>

NoLexer ==
    /\ match = CreateMatch(1, <<>>, {})
    /\ tok = NoToken
    /\ matched = "none"
    /\ reading = FALSE
    /\ turn = FALSE
    /\ answer = NoAnswer

MCInit ==
    \/ part = "parser" /\ Init /\ NoLexer
    \/ part = "lexer" /\ Init /\ psr = 1 /\ LexInit

MCNext ==
    \/ part = "parser" /\ ParserNext /\ UNCHANGED <<lexVars, part>>
    \/ part = "lexer" /\ LexNext /\ UNCHANGED <<vars, part>>

MCSpec ==
    MCInit /\ [][MCNext]_<<vars, lexVars, part>> /\ ParserFairness
=============================================================================
