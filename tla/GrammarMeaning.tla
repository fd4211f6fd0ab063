---------------------------- MODULE GrammarMeaning ---------------------------
(* What a grammar means, by definition and not by the program: the prefixes *)
(* of its sentences, and the lookaheads of LALR(1) as the union of those of  *)
(* the canonical LR(1) states with the same core; and that the tables and    *)
(* the parser that goes by them have that meaning.                           *)
EXTENDS LalrTables, Parser

Truncated(s, n) == SubSeq(s, 1, IF Len(s) < n THEN Len(s) ELSE n)

\* One of S then one of T, cut after n symbols.
Joined(S, T, n) ==
    UNION {{s \o t : s \in {u \in S : Len(u) = m},
                     t \in {Truncated(v, n - m) : v \in T}} : m \in 0 .. n}

RECURSIVE DerivedFrom(_, _, _)
DerivedFrom(g, n, known) ==
    LET Of(body) == FoldLeft(LAMBDA S, x : Joined(S, known[x], n), {<<>>}, body)
        more == [x \in DOMAIN known |->
                    known[x] \cup UNION {Of(r.body) :
                                         r \in {s \in Rules(g) : s.head = x}}]
    IN  IF more = known THEN known ELSE DerivedFrom(g, n, more)

\* What %START derives and the end of input, cut after n symbols.
SentencesUpTo(g, n) ==
    Joined(DerivedFrom(g, n, [x \in TermNames(g) \cup NonTerms(g) |->
                                IF x \in TermNames(g) THEN {<<x>>} ELSE {}])[Start],
           {<<EOI>>}, n)

\* Every beginning of a sentence with at most n symbols.
ViablePrefixes(g, n) ==
    UNION {{SubSeq(s, 1, k) : k \in 0 .. Len(s)} : s \in SentencesUpTo(g, n)}

\* Canonical LR(1): items <<rule, mark, lookahead>>.

Core(items) == {<<c[1], c[2]>> : c \in items}

RECURSIVE Closure1(_, _, _, _)
Closure1(g, first, empty, items) ==
    LET Ahead(c) == FirstOf(first, empty, Rest(g, c))
                    \cup IF ToSet(Rest(g, c)) \subseteq empty THEN {c[3]} ELSE {}
        more == items \cup
                UNION {{<<n, 0, t>> : n \in RulesOf(g, Next(g, c)), t \in Ahead(c)} :
                            c \in {d \in items : ~AtEnd(g, d)}}
    IN  IF more = items THEN items ELSE Closure1(g, first, empty, more)

Kernel(items) == {c \in items : c[2] > 0 \/ c[1] = 1}

RECURSIVE Canonical(_, _, _, _)
Canonical(g, first, empty, sets) ==
    LET Shifted(I, x) == {<<c[1], c[2] + 1, c[3]>> :
                            c \in {d \in I : ~AtEnd(g, d) /\ Next(g, d) = x}}
        more == sets \cup
                {Closure1(g, first, empty, Shifted(p[1], p[2])) :
                    p \in {q \in sets \X (TermNames(g) \cup NonTerms(g)) :
                                Shifted(q[1], q[2]) # {}}}
    IN  IF more = sets THEN sets ELSE Canonical(g, first, empty, more)

\* Each finished config of an LR(0) state, and the terms it may be reduced on.
MergedLookaheads(g) ==
    LET first == CalcFirstSet(g)
        empty == CanEmpty(g)
        sets == Canonical(g, first, empty,
                          {Closure1(g, first, empty, {<<1, 0, EOI>>})})
    IN  UNION {{<<Core(Kernel(I)), <<c[1], c[2]>>, c[3]>> :
                    c \in {d \in I : AtEnd(g, d)}} : I \in sets}

\* The same of the program's follow sets.
BuiltLookaheads(g) ==
    LET set == States(g)
        follow_set == FollowSets(g, set)
    IN  UNION {{<<set[n[1]], n[2], t>> : t \in follow_set[n]} :
                    n \in {m \in Nodes(g, set) : AtEnd(g, m[2])}}

-----------------------------------------------------------------------------
(* Properties.                                                               *)

RECURSIVE Leaves(_)
Leaves(node) ==
    IF node.at > 0 THEN <<node.at>>
    ELSE FoldLeft(LAMBDA s, kid : s \o Leaves(kid), <<>>, node.kids)

Viable == [p \in DOMAIN Parsers |->
              ViablePrefixes(Parsers[p].grammar, MaxTokens)]

\* What was added, by the grammar's list of terms.
Names == [k \in DOMAIN input |->
            (CHOOSE t \in ToSet(Parsers[psr].grammar.terms) : t.val = input[k]).name]

\* An operator's operands bind tighter, or as tight on the side it associates.
RECURSIVE BindsTighter(_, _)
BindsTighter(g, node) ==
    LET info(n) == FindTermByName(g, g.rules[n.rule].prec_tok)
        IsBinary(n) == Len(n.kids) = 3
        Tighter(kid, side) ==
            IsBinary(kid) =>
                \/ info(kid).prec > info(node).prec
                \/ info(kid).prec = info(node).prec /\ info(node).assoc = side
    IN  node.kids # <<>> =>
            /\ \A k \in DOMAIN node.kids : BindsTighter(g, node.kids[k])
            /\ IsBinary(node) => Tighter(node.kids[1], "left")
            /\ Tighter(Last(node.kids), "right")

HasPrecedence(g) == \E t \in ToSet(g.terms) : t.prec > 0

\* The parser is its grammar's: tokens are taken without complaint only while
\* a sentence begins with them, the first error is at the first token no
\* sentence goes on with, and the tree accepted has the tokens as its leaves,
\* in order, and the operators bound by precedence and associativity.
AnswersAsTheGrammar ==
    /\ pc = "idle" /\ status = "yes" /\ erred = 0 => Names \in Viable[psr]
    /\ erred # 0 /\ erred <= Len(input) => SubSeq(Names, 1, erred) \notin Viable[psr]
    /\ is_accepted =>
        /\ Len(state_stack) = 2
        /\ erred = 0 =>
            /\ Leaves(Top(node_stack)) =
                   SelectSeq([k \in 1 .. Len(input) - 1 |-> k], LAMBDA k : freed[k] = 0)
            /\ HasPrecedence(Parsers[psr].grammar) =>
                   BindsTighter(Parsers[psr].grammar, Top(node_stack))

\* The lookaheads that travel along the links are those of the canonical LR(1)
\* states merged by core: none missing, none too many.
Built == [p \in DOMAIN Parsers |-> BuiltLookaheads(Parsers[p].grammar)]
Merged == [p \in DOMAIN Parsers |-> MergedLookaheads(Parsers[p].grammar)]

\* The tables do not change, so the first state is the place to look.
LookaheadsAreLALR == input = <<>> => Built[psr] = Merged[psr]
=============================================================================
