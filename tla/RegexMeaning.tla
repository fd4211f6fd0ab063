---------------------------- MODULE RegexMeaning -----------------------------
(* What an expression means, by definition and not by the program: the ends *)
(* of its matches, the preferred one first, as backtracking finds them.     *)
(* Trees: lit, set, any, edge, quote, name, seq, alt, star, plus, quest,    *)
(* count, look.                                                              *)
EXTENDS Regex, FiniteSets

Lit(c) == [t |-> "lit", c |-> c]
Set(neg, ranges) == [t |-> "set", neg |-> neg, ranges |-> ranges]
AnyChar == [t |-> "any"]
Edge(is) == [t |-> "edge", is |-> is]
Quote(text) == [t |-> "quote", text |-> text]
Name(name) == [t |-> "name", name |-> name]
Cat(es) == [t |-> "seq", es |-> es]
Alt(es) == [t |-> "alt", es |-> es]
Many(t, e, lazy) == [t |-> t, e |-> e, lazy |-> lazy]
Star(e) == Many("star", e, FALSE)
Plus(e) == Many("plus", e, FALSE)
Quest(e) == Many("quest", e, FALSE)
Count(e, min, max, lazy) == [t |-> "count", e |-> e, min |-> min, max |-> max, lazy |-> lazy]
Look(e, neg) == [t |-> "look", e |-> e, neg |-> neg]

(* ---- as it is written: a sequence of signs ------------------------------ *)

Sign(is) == <<[is |-> is]>>

RECURSIVE Written(_)
Written(e) ==
    LET Grouped(x) == IF x.t \in {"seq", "alt", "star", "plus", "quest", "count", "edge"}
                      THEN Sign("(") \o Written(x) \o Sign(")") ELSE Written(x)
        Branch(x) == IF x.t = "alt" THEN Grouped(x) ELSE Written(x)
        Behind(is) == << [is |-> is, lazy |-> e.lazy] >> IN
    CASE e.t = "lit" -> << [is |-> "char", c |-> e.c] >>
      [] e.t = "set" -> << [is |-> "set", neg |-> e.neg, ranges |-> e.ranges] >>
      [] e.t = "any" -> Sign("any")
      [] e.t = "edge" -> Sign(e.is)
      [] e.t = "quote" -> << [is |-> "quote", text |-> e.text] >>
      [] e.t = "name" -> << [is |-> "name", name |-> e.name] >>
      [] e.t = "seq" -> FlattenSeq([i \in DOMAIN e.es |-> Branch(e.es[i])])
      [] e.t = "alt" -> FlattenSeq([i \in DOMAIN e.es |->
                            (IF i = 1 THEN <<>> ELSE Sign("|")) \o Branch(e.es[i])])
      [] e.t = "star" -> Grouped(e.e) \o Behind("*")
      [] e.t = "plus" -> Grouped(e.e) \o Behind("+")
      [] e.t = "quest" -> Grouped(e.e) \o Behind("?")
      [] e.t = "count" -> Grouped(e.e) \o
            << [is |-> "count", min |-> e.min, max |-> e.max, lazy |-> e.lazy] >>
      [] e.t = "look" -> Sign(IF e.neg THEN "(?!" ELSE "(?=") \o Written(e.e) \o Sign(")")

(* ---- what it matches ---------------------------------------------------- *)

InSet(e, c) == c # Nul /\ e.neg # (\E r \in ToSet(e.ranges) : r[1] <= c /\ c <= r[2])

\* One of the two cases of a letter is enough where case is ignored.
Variants(c, flags) == IF "ignore_case" \in flags THEN {Lower[c], Upper[c]} ELSE {c}

Without(qs, x) == SelectSeq(qs, LAMBDA q : q # x)

\* Each position once, where it comes first.
Once(qs) == FoldLeft(LAMBDA seen, q : IF Contains(seen, q) THEN seen ELSE Append(seen, q),
                     <<>>, qs)

RECURSIVE Ends(_, _, _, _)
Ends(e, names, m, p) ==
    LET c == CharAt(m.text, p)
        One(yes) == IF yes THEN <<p + 1>> ELSE <<>>
        Here(yes) == IF yes THEN <<p>> ELSE <<>>
        Body(q) == Ends(e.e, names, m, q)
        \* First this, then where F leads from there.
        After(qs, F(_)) == Once(FlattenSeq([i \in DOMAIN qs |-> F(qs[i])]))
        \* Once more, where that gets on, or enough.
        RECURSIVE More(_)
        More(q) == LET on == After(Without(Body(q), q), More) IN
                   Once(IF e.lazy THEN <<q>> \o on ELSE on \o <<q>>)
        Again(q) == IF q = p THEN <<p>> ELSE More(q)
        RECURSIVE AtMost(_, _)
        AtMost(n, q) == LET on == After(Without(Body(q), q), LAMBDA r : AtMost(n - 1, r)) IN
                        IF n = 0 THEN <<q>>
                        ELSE Once(IF e.lazy THEN <<q>> \o on ELSE on \o <<q>>)
        RECURSIVE Times(_, _)
        Times(n, q) == IF n = 0 THEN IF e.max = Infinite THEN More(q) ELSE AtMost(e.max - e.min, q)
                       ELSE After(Body(q), LAMBDA r : Times(n - 1, r))
        RECURSIVE InTurn(_, _)
        InTurn(i, q) == IF i > Len(e.es) THEN <<q>>
                        ELSE After(Ends(e.es[i], names, m, q), LAMBDA r : InTurn(i + 1, r))
    IN
    CASE e.t = "lit" -> One(c # Nul /\ e.c \in Variants(c, m.flags))
      [] e.t = "set" -> One(\E x \in Variants(c, m.flags) : InSet(e, x))
      [] e.t = "any" -> One(c # Nul /\ ("single_line" \in m.flags \/ ~IsLineTerminator(c)))
      [] e.t = "edge" -> Here(Holds(e.is, m.text, p))
      [] e.t = "quote" -> Ends(Cat([i \in DOMAIN e.text |-> Lit(e.text[i])]), names, m, p)
      [] e.t = "name" -> Ends(names[e.name], names, m, p)
      [] e.t = "seq" -> InTurn(1, p)
      [] e.t = "alt" -> Once(FlattenSeq([i \in DOMAIN e.es |-> Ends(e.es[i], names, m, p)]))
      [] e.t = "star" -> More(p)
      [] e.t = "plus" -> After(Body(p), Again)
      [] e.t = "quest" -> Once(IF e.lazy THEN <<p>> \o Body(p) ELSE Body(p) \o <<p>>)
      [] e.t = "count" -> Times(e.min, p)
      [] e.t = "look" -> Here((Body(p) # <<>>) # e.neg)

(* ---- where the threads can be relied on ---------------------------------- *)

(* A thread is dropped for another one at its instruction, wherever in the   *)
(* text that one is, and a counted loop never takes back what it took.  No   *)
(* harm is done where the ways to a place need as many more generations than *)
(* characters, where a repeated part takes something each time, and where a  *)
(* count leaves no choice: but for what ends the expression.                 *)

RECURSIVE Nullable(_, _)
Nullable(e, names) ==
    CASE e.t \in {"lit", "set", "any", "quote"} -> FALSE
      [] e.t \in {"edge", "look", "star", "quest"} -> TRUE
      [] e.t = "name" -> Nullable(names[e.name], names)
      [] e.t = "seq" -> \A i \in DOMAIN e.es : Nullable(e.es[i], names)
      [] e.t = "alt" -> \E i \in DOMAIN e.es : Nullable(e.es[i], names)
      [] e.t = "plus" -> Nullable(e.e, names)
      [] e.t = "count" -> e.min = 0 \/ Nullable(e.e, names)

\* How many characters it takes, the only number of them or -1.
RECURSIVE Width(_, _)
Width(e, names) ==
    LET Parts == [i \in DOMAIN e.es |-> Width(e.es[i], names)] IN
    CASE e.t \in {"lit", "set", "any"} -> 1
      [] e.t \in {"edge", "look"} -> 0
      [] e.t = "quote" -> Len(e.text)
      [] e.t = "name" -> Width(names[e.name], names)
      [] e.t = "seq" -> IF -1 \in ToSet(Parts) THEN -1 ELSE FoldLeft(+, 0, Parts)
      [] e.t = "alt" -> IF Cardinality(ToSet(Parts)) = 1 THEN Parts[1] ELSE -1
      [] e.t \in {"star", "plus", "quest"} -> -1
      [] e.t = "count" -> IF e.min = e.max /\ Width(e.e, names) # -1
                          THEN e.min * Width(e.e, names) ELSE -1

\* The generations it takes less its characters.
RECURSIVE Skew(_, _)
Skew(e, names) ==
    CASE e.t \in {"lit", "set", "any", "quote", "star", "plus", "quest"} -> 0
      [] e.t \in {"edge", "look"} -> 1
      [] e.t = "name" -> Skew(names[e.name], names)
      [] e.t = "seq" -> FoldLeft(+, 0, [i \in DOMAIN e.es |-> Skew(e.es[i], names)])
      [] e.t = "alt" -> Skew(e.es[1], names)
      [] e.t = "count" -> IF e.min = 0 THEN 0 ELSE 1 - e.min * Width(e.e, names)

RECURSIVE Steady(_, _, _)
Steady(e, names, last) ==
    LET Repeats == Steady(e.e, names, FALSE) /\ Skew(e.e, names) = 0 /\ ~Nullable(e.e, names) IN
    CASE e.t \in {"lit", "set", "any", "edge", "quote"} -> TRUE
      [] e.t = "name" -> Steady(names[e.name], names, last)
      [] e.t = "seq" -> \A i \in DOMAIN e.es : Steady(e.es[i], names, last /\ i = Len(e.es))
      [] e.t = "alt" -> /\ \A i \in DOMAIN e.es : Steady(e.es[i], names, last)
                        /\ last \/ Cardinality({Skew(e.es[i], names) : i \in DOMAIN e.es}) = 1
      [] e.t \in {"star", "plus"} -> Repeats
      [] e.t = "quest" -> Steady(e.e, names, last) /\ (last \/ Skew(e.e, names) = 0)
      [] e.t = "count" -> /\ Steady(e.e, names, TRUE)
                          /\ Width(e.e, names) # -1
                          /\ CASE e.max = e.min -> TRUE
                               [] e.max = Infinite -> Repeats
                               [] OTHER -> last
      [] e.t = "look" -> Steady(e.e, names, TRUE)
=============================================================================
