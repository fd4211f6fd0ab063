----------------------------- MODULE LalrGrammar -----------------------------
(* Grammars as Library/Arsenal/Arsenal/Parser/grammar.c builds them: a list *)
(* of terms with their values, associativity and precedence, and a list of  *)
(* rules, the first of which is %START and derives the start symbol.  A      *)
(* symbol is its name; it is a term when the list of terms has the name.     *)
EXTENDS Integers, SequencesExt, FiniteSetsExt

EOI == "%EOI"
Error == "error"
DefPrec == "%PREC_ASSOC"
Start == "%START"
NoPrec == ""

MinTokenVal == 256

Term(name, val, assoc, prec) ==
    [name |-> name, val |-> val, assoc |-> assoc, prec |-> prec]

Rule(head, body, prec_tok) ==
    [head |-> head, body |-> body, prec_tok |-> prec_tok]

CreateGrammar ==
    [terms |-> << Term(EOI, 0, "nonassoc", 0),
                  Term(Error, 3, "nonassoc", 0),
                  Term(DefPrec, 4, "nonassoc", 0) >>,
     rules |-> << Rule(Start, <<>>, DefPrec) >>]

Rules(g) == ToSet(g.rules)

TermNames(g) == {t.name : t \in ToSet(g.terms)}

NonTerms(g) ==
    ({r.head : r \in Rules(g)} \cup UNION {ToSet(r.body) : r \in Rules(g)})
        \ TermNames(g)

FindTermByName(g, name) == CHOOSE t \in ToSet(g.terms) : t.name = name

\* A value below the least one, a name or a value there is already: refused.
InsertTerm(g, t) ==
    IF \/ t.val < MinTokenVal
       \/ t.name \in TermNames(g) \cup NonTerms(g)
       \/ \E u \in ToSet(g.terms) : u.val = t.val
    THEN g
    ELSE [g EXCEPT !.terms = Append(@, t)]

\* A rule is given precedence by the last term of its body.
RightTerm(g, body) ==
    LET terms == SelectSeq(body, LAMBDA x : x \in TermNames(g))
    IN  IF terms = <<>> THEN DefPrec ELSE Last(terms)

IsCreated(g, r) ==
    /\ r.head \notin TermNames(g)
    /\ r.prec_tok \in TermNames(g) \cup {NoPrec}
    /\ Len(SelectSeq(r.body, LAMBDA x : x = Error)) < 2

CreateRule(g, r) ==
    IF r.prec_tok # NoPrec THEN r
    ELSE [r EXCEPT !.prec_tok = RightTerm(g, r.body)]

\* The head of the first rule is what %START derives.
InsertRule(g, r) ==
    IF ~IsCreated(g, r) \/ r.head = Start THEN g
    ELSE LET started == IF Len(g.rules) = 1
                        THEN << [g.rules[1] EXCEPT !.body = <<r.head>>] >>
                        ELSE g.rules
         IN  [g EXCEPT !.rules = Append(started, CreateRule(g, r))]

SetStartRule(g, name) ==
    IF \A r \in Rules(g) : r.head # name \/ name = Start THEN g
    ELSE [g EXCEPT !.rules[1].body = <<name>>]

\* Every nonterm has a rule.
IsValidGrammar(g) ==
    /\ Len(g.rules) > 1
    /\ NonTerms(g) \subseteq {r.head : r \in Rules(g)}

\* As the tests and tools make one: the terms, then the rules.
Grammar(terms, rules) ==
    FoldLeft(InsertRule, FoldLeft(InsertTerm, CreateGrammar, terms), rules)
=============================================================================
