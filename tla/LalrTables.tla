----------------------------- MODULE LalrTables ------------------------------
(* The action and goto tables made from a grammar: what its symbols derive  *)
(* (grammar.c), the LR(0) states and the links lookaheads travel along       *)
(* (lalr_build.c, lalr_config.c, lalr_state.c), and the choice between shift *)
(* and reduce by precedence and associativity (lr_action.c).  A config       *)
(* <<rule_num, delim>> is a rule with a mark in its body; a state is the set *)
(* of configs of its basis.                                                  *)
EXTENDS LalrGrammar

-----------------------------------------------------------------------------
(* What derives nothing, what a symbol can begin with, what can follow one.  *)

RECURSIVE EmptyFrom(_, _)
EmptyFrom(g, known) ==
    LET more == known \cup
                {r.head : r \in {s \in Rules(g) : ToSet(s.body) \subseteq known}}
    IN  IF more = known THEN known ELSE EmptyFrom(g, more)

CanEmpty(g) == EmptyFrom(g, {})

\* The symbols of a string that may stand first in what it derives.
Leading(empty, body) ==
    {body[k] : k \in {j \in DOMAIN body :
                        ToSet(SubSeq(body, 1, j - 1)) \subseteq empty}}

RECURSIVE FirstFrom(_, _, _)
FirstFrom(g, empty, first) ==
    LET more == [x \in DOMAIN first |->
                    first[x] \cup
                    UNION {first[y] : y \in UNION {Leading(empty, r.body) :
                                r \in {s \in Rules(g) : s.head = x}}}]
    IN  IF more = first THEN first ELSE FirstFrom(g, empty, more)

CalcFirstSet(g) ==
    FirstFrom(g, CanEmpty(g),
              [x \in TermNames(g) \cup NonTerms(g) |->
                    IF x \in TermNames(g) THEN {x} ELSE {}])

\* What the string can begin with.
FirstOf(first, empty, body) == UNION {first[x] : x \in Leading(empty, body)}

After(body, k) == SubSeq(body, k + 1, Len(body))

RECURSIVE FollowFrom(_, _, _, _)
FollowFrom(g, empty, first, follow) ==
    LET Places(x) == UNION {{r} \X {k \in DOMAIN r.body : r.body[k] = x} :
                                r \in Rules(g)}
        At(p) == LET rest == After(p[1].body, p[2])
                 IN  FirstOf(first, empty, rest)
                     \cup IF ToSet(rest) \subseteq empty
                          THEN follow[p[1].head] ELSE {}
        more == [x \in NonTerms(g) |-> follow[x] \cup UNION {At(p) : p \in Places(x)}]
    IN  IF more = follow THEN follow ELSE FollowFrom(g, empty, first, more)

CalcFollowSet(g) ==
    FollowFrom(g, CanEmpty(g), CalcFirstSet(g),
               [x \in NonTerms(g) |-> IF x = Start THEN {EOI} ELSE {}])

-----------------------------------------------------------------------------
(* Configs and states.                                                       *)

Body(g, config) == g.rules[config[1]].body

AtEnd(g, config) == config[2] = Len(Body(g, config))

\* The symbol the mark stands before.
Next(g, config) == Body(g, config)[config[2] + 1]

Rest(g, config) == After(Body(g, config), config[2] + 1)

RulesOf(g, x) == {n \in DOMAIN g.rules : g.rules[n].head = x}

RECURSIVE Closure(_, _)
Closure(g, configs) ==
    LET more == configs \cup
                UNION {RulesOf(g, Next(g, c)) \X {0} :
                            c \in {d \in configs : ~AtEnd(g, d)}}
    IN  IF more = configs THEN configs ELSE Closure(g, more)

Advanced(c) == <<c[1], c[2] + 1>>

Goto(g, basis, x) ==
    {Advanced(c) : c \in {d \in Closure(g, basis) : ~AtEnd(g, d) /\ Next(g, d) = x}}

CompConfig(c, d) == c[1] < d[1] \/ (c[1] = d[1] /\ c[2] < d[2])

RECURSIVE SortConfigList(_)
SortConfigList(configs) ==
    IF configs = {} THEN <<>>
    ELSE LET least == CHOOSE c \in configs : \A d \in configs \ {c} : CompConfig(c, d)
         IN  <<least>> \o SortConfigList(configs \ {least})

AllConfig(g, basis) == SortConfigList(Closure(g, basis))

\* The states in the order they are found from the first.
RECURSIVE CollectState(_, _, _)
CollectState(g, set, i) ==
    IF i > Len(set) THEN set
    ELSE LET Found(seq, c) ==
                 IF AtEnd(g, c) \/ Contains(seq, Goto(g, set[i], Next(g, c)))
                 THEN seq
                 ELSE Append(seq, Goto(g, set[i], Next(g, c)))
         IN  CollectState(g, FoldLeft(Found, set, AllConfig(g, set[i])), i + 1)

States(g) == CollectState(g, << {<<1, 0>>} >>, 1)

IndexOfState(set, basis) == CHOOSE i \in DOMAIN set : set[i] = basis

-----------------------------------------------------------------------------
(* Lookaheads.  A node is a config in a state.                               *)

Nodes(g, set) == UNION {{i} \X Closure(g, set[i]) : i \in DOMAIN set}

\* What follows a rule where the closure takes it up, and %EOI at the start.
Spontaneous(g, set, first, empty) ==
    [n \in Nodes(g, set) |->
        (IF n = <<1, <<1, 0>>>> THEN {EOI} ELSE {})
        \cup IF n[2][2] > 0 THEN {}
             ELSE UNION {FirstOf(first, empty, Rest(g, c)) :
                    c \in {d \in Closure(g, set[n[1]]) :
                            ~AtEnd(g, d) /\ Next(g, d) = g.rules[n[2][1]].head}}]

\* Mutant: only the config with the mark moved on.
GotoOnly(g, set, empty, n) ==
    IF AtEnd(g, n[2]) THEN {}
    ELSE {<<IndexOfState(set, Goto(g, set[n[1]], Next(g, n[2]))), Advanced(n[2])>>}

\* Forward to the rules of the symbol before the mark, when nothing need
\* follow it, and to the config with the mark moved on.
Forward(g, set, empty, n) ==
    IF AtEnd(g, n[2]) THEN {}
    ELSE {<<IndexOfState(set, Goto(g, set[n[1]], Next(g, n[2]))), Advanced(n[2])>>}
         \cup IF ToSet(Rest(g, n[2])) \subseteq empty
              THEN {n[1]} \X (RulesOf(g, Next(g, n[2])) \X {0})
              ELSE {}

RECURSIVE Propagate(_, _)
Propagate(links, follow_set) ==
    LET more == [n \in DOMAIN follow_set |->
                    follow_set[n] \cup UNION {follow_set[l[1]] :
                                              l \in {k \in links : k[2] = n}}]
    IN  IF more = follow_set THEN follow_set ELSE Propagate(links, more)

FollowSets(g, set) ==
    LET empty == CanEmpty(g)
        links == UNION {{n} \X Forward(g, set, empty, n) : n \in Nodes(g, set)}
    IN  Propagate(links, Spontaneous(g, set, CalcFirstSet(g), empty))

-----------------------------------------------------------------------------
(* Actions.                                                                  *)

ErrorAction == [type |-> "error", to |-> 0, rule_num |-> 0, prec |-> 0]

RulePrec(g, n) == FindTermByName(g, g.rules[n].prec_tok).prec

\* The shift takes its precedence from the first rule that shifts the term.
ShiftsOf(g, set, i, t) ==
    LET shifting == SelectSeq(AllConfig(g, set[i]),
                              LAMBDA c : ~AtEnd(g, c) /\ Next(g, c) = t)
    IN  IF shifting = <<>> THEN <<>>
        ELSE << [type |-> "shift", to |-> IndexOfState(set, Goto(g, set[i], t)),
                 rule_num |-> shifting[1][1], prec |-> RulePrec(g, shifting[1][1])] >>

\* reducing: the configurations whose lookahead it is.
ReducesOf(g, set, i, reducing) ==
    LET Action(c) == [type |-> IF g.rules[c[1]].head = Start THEN "accept"
                               ELSE "reduce",
                      to |-> 0, rule_num |-> c[1], prec |-> RulePrec(g, c[1])]
        ended == SelectSeq(AllConfig(g, set[i]),
                           LAMBDA c : AtEnd(g, c) /\ c \in reducing)
    IN  [k \in DOMAIN ended |-> Action(ended[k])]

\* Mutant: among equals the shift is kept whatever the associativity.
InsertByPrecedence(curr, sour, assoc) ==
    IF curr.type = "error" \/ (curr.type # "accept" /\ sour.prec > curr.prec)
    THEN sour ELSE curr

\* The head of the list of actions once another is inserted: the higher
\* precedence, and among equals what the lookahead's associativity prefers;
\* what is inserted behind the head is only for the conflict report.
InsertAction(curr, sour, assoc) ==
    CASE curr.type = "error" -> sour
      [] curr.type = "accept" -> curr
      [] curr.type # "error" /\ curr.type # "accept" ->
            CASE sour.prec > curr.prec -> sour
              [] sour.prec < curr.prec -> curr
              [] assoc = "nonassoc" /\ curr.type # "shift" -> sour
              [] assoc = "left" /\ curr.type = "shift" /\ sour.type = "reduce" -> sour
              [] assoc = "right" /\ curr.type = "reduce" /\ sour.type = "shift" -> sour
              [] OTHER -> curr

\* The parser's actions by state and term, and the states after a reduction;
\* and what they were made from, which the parser does not keep.
CreateActionTable(g, type) ==
    LET set == States(g)
        follow_set == IF type = "LALR" THEN FollowSets(g, set) ELSE <<>>
        follow == IF type = "SLR" THEN CalcFollowSet(g) ELSE <<>>
        Reducing(i, t) ==
            {c \in Closure(g, set[i]) :
                IF type = "LALR" THEN t \in follow_set[<<i, c>>]
                ELSE t \in follow[g.rules[c[1]].head]}
        Action(i, t) ==
            LET assoc == FindTermByName(g, t).assoc
            IN  FoldLeft(LAMBDA a, b : InsertAction(a, b, assoc), ErrorAction,
                         ShiftsOf(g, set, i, t)
                         \o ReducesOf(g, set, i, Reducing(i, t)))
    IN  [actions |-> [i \in DOMAIN set |-> [t \in TermNames(g) |-> Action(i, t)]],
         goto |-> [i \in DOMAIN set |-> [x \in NonTerms(g) |->
                        IF Goto(g, set[i], x) = {} THEN 0
                        ELSE IndexOfState(set, Goto(g, set[i], x))]],
         configs |-> [i \in DOMAIN set |-> Closure(g, set[i])]]
=============================================================================
