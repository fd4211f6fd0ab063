----------------------------- MODULE GrammarCode ------------------------------
(* grammar_codegen.c: the program text for a configuration. What the text    *)
(* declares, tabulates and defines is kept, each a record or a name; layout, *)
(* comments and the fixed functions around the tables are left out. And what *)
(* the configuration and the text promise of the declarations.               *)
EXTENDS GrammarCollector

VARIABLES
    status, \* of CFG_ConfigToCode: "none" before it is called, "yes", "no"
    code    \* the text

codeVars == <<status, code>>

-----------------------------------------------------------------------------
(* The table of handlers: each a name and the body given for it, if one is.  *)

Place(tbl, name) == {i \in DOMAIN tbl : tbl[i].name = name}

\* The table as it would be if a handler were always entered behind the others.
AppendToHandlerTable(tbl, name, body) == Append(tbl, [name |-> name, body |-> body])

InsertToHandlerTable(tbl, name, body) ==
    IF Place(tbl, name) = {} THEN Append(tbl, [name |-> name, body |-> body])
    ELSE [tbl EXCEPT ![Min(Place(tbl, name))].body = body]

\* A body replaces what was there; a handler without one never replaces one.
InsertHandler(tbl, name, body) ==
    IF body = <<>> /\ \E i \in Place(tbl, name) : tbl[i].body # <<>> THEN tbl
    ELSE InsertToHandlerTable(tbl, name, body)

TokenHandlers(cfg) ==
    FoldLeft(LAMBDA tbl, tok : IF tok.name = <<>> \/ tok.action_name = <<>> THEN tbl
                               ELSE InsertHandler(tbl, tok.action_name[1], tok.action_ins),
             <<>>, cfg.tok)

NullName == << "N", "U", "L", "L" >>
DefaultHandler(lhs) == << "h", "a", "n", "d", "l", "e", "_" >> \o lhs

HandlerOf(rule) ==
    IF rule.action_name # <<>> THEN rule.action_name[1] ELSE DefaultHandler(rule.lhs)

\* The body counts only for an action; a rule without one gets the default.
RuleHandlers(cfg) ==
    FoldLeft(LAMBDA tbl, rule :
        IF rule.action_name = << NullName >> THEN tbl
        ELSE InsertHandler(tbl, HandlerOf(rule),
                           IF rule.action_name = <<>> THEN <<>> ELSE rule.action_ins),
        <<>>, cfg.rule)

-----------------------------------------------------------------------------
(* The tables.                                                               *)

Predefs(cfg, bottom) == SelectSeq(cfg.pre_def, LAMBDA p : p.bottom = bottom)

Enumeration(cfg) ==
    LET named == SelectSeq(cfg.tok, LAMBDA tok : tok.is_assigned_code_name)
    IN  [i \in DOMAIN named |-> << named[i].code_name[1], named[i].tokval >>]

TermPattern(tok) ==
    [name |-> tok.name, tokval |-> tok.code_name[1], lex_prec |-> tok.lex_prec,
     regex |-> tok.regex, skip |-> tok.is_skip,
     leaf |-> IF tok.action_name = <<>> THEN NullName ELSE tok.action_name[1]]

\* A value is written as the first token with it writes it.
ValueText(cfg, v) ==
    LET found == {i \in DOMAIN cfg.tok : cfg.tok[i].tokval = v}
    IN  IF found = {} THEN << ToString(v) >> ELSE cfg.tok[Min(found)].code_name[1]

PrecPatterns(cfg) ==
    FlattenSeq([i \in DOMAIN cfg.prec |->
        LET prec == cfg.prec[i]
        IN  [k \in DOMAIN prec.prec_tok_set |->
                [name |-> prec.prec_tok_set[k], tokval |-> ValueText(cfg, prec.prec_tok_val[k]),
                 prec_level |-> prec.prec_level, assoc |-> prec.assoc]]])

RulePattern(rule) ==
    [rule |-> rule.lhs \o << " : " >> \o rule.rhs, prec_token |-> rule.prec_tok,
     handler |-> HandlerOf(rule)]

StartRule(cfg) ==
    IF cfg.start_rule # <<>> THEN cfg.start_rule[1]
    ELSE IF cfg.rule # <<>> THEN Head(cfg.rule).lhs ELSE <<>>

Names(tbl) == [i \in DOMAIN tbl |-> tbl[i].name]

CodeOf(cfg) ==
    LET leaf == TokenHandlers(cfg)
        rule == RuleHandlers(cfg)
    IN  [top |-> Predefs(cfg, FALSE), bottom |-> Predefs(cfg, TRUE),
         names |-> cfg.name,
         leaf_decls |-> Names(leaf), enum |-> Enumeration(cfg),
         terms |-> [i \in DOMAIN cfg.tok |-> TermPattern(cfg.tok[i])],
         precs |-> PrecPatterns(cfg),
         rule_decls |-> Names(rule),
         rules |-> [i \in DOMAIN cfg.rule |-> RulePattern(cfg.rule[i])],
         start |-> StartRule(cfg),
         leaf_defs |-> leaf, rule_defs |-> rule]

CodeInit == CollectorInit /\ status = "none" /\ code = <<>>

\* CFG_ConfigToCode: a configuration with an error has no code.
ConfigToCode ==
    /\ config # NoConfig
    /\ status = "none"
    /\ status' = IF config.has_error THEN "no" ELSE "yes"
    /\ code' = IF config.has_error THEN code ELSE CodeOf(config)
    /\ UNCHANGED collectorVars

CodeNext ==
    \/ CollectorNext /\ UNCHANGED codeVars
    \/ ConfigToCode

-----------------------------------------------------------------------------
(* The configuration against the declarations.                               *)

Declared(kind) == SelectSeq(decls, LAMBDA d : d.kind = kind)

\* A token without a value of its own, one with one, and what it came to.
IsAutomatic(d) == d.val = <<>> \/ d.val = <<0>>

TokensAsDeclared ==
    LET ds == Declared("token")
        toks == config.tok
    IN  /\ Len(toks) = Len(ds) + 1
        /\ toks[Len(toks)].tokval = 0
        /\ \A i \in DOMAIN ds :
              /\ toks[i].is_skip = ds[i].is_skip
              /\ ~IsAutomatic(ds[i]) => toks[i].tokval = AR_wtou(ds[i].val[1])
              /\ IsAutomatic(ds[i]) =>
                    /\ toks[i].tokval > MinTokenVal
                    /\ \A j \in DOMAIN toks : j # i => toks[j].tokval # toks[i].tokval

\* The alternatives of the rules declared, in the order of the text.
RulesAsDeclared ==
    LET ds == Declared("rule")
        Before(i) == FoldLeft(LAMBDA n, d : n + Len(d.rhs_list), 0, SubSeq(ds, 1, i - 1))
    IN  /\ Len(config.rule) = Before(Len(ds) + 1)
        /\ \A i \in DOMAIN ds : \A k \in DOMAIN ds[i].rhs_list :
              LET rule == config.rule[Before(i) + k]
              IN  /\ rule.lhs = BuildLeaf(ds[i].lhs)
                  /\ SelectSeq(rule.rhs, LAMBDA c : c # " ") =
                        FlattenSeq(Leaves(ds[i].rhs_list[k].terms))
                  /\ (rule.prec_tok = <<>>) = (ds[i].rhs_list[k].prec = <<>>)

\* Later declarations bind tighter; a name that is a token's has its value, and
\* the others have values of their own, none an automatic token's.
PrecedencesAsDeclared ==
    LET ds == Declared("prec")
        named == {t \in DOMAIN config.tok : ~config.tok[t].is_skip /\ config.tok[t].tokval # 0}
        places == UNION {{<<i, k>> : k \in DOMAIN ds[i].terms} : i \in DOMAIN ds}
        NameAt(p) == config.prec[p[1]].prec_tok_set[p[2]]
        ValueAt(p) == config.prec[p[1]].prec_tok_val[p[2]]
        IsToken(p) == \E t \in named : config.tok[t].name[1] = NameAt(p)
    IN  /\ Len(config.prec) = Len(ds)
        /\ \A i \in DOMAIN ds : config.prec[i].prec_level = i
        /\ \A p \in places :
              /\ NameAt(p) = BuildLeaf(ds[p[1]].terms[p[2]])
              /\ IF IsToken(p)
                 THEN \E t \in named : config.tok[t].name[1] = NameAt(p)
                                       /\ config.tok[t].tokval = ValueAt(p)
                 ELSE /\ \A q \in places \ {p} : ValueAt(q) = ValueAt(p) =>
                            \E t \in named : config.tok[t].tokval = ValueAt(q)
                      /\ \A t \in DOMAIN Declared("token") :
                            IsAutomatic(Declared("token")[t]) => config.tok[t].tokval # ValueAt(p)

\* What is reported an error, junk excepted, is an error of the configuration;
\* and so is nothing else.
ErrorsAsDeclared ==
    config.has_error =
        (\E i \in DOMAIN reports : reports[i] \in {"syntax", "empty lexeme"})

\* A configuration is what the declarations say: every token with its own
\* value or with one nobody else has, a rule for every alternative in the
\* order of the text, levels of precedence in the order of their declarations
\* with the values of the tokens they name, the last %start, and an error
\* exactly where one was reported (CFG_InitConfig, grammar_collector.c:580).
CollectedAsDeclared ==
    config # NoConfig =>
        /\ TokensAsDeclared
        /\ RulesAsDeclared
        /\ PrecedencesAsDeclared
        /\ ErrorsAsDeclared
        /\ config.start_rule =
              (IF Declared("start") = <<>> THEN <<>> ELSE << BuildLeaf(Last(Declared("start")).name) >>)

-----------------------------------------------------------------------------
(* The code against itself.                                                  *)

OnceIn(s, x) == Cardinality({i \in DOMAIN s : s[i] = x}) = 1

\* The last body given for a handler, if any is.
LastBody(actions, name) ==
    LET bodies == SelectSeq(actions, LAMBDA a : a.name = name /\ a.body # <<>>)
    IN  IF bodies = <<>> THEN <<>> ELSE Last(bodies).body

TokenActions ==
    LET toks == SelectSeq(config.tok, LAMBDA t : t.name # <<>> /\ t.action_name # <<>>)
    IN  [i \in DOMAIN toks |-> [name |-> toks[i].action_name[1], body |-> toks[i].action_ins]]

RuleActions ==
    [i \in DOMAIN config.rule |->
        [name |-> HandlerOf(config.rule[i]), body |-> config.rule[i].action_ins]]

\* Every function the tables of the code name is declared before them and
\* defined behind them, once each, with the last body any declaration gives it;
\* but for the action of a skipped token, which the code names and never
\* declares. A level of precedence is written with the value its name has as a
\* term (CFG_ConfigToCode, grammar_codegen.c:244-300, 472-638).
TablesConsistent ==
    status = "yes" =>
        /\ \A i \in DOMAIN code.terms :
              LET term == code.terms[i]
              IN  ~term.skip /\ term.leaf # NullName =>
                     /\ OnceIn(code.leaf_decls, term.leaf)
                     /\ OnceIn(code.leaf_defs,
                               [name |-> term.leaf, body |-> LastBody(TokenActions, term.leaf)])
        /\ \A i \in DOMAIN code.rules :
              LET handler == code.rules[i].handler
              IN  handler # NullName =>
                     /\ OnceIn(code.rule_decls, handler)
                     /\ OnceIn(code.rule_defs,
                               [name |-> handler, body |-> LastBody(RuleActions, handler)])
        /\ \A i \in DOMAIN code.precs : \A j \in DOMAIN code.terms :
              ~code.terms[j].skip /\ code.terms[j].name = << code.precs[i].name >> =>
                 \E k \in DOMAIN code.terms :
                    /\ code.terms[k].name = code.terms[j].name
                    /\ config.tok[k].tokval # 0 => ValueText(config, config.tok[k].tokval) = code.precs[i].tokval
=============================================================================
