--------------------------- MODULE GrammarCollector ---------------------------
(* The grammar tools: grammar_collector.c reads the declarations of a        *)
(* grammar and makes a configuration of them. Each declaration is the tree   *)
(* the parser has for it, its leaves the tokens of the text; Parser and      *)
(* Lexer model how it is found. A text is a sequence of characters, an       *)
(* optional field a sequence of at most one value, a place in the text is    *)
(* left out.                                                                 *)
EXTENDS Naturals, FiniteSets, SequencesExt, TLC

CONSTANTS
    Declarations,   \* the declarations a text is made of
    MaxItems,       \* most of them in one text
    MinTokenVal,    \* PARSER_MIN_TOKENVAL
    MaxUint,        \* the largest uint_t
    NoConfig        \* model value

VARIABLES
    decls,      \* the declarations read
    item_list,  \* the nodes made of them
    psr_data,   \* the names seen by kind, the errors of the leaves
    reports,    \* what was reported, in order
    config,     \* the result
    done        \* whether the text has been read

collectorVars == <<decls, item_list, psr_data, reports, config, done>>

-----------------------------------------------------------------------------
(* The leaves.                                                               *)

Quotes == {"'", "\""}
Blank == {" "}

\* Without the blanks at either end.
Trim(str) ==
    LET solid == {i \in DOMAIN str : str[i] \notin Blank}
    IN  IF solid = {} THEN <<>> ELSE SubSeq(str, Min(solid), Max(solid))

IsQuoted(tok) == tok.val = "lexeme" /\ Head(tok.str) \in Quotes

\* What a leaf holds: a quoted lexeme what is between the quotes, an action
\* its braces without their colons.
BuildLeaf(tok) ==
    IF IsQuoted(tok) THEN Trim(SubSeq(tok.str, 2, Len(tok.str) - 1))
    ELSE IF tok.val = "action_ins"
    THEN [tok.str EXCEPT ![2] = " ", ![Len(tok.str) - 1] = " "]
    ELSE tok.str

IsBlankLeaf(tok) == IsQuoted(tok) /\ BuildLeaf(tok) = <<>>

Leaves(toks) == [i \in DOMAIN toks |-> BuildLeaf(toks[i])]

\* The number a text of digits stands for, in a uint_t.
AR_wtou(n) == IF n > MaxUint THEN MaxUint ELSE n

-----------------------------------------------------------------------------
(* Nodes.                                                                    *)

ActionName(action) == IF action = <<>> THEN <<>> ELSE << BuildLeaf(action[1]) >>
ActionIns(action) == IF Len(action) < 2 THEN <<>> ELSE << BuildLeaf(action[2]) >>

TokenNode(d) ==
    [type |-> "token",
     is_skip |-> d.is_skip,
     name |-> IF d.is_skip THEN <<>> ELSE << BuildLeaf(d.name) >>,
     regex |-> BuildLeaf(d.regex),
     tokval |-> IF d.val = <<>> THEN 0 ELSE AR_wtou(d.val[1]),
     lex_prec |-> IF d.prec = <<>> THEN 0 ELSE AR_wtou(d.prec[1]),
     code_name |-> Leaves(d.value),
     is_assigned_code_name |-> d.value # <<>>,
     action_name |-> ActionName(d.action),
     action_ins |-> ActionIns(d.action)]

NameNode(d) == [type |-> "name", name |-> BuildLeaf(d.name), regex |-> BuildLeaf(d.regex)]

Assoc(str) ==
    CASE str[2] = "n" -> "nonassoc" [] str[2] = "l" -> "left" [] str[2] = "r" -> "right"

PrecNode(d) ==
    [type |-> "prec", assoc |-> Assoc(d.assoc.str), prec_tok_set |-> Leaves(d.terms),
     prec_tok_val |-> [i \in DOMAIN d.terms |-> 0], prec_level |-> 0]

\* No term at all is written as a dot.
RuleNode(lhs, rhs) ==
    [type |-> "rule",
     lhs |-> BuildLeaf(lhs),
     rhs |-> IF rhs.terms = <<>> THEN << " " >>
             ELSE FlattenSeq([i \in DOMAIN rhs.terms |-> Append(BuildLeaf(rhs.terms[i]), " ")]),
     prec_tok |-> Leaves(rhs.prec),
     action_name |-> ActionName(rhs.action),
     action_ins |-> ActionIns(rhs.action)]

BottomAttr == << "B", "T", "M" >>

\* The code is the action without its braces.
PredefNode(d) ==
    [type |-> "predef",
     name |-> IF d.name = <<>> THEN <<>> ELSE BuildLeaf(d.name[1]),
     code |-> LET ins == BuildLeaf(d.ins) IN SubSeq(ins, 2, Len(ins) - 1),
     bottom |-> \E i \in DOMAIN d.attrs : BuildLeaf(d.attrs[i]) = BottomAttr]

\* The nodes of a declaration: one, or one for each alternative of a rule.
Nodes(d) ==
    CASE d.kind = "name" -> << NameNode(d) >>
      [] d.kind = "token" -> << TokenNode(d) >>
      [] d.kind = "prec" -> << PrecNode(d) >>
      [] d.kind = "rule" -> [i \in DOMAIN d.rhs_list |-> RuleNode(d.lhs, d.rhs_list[i])]
      [] d.kind = "start" -> << [type |-> "start", start_rule |-> BuildLeaf(d.name)] >>
      [] d.kind = "code" -> << PredefNode(d) >>
      [] d.kind \in {"error", "empty"} -> << [type |-> d.kind] >>

-----------------------------------------------------------------------------
(* The configuration.                                                        *)

OfType(lst, type) == SelectSeq(lst, LAMBDA node : node.type = type)

\* The next value, whether or not a token has it.
NextValue(toks, v) == v

\* The first value from v on that no token has.
FreeValue(toks, v) ==
    CHOOSE w \in v .. v + Len(toks) :
        /\ \A i \in DOMAIN toks : toks[i].tokval # w
        /\ \A u \in v .. w - 1 : \E i \in DOMAIN toks : toks[i].tokval = u

\* The tokens with a value each, and the next value.
GiveValues(tokens) ==
    FoldLeftDomain(LAMBDA s, i :
        IF s.toks[i].tokval # 0 THEN s
        ELSE LET v == FreeValue(s.toks, s.next)
             IN  [toks |-> [s.toks EXCEPT ![i].tokval = v], next |-> v + 1],
        [toks |-> tokens, next |-> MinTokenVal + 1], tokens)

EndOfInput ==
    [type |-> "token", is_skip |-> FALSE,
     name |-> << << "C", "F", "G", "_", "L", "E", "X", "V", "A", "L", "_", "E", "O", "I" >> >>,
     regex |-> << "$" >>, tokval |-> 0, lex_prec |-> 2, code_name |-> <<>>,
     is_assigned_code_name |-> FALSE, action_name |-> <<>>, action_ins |-> <<>>]

WithCodeName(tok) ==
    IF tok.code_name # <<>> THEN tok ELSE [tok EXCEPT !.code_name = << << ToString(tok.tokval) >> >>]

\* The value of the first token of that name that is not skipped, else 0.
ValueNamed(toks, name) ==
    LET found == {i \in DOMAIN toks : ~toks[i].is_skip /\ toks[i].name[1] = name}
    IN  IF found = {} THEN 0 ELSE toks[Min(found)].tokval

\* The names of a declaration of precedence with their values: those that are
\* no token's take the next one, whether or not a token has it.
GiveNamesValues(state, node, toks) ==
    FoldLeftDomain(LAMBDA s, k :
        LET v == ValueNamed(toks, node.prec_tok_set[k])
        IN  [values |-> Append(s.values, IF v = 0 THEN s.next ELSE v),
             next |-> IF v = 0 THEN s.next + 1 ELSE s.next],
        [values |-> <<>>, next |-> state.next], node.prec_tok_set)

GiveLevels(precs, toks, first) ==
    FoldLeftDomain(LAMBDA s, i :
        LET named == GiveNamesValues(s, precs[i], toks)
        IN  [precs |-> Append(s.precs, [precs[i] EXCEPT !.prec_tok_val = named.values,
                                                        !.prec_level = i]),
             next |-> named.next],
        [precs |-> <<>>, next |-> first], precs).precs

CFG_InitConfig(lst) ==
    LET valued == GiveValues(OfType(lst, "token"))
        toks == Append(valued.toks, EndOfInput)
        starts == OfType(lst, "start")
    IN  [name |-> OfType(lst, "name"),
         tok |-> [i \in DOMAIN toks |-> WithCodeName(toks[i])],
         prec |-> GiveLevels(OfType(lst, "prec"), toks, valued.next),
         rule |-> OfType(lst, "rule"),
         start_rule |-> IF starts = <<>> THEN <<>> ELSE << Last(starts).start_rule >>,
         pre_def |-> OfType(lst, "predef")]

-----------------------------------------------------------------------------
(* Reading a text.                                                           *)

\* The tokens of a declaration that are leaves of its tree.
TokensOf(d) ==
    CASE d.kind = "name" -> << d.name, d.regex >>
      [] d.kind = "token" ->
            (IF d.is_skip THEN <<>> ELSE << d.name >>) \o << d.regex >> \o d.value \o d.action
      [] d.kind = "prec" -> << d.assoc >> \o d.terms
      [] d.kind = "rule" ->
            << d.lhs >> \o FlattenSeq([i \in DOMAIN d.rhs_list |->
                d.rhs_list[i].terms \o d.rhs_list[i].prec \o d.rhs_list[i].action])
      [] d.kind = "start" -> << d.name >>
      [] d.kind = "code" -> d.name \o << d.ins >> \o d.attrs
      [] d.kind = "error" -> d.toks
      [] d.kind = "empty" -> <<>>

\* The names a declaration defines, in order, each with the kind whose names
\* it must not repeat.
Defines(d) ==
    CASE d.kind = "name" -> << [kind |-> "name", name |-> BuildLeaf(d.name)] >>
      [] d.kind = "token" ->
            (IF d.is_skip THEN <<>> ELSE << [kind |-> "token", name |-> BuildLeaf(d.name)] >>)
            \o [i \in DOMAIN d.value |-> [kind |-> "token value", name |-> BuildLeaf(d.value[i])]]
      [] d.kind = "prec" ->
            [i \in DOMAIN d.terms |-> [kind |-> "prec", name |-> BuildLeaf(d.terms[i])]]
      [] OTHER -> <<>>

CheckAndInsertName(s, def) ==
    IF def \in s.names THEN [s EXCEPT !.reports = Append(@, def)]
    ELSE [s EXCEPT !.names = @ \cup {def}]

\* Junk the lexer cannot read is skipped up to the next ";": it is reported and
\* is no error of the configuration.
LexicalErrors(d) == IF d.junk THEN << "invalid token" >> ELSE <<>>

BlankLeaves(d) ==
    [i \in DOMAIN SelectSeq(TokensOf(d), IsBlankLeaf) |-> "empty lexeme"]

SyntaxErrors(d) == IF d.kind = "error" THEN << "syntax" >> ELSE <<>>

CollectorInit ==
    /\ decls = <<>>
    /\ item_list = <<>>
    /\ psr_data = [has_error |-> FALSE, names |-> {}]
    /\ reports = <<>>
    /\ config = NoConfig
    /\ done = FALSE

\* The parser has a declaration and its ";": the leaves were made, then its
\* handler, __handle_item and __handle_item_list were called.
ReadItem(d) ==
    /\ ~done
    /\ Len(decls) < MaxItems
    /\ decls' = Append(decls, d)
    /\ item_list' = item_list \o Nodes(d)
    /\ LET blank == BlankLeaves(d)
           checked == FoldLeft(CheckAndInsertName,
                               [names |-> psr_data.names, reports |-> <<>>], Defines(d))
       IN  /\ psr_data' = [has_error |-> psr_data.has_error \/ blank # <<>>,
                           names |-> checked.names]
           /\ reports' = reports \o blank \o LexicalErrors(d) \o SyntaxErrors(d)
                                 \o [i \in DOMAIN checked.reports |-> checked.reports[i].kind]
    /\ UNCHANGED <<config, done>>

\* The end of the text, behind the last declaration or behind an unfinished one.
HandleProgram(unfinished) ==
    /\ ~done
    /\ done' = TRUE
    /\ config' = CFG_InitConfig(item_list) @@
                 [has_error |-> \/ psr_data.has_error
                                \/ OfType(item_list, "error") # <<>>
                                \/ unfinished]
    /\ reports' = IF unfinished THEN Append(reports, "syntax") ELSE reports
    /\ UNCHANGED <<decls, item_list, psr_data>>

\* No memory, wherever: there is no result.
NoMemory ==
    /\ ~done
    /\ done' = TRUE
    /\ UNCHANGED <<decls, item_list, psr_data, reports, config>>

CollectorNext ==
    \/ \E d \in Declarations : ReadItem(d)
    \/ \E unfinished \in BOOLEAN : HandleProgram(unfinished)
    \/ NoMemory
=============================================================================
