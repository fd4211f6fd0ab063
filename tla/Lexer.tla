-------------------------------- MODULE Lexer --------------------------------
(* A lexer of Arsenal (lex.c) reading a text (match.c), called in any order *)
(* or by one of the loops that read a whole text; and is_valid_ip_address,  *)
(* which both view controllers have.                                         *)
EXTENDS RegexMeaning

CONSTANTS
    Lexers,     \* sequence of [names, rules, texts, flags, caller]: names and
                \* rules in the order of their insertion, with their expressions
                \* as trees; sets of texts and of sets of flags; who calls
    Space,      \* what AR_iswspace answers yes to
    Semicolon, Colon, Dot,
    Digit,      \* the digits, "0" first
    UintLimit,  \* the first number that 32 bits do not hold
    UshortLimit,    \* the first that unsigned short does not
    ValidIpSize,    \* of valid_ip, in characters
    NoToken,
    SkipToTarget    \* what Lex_SkipTo is asked for in any order of calls

Callers == {"any", "lexical_set", "collector", "print", "address"}

ASSUME LexerAssumption ==
    /\ \A l \in DOMAIN Lexers : Lexers[l].caller \in Callers
    \* SkipTo runs past a target that begins with the LF of a CR LF.
    /\ \A s \in SkipToTarget : s # <<>> /\ s[1] # LF
    /\ {CR, LF} \subseteq LineTerminator
    \* Lex_Skip takes another one for a column (NEL, LS and PS, by the locale).
    /\ LineTerminator \subseteq Space

VARIABLES
    match,      \* the lexMatch_t, its lexer and its input
    tok,        \* the caller's token, or NoToken where it is cleared
    matched,    \* what Lex_Match returned, "none" after any other call
    reading,    \* the function that reads the text has not ended
    turn,       \* a ghost: whether its loop has taken an odd number of turns
    answer      \* what is_valid_ip_address returned

lexVars == <<match, tok, matched, reading, turn, answer>>

(* ---- lexers ------------------------------------------------------------- *)

LexInsertName(name_tbl, def) ==
    LET Insert(res) ==
            IF def.name \in DOMAIN name_tbl \/ res.next = 0 THEN name_tbl
            ELSE name_tbl @@ (def.name :> res.node) IN
    Insert(ParseExpr(Written(def.expr), name_tbl))

NameTable(l) == FoldLeft(LexInsertName, <<>>, Lexers[l].names)

LexInsertRule(name_tbl, rule_set, rule) ==
    LET action == [value |-> rule.value, priority |-> rule.priority, is_skip |-> rule.is_skip]
        Insert(res) ==
            IF res.next = 0 THEN rule_set
            ELSE Append(rule_set, [prog |-> Compile(res.node, rule.value), action |-> action]) IN
    Insert(ParseExpr(Written(rule.expr), name_tbl))

\* Mutant: those of one priority in the opposite order.
SortLatestFirst(set) ==
    LET Insert(sorted, x) ==
            LET before == {i \in DOMAIN sorted : sorted[i].action.priority > x.action.priority} IN
            InsertAt(sorted, Cardinality(before) + 1, x) IN
    FoldLeft(Insert, <<>>, set)

\* By priority, and those of one priority in the order of their insertion.
SortProgSet(set) ==
    LET Insert(sorted, x) ==
            LET before == {i \in DOMAIN sorted : sorted[i].action.priority >= x.action.priority} IN
            InsertAt(sorted, Cardinality(before) + 1, x) IN
    FoldLeft(Insert, <<>>, set)

ProgSet ==
    LET Inserted(name_tbl, rules) ==
            FoldLeft(LAMBDA set, rule : LexInsertRule(name_tbl, set, rule), <<>>, rules) IN
    [l \in DOMAIN Lexers |-> SortProgSet(Inserted(NameTable(l), Lexers[l].rules))]

(* ---- Lex_Match ---------------------------------------------------------- *)

CreateMatch(l, text, flags) ==
    [lexer |-> l, text |-> text, next |-> 0, line |-> 0, col |-> 0, act |-> FALSE,
     is_ok |-> TRUE, flags |-> flags]

ResetMatchState(m) == CreateMatch(m.lexer, m.text, m.flags)

ClearError(m) == [m EXCEPT !.is_ok = TRUE]

Returned(s, m, t) == [status |-> s, match |-> m, tok |-> t]

\* The first program from the i-th on that matches, and its last thread.
RECURSIVE FirstMatch(_, _, _)
FirstMatch(prog_set, m, i) ==
    LET Tried(thd) == IF thd = NoThread THEN FirstMatch(prog_set, m, i + 1)
                      ELSE [thd |-> thd, action |-> prog_set[i].action] IN
    IF i > Len(prog_set) THEN [thd |-> NoThread]
    ELSE Tried(Run(prog_set[i].prog, m.text, m.flags,
                   Thread(1, m.next, m.line, m.col, m.act), "match"))

LexMaxEmptyMatchCnt == 1

\* last: the caller's token, which every program tried clears or sets.
RECURSIVE Rematch(_, _, _, _)
Rematch(prog_set, m, empty_match_cnt, last) ==
    LET Moved(thd) == [m EXCEPT !.next = thd.sp, !.line = thd.line, !.col = thd.col,
                                !.act = thd.act]
        Token(thd, action) == [index |-> m.next, count |-> thd.sp - m.next, line |-> m.line,
                               col |-> m.col, value |-> action.value]
        Matched(thd, action) ==
            IF action.is_skip
            THEN Rematch(prog_set, Moved(thd),
                         empty_match_cnt + IF thd.sp = m.next THEN 1 ELSE 0, Token(thd, action))
            ELSE Returned("AR_S_YES", Moved(thd), Token(thd, action))
        Tried(hit) ==
            CASE hit.thd = Never -> Returned("never", m, NoToken)
              [] hit.thd = NoThread -> Returned("AR_S_NO", [m EXCEPT !.is_ok = FALSE], NoToken)
              [] OTHER -> Matched(hit.thd, hit.action) IN
    IF empty_match_cnt > LexMaxEmptyMatchCnt THEN Returned("AR_E_LEXMPTYMATCH", m, last)
    ELSE IF ~m.is_ok THEN Returned("AR_E_LEXNOTREADY", m, last)
    ELSE Tried(FirstMatch(prog_set, m, 1))

LexMatch(m, t) == Rematch(ProgSet[m.lexer], m, 0, t)

(* ---- the other calls ---------------------------------------------------- *)

\* One character, CR LF as one.
SkipChar(m) ==
    IF ~IsLineTerminator(CharAt(m.text, m.next)) THEN [m EXCEPT !.next = @ + 1, !.col = @ + 1]
    ELSE [m EXCEPT !.next = @ + IF IsCrLf(m.text, m.next) THEN 2 ELSE 1,
                   !.line = @ + 1, !.col = 0, !.act = FALSE]

RECURSIVE SkipWhile(_, _)
SkipWhile(m, chars) ==
    IF CharAt(m.text, m.next) \in chars THEN SkipWhile(SkipChar(m), chars) ELSE m

\* To the next blank, and past the blanks.
Skip(m) ==
    LET stops == {p \in m.next .. Len(m.text) : CharAt(m.text, p) \in Space \cup {Nul}}
        beg == CHOOSE p \in stops : \A q \in stops : p <= q IN
    SkipWhile([m EXCEPT !.next = beg, !.col = @ + (beg - m.next)], Space)

Found(m, target) ==
    {p \in m.next .. Len(m.text) - Len(target) :
        SubSeq(m.text, p + 1, p + Len(target)) = target}

RECURSIVE SkipUntil(_, _)
SkipUntil(m, p) == IF m.next >= p THEN m ELSE SkipUntil(SkipChar(m), p)

SkipTo(m, target) ==
    LET at == Found(m, target) IN
    SkipUntil(m, IF at = {} THEN Len(m.text) ELSE CHOOSE p \in at : \A q \in at : p <= q)

RECURSIVE SkipN(_, _)
SkipN(m, nchar) ==
    IF nchar = 0 \/ m.next = Len(m.text) THEN m ELSE SkipN(SkipChar(m), nchar - 1)

\* Mutant: the action stays.
PutBackInLine(m, t) == [m EXCEPT !.next = t.index, !.line = t.line, !.col = t.col]

PutBack(m, t) == [m EXCEPT !.next = t.index, !.line = t.line, !.col = t.col, !.act = FALSE]

(* ---- calls in any order -------------------------------------------------- *)

NoAnswer == [ret |-> "none", value |-> -1, ip |-> <<>>, port |-> 0]

LexInit ==
    /\ \E l \in DOMAIN Lexers :
          /\ \E text \in Lexers[l].texts, flags \in Lexers[l].flags :
                match = CreateMatch(l, text, flags)
          /\ reading = (Lexers[l].caller # "any")
    /\ tok = NoToken
    /\ matched = "none"
    /\ turn = FALSE
    /\ answer = NoAnswer

CalledBy(callers) ==
    /\ Lexers[match.lexer].caller \in callers
    /\ matched # "never"

Match ==
    /\ CalledBy({"any"})
    /\ \E res \in {LexMatch(match, tok)} :
          /\ match' = res.match
          /\ matched' = res.status
          /\ tok' = res.tok
    /\ UNCHANGED <<reading, turn, answer>>

Other(m) ==
    /\ CalledBy({"any"})
    /\ match' = m
    /\ matched' = "none"
    /\ UNCHANGED <<tok, reading, turn, answer>>

SkipBlank == Other(Skip(match))

\* Lex_TrySkipTo does the same, or nothing.
SkipTarget == \E target \in SkipToTarget : Other(SkipTo(match, target))

SkipSome == \E n \in 1 .. 2 : Other(SkipN(match, n))

\* Not a token at the text's end, which a debug build asserts.
PutTokenBack == tok # NoToken /\ tok.index < Len(match.text) /\ Other(PutBack(match, tok))

DropError == Other(ClearError(match))

Reset == Other(ResetMatchState(match))

MatchFlags ==
    \E flags \in UNION Lexers[match.lexer].flags, is_on \in BOOLEAN :
        Other([match EXCEPT !.flags = IF is_on THEN @ \cup {flags} ELSE @ \ {flags}])

(* ---- loops that read a text ---------------------------------------------- *)

EOIValue == 0

\* Mutant: it skips, but does not clear the error.
RecoveredInError(caller, m) == IF caller = "print" THEN SkipN(m, 1) ELSE Skip(m)

\* Where a loop goes on after a match that failed, if it does.
Recovered(caller, m) ==
    CASE caller = "print" -> ClearError(SkipN(m, 1))
      [] caller = "lexical_set" -> ClearError(Skip(m))
      [] caller = "collector" ->
            ClearError(IF Found(m, <<Semicolon>>) # {} THEN SkipTo(m, <<Semicolon>>)
                       ELSE Skip(m))

Turn == reading /\ CalledBy({"lexical_set", "collector", "print"}) /\ turn' = ~turn

\* What the token is given to may refuse it.
Taken(res) ==
    /\ res.status = "AR_S_YES"
    /\ match' = res.match
    /\ \E taken \in BOOLEAN : reading' = (taken /\ res.tok.value # EOIValue)

Recoverable(caller) ==
    {"AR_S_NO"} \cup IF caller = "print" THEN {"AR_E_LEXNOTREADY", "AR_E_LEXMPTYMATCH"} ELSE {}

Recovers(caller, res) ==
    /\ res.status \in Recoverable(caller)
    /\ match' = Recovered(caller, res.match)
    /\ UNCHANGED reading

GivesUp(caller, res) ==
    /\ res.status \in {"AR_E_LEXNOTREADY", "AR_E_LEXMPTYMATCH"} \ Recoverable(caller)
    /\ match' = res.match
    /\ reading' = FALSE

\* One turn of a loop.
ReadToken ==
    LET caller == Lexers[match.lexer].caller IN
    /\ Turn
    /\ \E res \in {LexMatch(match, tok)} :
          /\ matched' = res.status
          /\ tok' = res.tok
          /\ \/ Taken(res)
             \/ Recovers(caller, res)
             \/ GivesUp(caller, res)
             \/ res.status = "never" /\ UNCHANGED <<match, reading>>
    /\ UNCHANGED answer

(* ---- is_valid_ip_address ------------------------------------------------- *)

IpValue == 1
ColonValue == 2
PortValue == 3

Digits == ToSet(Digit)

DigitOf(c) == (CHOOSE i \in DOMAIN Digit : Digit[i] = c) - 1

\* The digits that begin at position p of a text.
RECURSIVE DigitsAt(_, _)
DigitsAt(text, p) ==
    IF CharAt(text, p) \in Digits THEN <<CharAt(text, p)>> \o DigitsAt(text, p + 1) ELSE <<>>

Number(digits) == FoldLeft(LAMBDA n, c : 10 * n + DigitOf(c), 0, digits)

\* AR_wtou32, which refuses what 32 bits do not hold, and what *port keeps of
\* it: the comparison with 65535 comes after that.
Port(digits) == IF Number(digits) < UintLimit THEN Number(digits) % UshortLimit ELSE 0

\* The token it goes on with: the one behind a colon.
PastColon(second) ==
    IF second.status = "AR_S_YES" /\ second.tok.value = ColonValue
    THEN LexMatch(second.match, second.tok) ELSE second

TokenText(t) == SubSeq(match.text, t.index + 1, t.index + t.count)

Answer(first, last) ==
    LET ret == first.status = "AR_S_YES" IN
    [ret |-> IF ret THEN "YES" ELSE "NO",
     value |-> IF ret THEN first.tok.value ELSE -1,
     ip |-> IF ret THEN TokenText(first.tok) ELSE <<>>,
     port |-> IF last.status = "AR_S_YES" /\ last.tok.value = PortValue
              THEN Port(DigitsAt(match.text, last.tok.index)) ELSE 0]

FitsValidIp(first) == first.status = "AR_S_YES" => first.tok.count < ValidIpSize

AddressTurn ==
    /\ CalledBy({"address"})
    /\ reading
    /\ reading' = FALSE
    /\ UNCHANGED turn

\* Any first token is answered YES.
IsValidIpAddress ==
    /\ AddressTurn
    /\ \E first \in {LexMatch(match, tok)} :
       \E last \in {PastColon(LexMatch(first.match, first.tok))} :
          /\ FitsValidIp(first)
          /\ match' = last.match
          /\ matched' = first.status
          /\ tok' = last.tok
          /\ answer' = Answer(first, last)

\* The first token does not fit: the assertion ends the process.
AddressAsserts ==
    /\ AddressTurn
    /\ \E first \in {LexMatch(match, tok)} :
          /\ ~FitsValidIp(first)
          /\ match' = first.match
          /\ matched' = first.status
          /\ tok' = first.tok
          /\ answer' = [NoAnswer EXCEPT !.ret = "asserts"]

LexNext ==
    \/ Match \/ SkipBlank \/ SkipTarget \/ SkipSome \/ PutTokenBack
    \/ DropError \/ Reset \/ MatchFlags
    \/ ReadToken \/ IsValidIpAddress \/ AddressAsserts

LexSpec == LexInit /\ [][LexNext]_lexVars

-----------------------------------------------------------------------------
(* Properties.                                                               *)

NamesOf == [l \in DOMAIN Lexers |->
             FoldLeft(LAMBDA tbl, def : tbl @@ (def.name :> def.expr), <<>>, Lexers[l].names)]

SteadyLexers ==
    {l \in DOMAIN Lexers :
        \A i \in DOMAIN Lexers[l].rules : Steady(Lexers[l].rules[i].expr, NamesOf[l], TRUE)}

\* The rules of a lexer that match at position p, by the expressions' meaning.
Matching(m, p) ==
    {i \in DOMAIN Lexers[m.lexer].rules :
        Ends(Lexers[m.lexer].rules[i].expr, NamesOf[m.lexer], m, p) # <<>>}

\* The highest priority, and of those the one inserted first.
Chosen(l, rules) ==
    CHOOSE i \in rules :
        \A j \in rules \ {i} :
            LET a == Lexers[l].rules[i]
                b == Lexers[l].rules[j] IN
            a.priority > b.priority \/ (a.priority = b.priority /\ i < j)

\* What a match from p on has to give: [status, index, count, value].
RECURSIVE ByMeaning(_, _, _)
ByMeaning(m, p, empties) ==
    LET rules == Matching(m, p)
        rule == Lexers[m.lexer].rules[Chosen(m.lexer, rules)]
        end == Head(Ends(rule.expr, NamesOf[m.lexer], m, p))
        Failed(status) == <<status, 0, 0, 0>> IN
    IF empties > 1 THEN Failed("AR_E_LEXMPTYMATCH")
    ELSE IF rules = {} THEN Failed("AR_S_NO")
    ELSE IF rule.is_skip THEN ByMeaning(m, end, empties + IF end = p THEN 1 ELSE 0)
    ELSE <<"AR_S_YES", p, end - p, rule.value>>

\* A match gives the token that the expressions mean, wherever in the text the
\* calls before it have led: the rule of the highest priority that matches
\* there, then the one inserted first, skipping what is to be skipped; it says
\* no only where none matches, and it always returns.  For expressions on which
\* the threads can be relied on.
MatchesAsWritten ==
    [][matched' # "none" /\ match.lexer \in SteadyLexers /\ match.is_ok
       /\ Lexers[match.lexer].caller # "address" =>
          LET due == ByMeaning(match, match.next, 0) IN
          /\ matched' = due[1]
          /\ due[1] = "AR_S_YES" =>
                 tok'.index = due[2] /\ tok'.count = due[3] /\ tok'.value = due[4]]_lexVars

\* Where the line terminators before a position end lines: a CR LF at its LF.
LineEnds(text, p) ==
    {q \in 0 .. p - 1 : IsLineTerminator(CharAt(text, q)) /\ ~IsCrLf(text, q)}

Coordinates(text, p) ==
    LET ends == LineEnds(text, p) IN
    <<Cardinality(ends),
      IF ends = {} THEN p ELSE p - 1 - CHOOSE q \in ends : \A r \in ends : r <= q>>

\* Whatever was matched, skipped, put back or begun again, the line and column
\* are those of the position in the text: also between the CR and LF of a line
\* end.  The same of the last token.
CoordinatesCorrect ==
    /\ <<match.line, match.col>> = Coordinates(match.text, match.next)
    /\ tok # NoToken => <<tok.line, tok.col>> = Coordinates(match.text, tok.index)

\* Where the octet at position p ends: one or two digits, or three from 100 to
\* 255, and no digit behind; 0 if there is none.
Octet(text, p) ==
    LET digits == DigitsAt(text, p) IN
    IF Len(digits) \in 1 .. 2 \/ (Len(digits) = 3 /\ Number(digits) \in 100 .. 255)
    THEN p + Len(digits) ELSE 0

\* Where n octets with dots between them end.
RECURSIVE Octets(_, _, _)
Octets(text, p, n) ==
    LET end == Octet(text, p) IN
    IF n = 1 \/ end = 0 THEN end
    ELSE IF CharAt(text, end) = Dot THEN Octets(text, end + 1, n - 1) ELSE 0

RECURSIVE PastBlanks(_, _)
PastBlanks(text, p) == IF CharAt(text, p) \in Space THEN PastBlanks(text, p + 1) ELSE p

\* Where the first token of an address field's text ends, by what it has to be:
\* four octets, else a colon, else digits; 0 if it is none of them.
FirstTokenEnd(text, beg) ==
    LET quad == Octets(text, beg, 4) IN
    CASE quad # 0 -> quad
      [] quad = 0 /\ CharAt(text, beg) = Colon -> beg + 1
      [] OTHER -> LET n == Len(DigitsAt(text, beg)) IN IF n = 0 THEN 0 ELSE beg + n

\* is_valid_ip_address says YES to a text that begins with an address, and to
\* no address with an octet above 255, a fifth octet's or a longer number's
\* digits; but also to a text that begins with a colon or with digits, which
\* "invalid ip address" (ViewController.m:543) was to refuse.  What it gives is
\* that token and all of it, and the port behind it, with a colon or without.
AddressesAreDottedQuads ==
    answer.ret \in {"YES", "NO"} =>
        LET text == match.text
            beg == PastBlanks(text, 0)
            end == FirstTokenEnd(text, beg)
            behind == PastBlanks(text, end)
            port == IF CharAt(text, behind) = Colon THEN PastBlanks(text, behind + 1)
                    ELSE behind IN
        /\ answer.ret = "YES" <=> end # 0
        /\ answer.value = IpValue <=> Octets(text, beg, 4) # 0
        /\ end # 0 =>
              /\ answer.ip = SubSeq(text, beg + 1, end)
              /\ answer.port = IF Octets(text, port, 4) # 0 THEN 0
                               ELSE Port(DigitsAt(text, port))

\* The token that is copied to valid_ip fits there: tok.count < 16, the assertion
\* of ViewController.m:487.
ValidIpHoldsIt == answer.ret # "asserts"

\* Every turn of a loop that reads a text gets on in it, or is the last,
\* whatever of the text the lexer does not know: so the loop ends.  (A rule
\* other than the end's that takes nothing would be matched for ever.)
EveryTurnReads ==
    [][turn' # turn => ~reading' \/ match'.next > match.next]_lexVars
=============================================================================
