------------------------------ MODULE IniObject ------------------------------
(***************************************************************************)
(* Ini objects and their texts (Arsenal's iniobj.c), as the server keeps    *)
(* its settings.  A text is a sequence of lines, a line and a value are     *)
(* sequences of characters.  Characters no rule looks into are one where    *)
(* they come together: "Server", "28412".                                   *)
(***************************************************************************)
EXTENDS Naturals, SequencesExt

CONSTANTS
    Null,               \* no string
    MaxLine             \* AR_MAX_LINE_LENGTH

Blank == " "
Tag == "#"              \* the characters of __g_comment
EmptySectionName == <<"[[", "__empty_header__", "]]">>

-----------------------------------------------------------------------------
(* Strings.                                                                 *)

NonBlanks(s) == {i \in DOMAIN s : s[i] # Blank}

Positions(s, c, from) == {i \in from .. Len(s) : s[i] = c}

TrimSpace(s) ==
    IF NonBlanks(s) = {} THEN <<>>
    ELSE SubSeq(s, Min(NonBlanks(s)), Max(NonBlanks(s)))

\* From the first tag on, the tag included.
CommentFrom(s, from) ==
    LET tags == Positions(s, Tag, from)
    IN  IF tags = {} THEN <<>> ELSE SubSeq(s, Min(tags), Len(s))

-----------------------------------------------------------------------------
(* __parse_line.                                                            *)

Line(type, key, val, comment) ==
    [type |-> type, key |-> key, val |-> val, comment |-> comment]

InvalidLine == Line("invalid", <<>>, <<>>, <<>>)

\* Mutant: the end of a value moves on the first character of every word.
ValueEndOfWords(v) == Max({i \in DOMAIN v : v[i] # Blank})

\* The end of a value moves on every character of the first word, but not on
\* the first character of a later one: a last word of one character is lost.
ValueEnd(v) == Max({i \in DOMAIN v : v[i] # Blank /\ (i = 1 \/ v[i - 1] # Blank)})

\* What is kept of the text behind the equals sign.
ValueOf(s) ==
    LET text == TrimSpace(SubSeq(s, 1, Len(s) - Len(CommentFrom(s, 1))))
    IN  IF text = <<>> THEN <<>> ELSE SubSeq(text, 1, ValueEnd(text))

\* "[ name ]", and no other bracket before the closing one.
ParseSection(s, first) ==
    LET closes == Positions(s, "]", first + 1)
        name == TrimSpace(SubSeq(s, first + 1, Min(closes) - 1))
    IN  IF closes = {} \/ name = <<>> \/ Contains(name, "[")
        THEN InvalidLine
        ELSE Line("section", name, <<>>, CommentFrom(s, Min(closes) + 1))

\* A line without an equals sign behind its first character is not a pair.
ParsePair(s, first) ==
    LET equals == Positions(s, "=", first + 1)
        rest == SubSeq(s, Min(equals) + 1, Len(s))
    IN  IF equals = {}
        THEN InvalidLine
        ELSE Line("pair", TrimSpace(SubSeq(s, first, Min(equals) - 1)),
                  ValueOf(rest), CommentFrom(rest, 1))

ParseLine(s) ==
    LET first == Min(NonBlanks(s))
    IN  IF Len(s) >= MaxLine THEN InvalidLine
        ELSE IF NonBlanks(s) = {} THEN Line("empty", <<>>, <<>>, <<>>)
        ELSE IF s[first] = Tag THEN Line("comment", <<>>, <<>>, CommentFrom(s, first))
        ELSE IF s[first] = "[" THEN ParseSection(s, first)
        ELSE ParsePair(s, first)

-----------------------------------------------------------------------------
(* Objects: sequences of sections, which are sequences of pairs and of      *)
(* comments.                                                                *)

OrNull(s) == IF s = <<>> THEN Null ELSE s

FirstOf(positions) == IF positions = {} THEN 0 ELSE Min(positions)

FindSection(obj, sect) == FirstOf({i \in DOMAIN obj : obj[i].name = sect})

FindKey(section, key) ==
    FirstOf({i \in DOMAIN section.pairs : section.pairs[i].key = key})

IsValidSectionName(name) ==
    \/ name = EmptySectionName
    \/ NonBlanks(name) # {} /\ ~Contains(name, "[") /\ ~Contains(name, "]")

InsertSection(obj, sect, comment) ==
    IF ~IsValidSectionName(sect) \/ FindSection(obj, sect) # 0
    THEN [ok |-> FALSE, obj |-> obj]
    ELSE [ok |-> TRUE,
          obj |-> Append(obj, [name |-> TrimSpace(sect), comment |-> comment, pairs |-> <<>>])]

\* Mutant: a key that is there is not looked for.
InsertPairAgain(section, key, val, comment) ==
    [section EXCEPT !.pairs = Append(@, [key |-> key, val |-> val, comment |-> comment])]

InsertPair(section, key, val, comment) ==
    LET at == FindKey(section, key)
        pair == [key |-> key, val |-> val, comment |-> comment]
    IN  IF at = 0
        THEN [section EXCEPT !.pairs = Append(@, pair)]
        ELSE [section EXCEPT !.pairs[at] = pair]

\* A comment line is a pair without a key.
InsertComment(section, comment) ==
    [section EXCEPT !.pairs = Append(@, [key |-> Null, val |-> Null, comment |-> comment])]

\* A section that is not there is inserted.
WithSection(obj, sect) ==
    IF FindSection(obj, sect) = 0 THEN InsertSection(obj, sect, Null).obj ELSE obj

\* For a section name without blanks around it: with them, the section just
\* inserted is never found and the code inserts it for ever.
SetString(obj, sect, key, val, comment) ==
    LET with == WithSection(obj, sect)
        at == FindSection(with, sect)
    IN  IF ~IsValidSectionName(sect) \/ NonBlanks(key) = {} THEN obj
        ELSE [with EXCEPT ![at] = InsertPair(@, TrimSpace(key), val, comment)]

GetString(obj, sect, key) ==
    LET at == FindSection(obj, sect)
        pair == IF at = 0 THEN 0 ELSE FindKey(obj[at], key)
    IN  IF pair = 0 THEN Null ELSE obj[at].pairs[pair].val

-----------------------------------------------------------------------------
(* Loading: lines are handled up to the first that is not accepted, and     *)
(* what was read before it stays.                                           *)

InSection(st) ==
    IF st.last # 0 THEN st
    ELSE LET r == InsertSection(st.obj, EmptySectionName, Null)
         IN  [obj |-> r.obj, ok |-> r.ok, last |-> IF r.ok THEN Len(r.obj) ELSE 0]

HandleSection(st, line) ==
    LET r == InsertSection(st.obj, line.key, OrNull(line.comment))
    IN  [obj |-> r.obj, ok |-> r.ok, last |-> IF r.ok THEN Len(r.obj) ELSE st.last]

HandlePair(st, line) ==
    LET in == InSection(st)
    IN  IF ~in.ok THEN in
        ELSE [in EXCEPT !.obj[in.last] =
                 InsertPair(@, line.key, OrNull(line.val), OrNull(line.comment))]

HandleComment(st, line) ==
    LET in == InSection(st)
    IN  IF ~in.ok THEN in
        ELSE [in EXCEPT !.obj[in.last] = InsertComment(@, line.comment)]

HandleLine(st, s) ==
    LET line == ParseLine(s)
    IN  IF ~st.ok THEN st
        ELSE CASE line.type = "section" -> HandleSection(st, line)
               [] line.type = "pair" -> HandlePair(st, line)
               [] line.type = "comment" -> HandleComment(st, line)
               [] line.type = "empty" -> st
               [] line.type = "invalid" -> [st EXCEPT !.ok = FALSE]

LoadObjectFromString(text) ==
    FoldLeft(HandleLine, [obj |-> <<>>, ok |-> TRUE, last |-> 0], text).obj

-----------------------------------------------------------------------------
(* Saving.                                                                  *)

Written(s) == IF s = Null THEN <<>> ELSE s

HeaderLines(section) ==
    IF section.name = EmptySectionName THEN <<>>
    ELSE <<<<"[">> \o section.name \o <<"]">> \o
            (IF section.comment = Null THEN <<>> ELSE <<Blank>> \o section.comment)>>

\* An empty value is written without the equals sign.
PairLine(pair) ==
    IF pair.key = Null THEN pair.comment
    ELSE IF Written(pair.val) = <<>> THEN pair.key \o <<Blank>> \o Written(pair.comment)
    ELSE pair.key \o <<"=">> \o pair.val \o <<Blank>> \o Written(pair.comment)

SectionLines(section) ==
    HeaderLines(section) \o [i \in DOMAIN section.pairs |-> PairLine(section.pairs[i])]
        \o <<<<>>>>

SaveObjectToString(obj) ==
    FoldLeft(LAMBDA text, section : text \o SectionLines(section), <<>>, obj)
=============================================================================
