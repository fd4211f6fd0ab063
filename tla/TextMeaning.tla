----------------------------- MODULE TextMeaning ------------------------------
(* What the operations on texts, formats, strings, arrays and keys should    *)
(* give, for every one of a set of samples.                                  *)
EXTENDS ArStrings, SendKeys

CONSTANTS
    Numerals,   \* texts that may be numbers
    ToPrint,    \* numbers to print
    Pairs,      \* texts to compare and to look for in one another
    ByteTexts,  \* sequences of bytes
    Directives, \* parts of formats
    Arrays,     \* sequences to sort
    Escapable,  \* texts to escape, and to read as escaped
    SavedTexts, \* an encoding and a text to save in it
    Files,      \* the bytes of files to load
    KeyStrings, \* strings of keys to send, and what NumTimes happens to be
    NoText

VARIABLES kind, text

TextInit == kind = NoText /\ text = NoText

Take(k, S) == kind = NoText /\ kind' = k /\ text' \in S

TakeText ==
    \/ Take("numeral", Numerals)
    \/ Take("number", ToPrint)
    \/ Take("pair", Pairs)
    \/ Take("bytes", ByteTexts)
    \/ Take("directive", Directives)
    \/ Take("array", Arrays)
    \/ Take("escape", Escapable)
    \/ Take("saved", SavedTexts)
    \/ Take("file", Files)
    \/ Take("keys", KeyStrings)

-----------------------------------------------------------------------------
(* Numbers.                                                                  *)

Bases == {0, 2, 8, 10, 16, 36}

\* What is left of a text without its first n characters, and without blanks.
Rest(s, n) == SubSeq(s, n + 1, Len(s))
Unblanked(s) == LET n == Max({k \in 0 .. Len(s) : \A i \in 1 .. k : s[i] \in Space}) IN Rest(s, n)
HasSign(s) == s # <<>> /\ Head(s) \in {Minus, Plus}
Unsigned(s) == IF HasSign(s) THEN Tail(s) ELSE s
IsHex(s) == Len(s) >= 2 /\ wchartodigit(s[1]) = 0 /\ IsX(s[2])

\* The digits at the head of s, and their value.
HeadDigits(s, base) ==
    SubSeq(s, 1, Max({k \in 0 .. Len(s) : \A i \in 1 .. k : Digit(s[i]) < base}))
ValueIn(digits, base) ==
    FoldLeftDomain(LAMBDA v, i : v + Digit(digits[i]) * base ^ (Len(digits) - i), 0, digits)

RadixOf(body, base) ==
    IF base # 0 THEN base
    ELSE IF IsHex(body) THEN 16
    ELSE IF body # <<>> /\ wchartodigit(Head(body)) = 0 THEN 8 ELSE 10

Nearest(n, least, most) == Max({least, Min({n, most})})

\* The digits' value when a number of the kind has it, and else the nearest.
StandsFor(s, read, digits, radix, neg, unsigned) ==
    LET most == IF unsigned THEN UintMax ELSE IntMax
        signed == IF neg THEN 0 - ValueIn(digits, radix) ELSE ValueIn(digits, radix)
        nearest == Nearest(signed, most - UintMax, most)
    IN  IF (neg /\ unsigned) \/ digits = <<>>
        THEN read.stop = Null /\ read.num \in {Unset, 0}
        ELSE /\ read.num = nearest
             /\ IF signed = nearest
                THEN /\ SubSeq(s, read.stop - Len(digits) + 1, read.stop) = digits
                     /\ HeadDigits(Rest(s, read.stop), radix) = <<>>
                ELSE read.stop = Null

\* A text is blanks, a sign, a prefix, digits and a rest.
SplitsRight(s, in, read, base, unsigned) ==
    LET body == Unsigned(in)
        radix == RadixOf(body, base)
        digits == HeadDigits(IF radix = 16 /\ IsHex(body) THEN Rest(body, 2) ELSE body, radix)
    IN  StandsFor(s, read, digits, radix, HasSign(in) /\ Head(in) = Minus, unsigned)

ReadsRight(s, base, unsigned) ==
    SplitsRight(s, Unblanked(s), ReadNumber(s, Len(s), base, unsigned), base, unsigned)

\* With a point among the digits, and a power of ten.
DecimalValue(s) ==
    LET whole == HeadDigits(s, 10)
        behind == Rest(s, Len(whole))
        frac == IF behind # <<>> /\ Head(behind) = Point THEN HeadDigits(Tail(behind), 10) ELSE <<>>
    IN  Ratio(ValueIn(whole \o frac, 10), 10 ^ Len(frac))

CountPoints(s) == Cardinality({i \in DOMAIN s : s[i] = Point})

ScaleValue(exp) ==
    LET scale == 10 ^ ValueIn(HeadDigits(Unsigned(exp), 10), 10)
    IN  IF HasSign(exp) /\ Head(exp) = Minus THEN Ratio(1, scale) ELSE Q(scale)

\* Of a mantissa and what is behind its "e", when it has one.
ExactlyRead(s, read, mantissa, exp, scaled, neg) ==
    LET value == DecimalValue(mantissa) ** IF scaled THEN ScaleValue(exp) ELSE One
    IN  (\A i \in DOMAIN mantissa : mantissa[i] \in Ascii \cup {Point}) /\ CountPoints(mantissa) <= 1 =>
            /\ read.num = IF neg THEN Neg(value) ELSE value
            /\ IF scaled THEN HeadDigits(Rest(s, read.stop), 10) = <<>> /\ HeadDigits(Unsigned(exp), 10) # <<>>
               ELSE read.stop = Len(s)

FractionsRight(s) ==
    LET in == Unblanked(s)
        body == Unsigned(in)
        e == Min({i \in DOMAIN body : IsE(body[i])} \cup {Len(body) + 1})
        read == wtod(s, Len(s))
    IN  read.stop # Null =>
            ExactlyRead(s, read, SubSeq(body, 1, e - 1), Rest(body, e), e <= Len(body),
                        HasSign(in) /\ Head(in) = Minus)

PrintsRight(n) ==
    \A radix \in {2, 3, 8, 10, 16, 36} :
        /\ n >= 0 => ReadNumber(u64tow(n, radix), Len(u64tow(n, radix)), radix, TRUE)
                        = [stop |-> Len(u64tow(n, radix)), num |-> n]
        /\ n <= IntMax => ReadNumber(i64tow(n, radix), Len(i64tow(n, radix)), radix, FALSE)
                            = [stop |-> Len(i64tow(n, radix)), num |-> n]

\* A text is read as the number it stands for in any base, a text of digits that
\* no number has as the nearest one, and a number that is printed is read back;
\* with fractions and powers of ten the value is exact (crtstr.c:1251, 1351,
\* 1466).
NumbersCorrect ==
    /\ kind = "numeral" =>
          /\ \A base \in Bases : \A unsigned \in BOOLEAN : ReadsRight(text, base, unsigned)
          /\ FractionsRight(text)
          /\ wcs_is_int(text, Len(text)) => \E u \in BOOLEAN : ReadNumber(text, Len(text), 0, u).stop # Null
    /\ kind = "number" => PrintsRight(text)

-----------------------------------------------------------------------------
(* Texts, strings and tables.                                                *)

LowerOf(s) == [i \in DOMAIN s |-> Lower(s[i])]
OccursAt(s, p, at) == at + Len(p) <= Len(s) /\ LowerOf(Part(s, at, Len(p))) = LowerOf(p)
Places(s, p) == {at \in 0 .. Len(s) - 1 : OccursAt(s, p, at)}

SearchesRight(s, p) ==
    /\ wcsistr(s, p) = IF Places(s, p) = {} THEN Null ELSE Min(Places(s, p))
    /\ Len(p) > 1 => reverse_wcsistr(s, Len(s), p)
                        = IF Places(s, p) = {} THEN Null ELSE Max(Places(s, p))
    /\ Len(p) = 1 /\ Places(s, p) # {} => reverse_wcsistr(s, Len(s), p) = Max(Places(s, p))
    /\ (wcsicmp(s, p) = 0) = (LowerOf(s) = LowerOf(p))
    /\ (wcsicmp(s, p) < 0) = (wcsicmp(p, s) > 0)

Ends(s) == IF s = <<>> THEN {} ELSE {Head(s), Last(s)}

TrimsRight(s) ==
    LET in == wcstrim_right(wcstrim(s, Space), Space)
    IN  /\ Ends(in) \cap Space = {}
        /\ \E a, b \in 0 .. Len(s) :
              /\ in = SubSeq(s, a + 1, Len(s) - b)
              /\ \A i \in 1 .. a : s[i] \in Space
              /\ \A i \in Len(s) - b + 1 .. Len(s) : s[i] \in Space

\* A string holds what was put into it and always has room for the NUL.
StringsRight(s, p) ==
    LET one == AR_AppendString(AR_CreateString, s)
        two == AR_AppendCharToString(AR_AppendString(one, p), 0)
        three == AR_AppendString(AR_AppendCharToString(AR_ClearString(two), 65), p)
    IN  /\ two.str = s \o p
        /\ three.str = <<65>> \o p
        /\ \A str \in {one, two, three} : Len(str.str) < str.cap
        /\ wcsncat(s, p, 2) = s \o wcsndup(p, Min({2, Len(p)}))

\* A table has the texts that were put, each once, and no others.
TableRight(s, p) ==
    LET tbl == AR_GetString(AR_GetString(AR_GetString(AR_CreateStrTable, s), p), s)
    IN  /\ AR_HasString(tbl, s) /\ AR_HasString(tbl, p)
        /\ \A q \in {Append(s, 65), s \o p} : AR_HasString(tbl, q) = (q \in {s, p})
        /\ FoldLeft(LAMBDA n, b : n + Len(tbl[b - 1]), 0, [b \in 1 .. Buckets |-> b]) = Cardinality({s, p})

\* Bytes come back as they were, whole groups exactly and with blanks between
\* them too, others with a zero behind them.
Base64Right(b) ==
    LET enc == AR_base64_encode(b)
        odd == Len(b) % 3 # 0
        broken == SubSeq(enc, 1, 4) \o <<65>> \o Rest(enc, 4)
    IN  /\ Len(enc) = 4 * ((Len(b) + 2) \div 3)
        /\ AR_base64_decode(enc) = IF odd THEN Append(b, 0) ELSE b
        /\ Len(b) > 3 => AR_base64_decode(broken) = AR_base64_decode(enc)

IsHexDigit(c) == Digit(c) < 16

\* A character in numbers takes the digits behind it for its own.
Swallows(s) ==
    \E i \in 1 .. Len(s) - 1 : EscapeOf(s[i]) = EscapeByNumber(s[i]) /\ IsHexDigit(s[i + 1])

\* An escaped text is printable and reads back, unless a number swallows what
\* follows it; there is room for it as long as no number has four digits.
RightlyEscaped(s, esc, back) ==
    /\ Range(esc) \subseteq Printable
    /\ (back.error.type = "ok" /\ back.str = s) = ~Swallows(s)
    /\ (\A i \in DOMAIN s : s[i] < 16 ^ 3) => Len(esc) < EscapeRoom(Len(s))
    /\ \A n \in 0 .. Len(s) : AR_str_to_escstr_n(s, n) = AR_str_to_escstr(Part(s, 0, n))
    /\ AR_str_to_escstr_buf(Len(esc), s) = Null
    /\ AR_str_to_escstr_buf(Len(esc) + 1, s) = AR_str_to_escstr_buf(NoRoom, s)

EscapesRight(s) ==
    \A esc \in {AR_str_to_escstr(s)} : RightlyEscaped(s, esc, AR_escstr_to_str(esc))

\* A text is read piece by piece, where no piece ends in a digit.
PieceRight(n, piece, first, rest, whole) ==
    piece.error.type = "ok" =>
        /\ first = piece
        /\ whole.error.type = rest.error.type
        /\ IF rest.error.type = "ok" THEN whole.str = first.str \o rest.str
           ELSE whole.error.pos = n + rest.error.pos

ReadsInPieces(s) ==
    \A n \in 1 .. Len(s) :
        ~IsHexDigit(s[n]) =>
            PieceRight(n, AR_escstr_to_str(Part(s, 0, n)), AR_escstr_to_str_n(s, n),
                       AR_escstr_to_str(Rest(s, n)), AR_escstr_to_str(s))

\* A text in a buffer needs the room that was asked for, and no more.
BufferRight(s, read, asked) ==
    /\ (asked = Null) = (read.error.type # "ok")
    /\ asked # Null =>
          /\ AR_escstr_to_str_buf(asked, s) = [ret |-> asked, type |-> "ok"]
          /\ AR_escstr_to_str_buf(asked - 1, s) = [ret |-> Null, type |-> "buffer"]

BuffersRight(s) == BufferRight(s, AR_escstr_to_str(s), AR_escstr_to_str_buf(NoRoom, s).ret)

LooksMarked(bytes) == \E enc \in Encodings : IsPrefix(Mark[enc], bytes)

\* What is saved is loaded, with its encoding; what does not fit is no success.
SavedRight(enc, s, saved) ==
    saved.ret = "yes" /\ (enc = "ascii" => ~LooksMarked(saved.output)) =>
        /\ AR_LoadBomTextFromBinary(saved.output) = [ret |-> "yes", bom |-> enc, str |-> s]
        /\ \A room \in 0 .. Len(saved.output) + 1 :
              \A save \in {AR_SaveBomTextFile(NoFile, enc, s, TRUE, room)} :
                  save.ret = "yes" => AR_LoadBomTextFile(save.file) = [ret |-> "yes", bom |-> enc, str |-> s]

SavesRight(enc, s) == SavedRight(enc, s, AR_SaveBomTextToBinary(enc, s))

\* A marked file is text whatever its bytes. One that is cut short says the
\* beginning of what it said, but for a last character out of part of its bytes.
CutRight(cut, whole) ==
    cut.ret = "yes" /\ cut.bom = whole.bom /\ cut.bom # "ascii" /\ cut.str # <<>> =>
        IsPrefix(Front(cut.str), whole.str)

LoadsRight(file) ==
    \A whole \in {AR_LoadBomTextFile(file)} :
        /\ LooksMarked(file) => whole.ret = "yes"
        /\ \A n \in 0 .. Len(file) - 1 : CutRight(AR_LoadBomTextFile(Part(file, 0, n)), whole)

\* Bytes and characters of a code page, in as much room as there is.
PageRight(cp, s, bytes) ==
    bytes.ok /\ s # <<>> =>
        /\ AR_str_convto_wcs(cp, bytes.str) = [ok |-> TRUE, str |-> s]
        /\ AR_wcs_to_str(cp, s, Len(s) - 1) = IF Len(s) = 1 THEN 1 ELSE 0
        /\ AR_str_to_wcs(cp, bytes.str, AR_str_to_wcs(cp, bytes.str, NoRoom)) = Len(s)

PagesRight(s) == \A cp \in DOMAIN CodePages : PageRight(cp, s, AR_wcs_convto_str(cp, s))

\* Searches find the first and the last place, case aside, trimming takes
\* blanks at the ends and nothing else, a string keeps what is appended, a table
\* one copy of each text, base64 gives the bytes back, escaped texts read back
\* as far as they can, and files load as they were saved, whatever the encoding
\* (crtstr.c:932, 1814, string.c:116, strtable.c:126, base64.c:120, 197,
\* utilities.c:140, textfile.c:456, 695).
TextsCorrect ==
    /\ kind = "pair" =>
          /\ SearchesRight(text[1], text[2])
          /\ TrimsRight(text[1])
          /\ StringsRight(text[1], text[2])
          /\ TableRight(text[1], text[2])
    /\ kind = "bytes" => Base64Right(text)
    /\ kind = "escape" =>
          /\ EscapesRight(text)
          /\ ReadsInPieces(text)
          /\ BuffersRight(text)
    /\ kind = "saved" => SavesRight(text[1], text[2]) /\ PagesRight(text[2])
    /\ kind = "file" => LoadsRight(text)

\* Directives whose estimate is no promise: with a negative width; texts and
\* characters wider than the precision that cuts them; numbers of more digits
\* than any number has.
Beyond(d) ==
    \/ d.width < 0
    \/ d.conv \in Text \cup OneChar /\ d.prec # 0 /\ d.prec < d.width
    \/ d.conv \in Whole /\ d.prec > 29
    \/ d.conv \in Exponent /\ d.prec > 119

\* The room AR_vscwprintf finds is enough for what is printed, so that AR_vtow
\* and the strings never lose a text for lack of it, alone or between others
\* (AR_vscwprintf, crtstr.c:455; AR_FormatString, string.c:217).
FormatFits ==
    kind = "directive" /\ ~Beyond(text) /\ AR_vscwprintf(<<text>>) # Invalid =>
        LET fmt == << text, text >>
            printed == [i \in 1 .. Sum(fmt, PrintedLength) |-> 46]
            string == AR_AppendString(AR_CreateString, <<65>>)
        IN  /\ Estimate(text) >= PrintedLength(text)
            /\ AR_vtow(fmt) = Len(printed)
            /\ AR_FormatString(string, fmt, printed).str = printed
            /\ AR_AppendFormatString(string, fmt, printed).str = <<65>> \o printed

-----------------------------------------------------------------------------
(* Arrays.                                                                   *)

Sorted(a) == \A i \in 1 .. Len(a) - 1 : a[i] <= a[i + 1]
Count(a, x) == Cardinality({i \in DOMAIN a : a[i] = x})

\* Sorting orders an array and keeps its elements, whatever ranges the pivots
\* leave; searching the result finds what is there and nothing else
\* (algo.c:68, 163, 272).
SortCorrect ==
    kind = "array" =>
        \A a \in {AR_qsort(text)} :
            /\ Sorted(a)
            /\ \A x \in Range(text) : Count(a, x) = Count(text, x)
            /\ \A x \in Range(text) \cup {Invalid, 9} :
                  LET found == AR_bsearch(x, a)
                  IN  IF Count(a, x) = 0 THEN found = Invalid ELSE a[found] = x

-----------------------------------------------------------------------------
(* Strokes.                                                                  *)

Modifiers == {VK_SHIFT, VK_CONTROL, VK_MENU, VK_LWIN}

\* The keys that are down before the i-th event.
DownBefore(sent, i) ==
    LET Latest(k) == Max({j \in 1 .. i - 1 : sent[j].key = k} \cup {0})
    IN  {k \in {sent[j].key : j \in 1 .. i - 1} : ~sent[Latest(k)].up}

\* A stroke: a key that is no modifier, and the modifiers down with it.
StrokesOf(sent) ==
    LET At(i) == [key |-> sent[i].key, with |-> DownBefore(sent, i)]
        struck == SelectSeq([i \in DOMAIN sent |-> i], LAMBDA i : ~sent[i].up /\ sent[i].key \notin Modifiers)
    IN  [n \in DOMAIN struck |-> At(struck[n])]

\* A key is struck with the modifiers before it. They are for one key or for a
\* group, in which a key's own modifiers are not down any more.
Strike(e, key, own, n) ==
    [e EXCEPT !.strokes = @ \o [i \in 1 .. n |-> [key |-> key, with |-> e.with \cup own]],
              !.with = IF e.group THEN @ \ own ELSE {}]

StrikeWord(e, MKey, n) ==
    IF MKey = INVALIDKEY THEN e ELSE Strike(e, LOBYTE(MKey), Range(ShiftKeys(HIBYTE(MKey))), n)

\* A character without a key counts as one of all modifiers.
StrikeChar(e, ch) ==
    IF VkKeyScan(ch) = INVALIDKEY THEN Strike(e, 255, Modifiers \ {VK_LWIN}, 1) ELSE StrikeWord(e, VkKeyScan(ch), 1)

StrikeName(e, name) ==
    IF name.normalkey THEN StrikeWord([e EXCEPT !.n = 1], VkKeyScan(name.VKey), 1)
    ELSE StrikeWord([e EXCEPT !.n = 1], name.VKey, 1)

\* The names a word may be the beginning of, whatever its case; and a name with a
\* blank and a count behind it.
Begun(word) == {name \in Range(KeyNames) : /\ Len(word) <= Len(name.name)
                                          /\ LowerOf(Part(name.name, 0, Len(word))) = LowerOf(word)}
Counted(word) ==
    \E name \in Range(KeyNames) :
        LET n == Len(name.name) IN
        /\ Len(word) > n + 1 /\ LowerOf(Part(word, 0, n)) = LowerOf(name.name)
        /\ word[n + 1] = 32 /\ \A i \in n + 2 .. Len(word) : Digit(word[i]) < 10

Commands == {DELAY, BEEP, APPACTIVATE}

\* What a string may mean. A name strikes its key; a word strikes one of the keys
\* whose names it begins; any other word, and a counted one, strikes nothing.
StrikeBrace(e, word) ==
    IF Says(word, VKEY) THEN {StrikeWord(e, ttoi(Argument(word, VKEY)), e.n)}
    ELSE IF Counted(word) \/ Begun(word) = {} \/ \E c \in Commands : Says(word, c) THEN {e}
    ELSE {StrikeName(e, name) : name \in Begun(word)}

StrikeItem(e, item) ==
    CASE item.is = "(" -> {[e EXCEPT !.group = TRUE]}
      [] item.is = ")" -> {[e EXCEPT !.group = FALSE, !.with = {}]}
      [] item.is \in DOMAIN ModifierOf -> {[e EXCEPT !.with = @ \cup {ModifierOf[item.is]}]}
      [] item.is = "~" -> {Strike(e, VK_RETURN, {}, 1)}
      [] item.is = "{" -> StrikeBrace(e, item.text)
      [] OTHER -> {StrikeChar(e, item.text[1])}

Meanings(keys, n) ==
    FoldLeft(LAMBDA es, item : UNION {StrikeItem(e, item) : e \in es},
             {[with |-> {}, group |-> FALSE, n |-> n, strokes |-> <<>>]}, keys)

KeysRight(keys, end, meanings) ==
    /\ ~end.failed =>
          /\ StrokesOf(end.sent) \in {m.strokes : m \in meanings}
          /\ DownBefore(end.sent, Len(end.sent) + 1) = {}
    /\ \A i \in DOMAIN end.sent :
          ~end.sent[i].up /\ end.sent[i].key \notin Modifiers =>
              end.sent[i + 1].up /\ end.sent[i + 1].key = end.sent[i].key

=============================================================================
