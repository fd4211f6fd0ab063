------------------------------ MODULE ArStrings -------------------------------
(* Strings that grow (string.c), the table that keeps one copy of each text  *)
(* (strtable.c), base64 (base64.c), sorting and searching (algo.c); and texts *)
(* in other forms: with escapes (utilities.c), in the bytes of a code page   *)
(* (strconv.c) and in files with a byte order mark (textfile.c).  Memory does *)
(* not run out.                                                              *)
EXTENDS CrtText, Bitwise

CONSTANTS
    Buckets,    \* the buckets of a string table
    Cutoff,     \* __QSORT_CUTOFF: ranges up to this long are sorted by insertion
    Printable,  \* the characters AR_iswprint accepts
    WcharMax,   \* AR_WCHARMAX, which an escape may not exceed
    WcharSize,  \* the bytes of a wchar_t
    CodePages,  \* ACP, UTF-8, Big5, GB2312 and GB18030: the characters of their bytes
    NoRoom,     \* no place to write to
    NoFile      \* a path that does not open, or whose file is not read to its end

-----------------------------------------------------------------------------
(* A string: its text and the room it has, for a NUL as well.                *)

AR_ReserveString(s, num) ==
    IF s.cap - Len(s.str) < num + 1 THEN [s EXCEPT !.cap = (Len(s.str) + num + 1) * 2] ELSE s

AR_CreateString == AR_ReserveString([str |-> <<>>, cap |-> 0], 8)
AR_ClearString(s) == [s EXCEPT !.str = <<>>]

AR_AppendString(s, sour) ==
    [AR_ReserveString(s, Len(sour)) EXCEPT !.str = @ \o sour]

\* A NUL is not appended.
AR_AppendCharToString(s, chr) ==
    IF chr = 0 THEN s ELSE [AR_ReserveString(s, 1) EXCEPT !.str = Append(@, chr)]

\* printed is what the format prints; there is none of it without room for all.
AR_FormatString(s, fmt, printed) ==
    LET len == AR_vscwprintf(fmt)
        room == AR_ReserveString(AR_ClearString(s), len + 1)
    IN  IF len = Invalid THEN AR_ClearString(s)
        ELSE [room EXCEPT !.str = Part(printed, 0, AR_vswprintf(fmt, room.cap - 1))]

AR_AppendFormatString(s, fmt, printed) ==
    IF AR_vtow(fmt) = Invalid THEN s ELSE AR_AppendString(s, Part(printed, 0, AR_vtow(fmt)))

-----------------------------------------------------------------------------
(* The string table: for each bucket its records, the latest first.          *)

AR_wcshash(str) ==
    Loop(LAMBDA hash, i : hash ^^ (str[i + 1] * 2 ^ (i % 16)), 0, Len(str))

BucketOf(str) == AR_wcshash(str) % Buckets

AR_CreateStrTable == [b \in 0 .. Buckets - 1 |-> <<>>]
AR_HasString(tbl, str) == \E i \in DOMAIN tbl[BucketOf(str)] : tbl[BucketOf(str)][i] = str
AR_GetString(tbl, str) ==
    IF AR_HasString(tbl, str) THEN tbl ELSE [tbl EXCEPT ![BucketOf(str)] = <<str>> \o @]

AR_GetStringInt(tbl, num, radix) == AR_GetString(tbl, i64tow(num, radix))
AR_GetStringUInt(tbl, num, radix) == AR_GetString(tbl, u64tow(num, radix))

-----------------------------------------------------------------------------
(* Base64, on a little-endian machine: bytes and sextets.                    *)

six_for_uint32(b) ==
    << b[1] \div 4, (b[1] % 4) * 16 + b[2] \div 16, (b[2] % 16) * 4 + b[3] \div 64, b[3] % 64 >>
uint32_for_six(t) ==
    << t[1] * 4 + t[2] \div 16, (t[2] % 16) * 16 + t[3] \div 4, (t[3] % 4) * 64 + t[4] >>

Pad == 64   \* "="
NoSextet == {65, 66}    \* a blank and a line break

PaddedTo(s, n) == s \o [i \in 1 .. n - Len(s) |-> 0]

\* Groups of three bytes, the last one shorter.
AR_base64_encode(input) ==
    LET Group(k) == Part(input, 3 * k, Min({3, Len(input) - 3 * k}))
        Sextets(g) == SubSeq(six_for_uint32(PaddedTo(g, 3)), 1, Len(g) + 1)
                      \o [i \in 1 .. 3 - Len(g) |-> Pad]
    IN  FlattenSeq([k \in 1 .. (Len(input) + 2) \div 3 |-> Sextets(Group(k - 1))])

\* As many bytes as the bits of k sextets reach into, one more than they fill
\* when k is 2 or 3.
BytesOf(tmp, k) == SubSeq(uint32_for_six(PaddedTo(tmp, 4)), 1, (k * 6 + 7) \div 8)

\* A group ends with four sextets, or before the padding or the end.
AR_base64_decode(input) ==
    LET stop == Min({i \in DOMAIN input : input[i] = Pad} \cup {Len(input) + 1})
        Step(s, n) ==
            LET tmp == Append(s.tmp, input[n + 1])
            IN  IF input[n + 1] \in NoSextet THEN s
                ELSE IF n + 2 >= stop \/ Len(tmp) = 4
                THEN [out |-> s.out \o BytesOf(tmp, Len(tmp)), tmp |-> <<>>]
                ELSE [s EXCEPT !.tmp = tmp]
    IN  Loop(Step, [out |-> <<>>, tmp |-> <<>>], stop - 1).out

-----------------------------------------------------------------------------
(* Sorting a sequence a, from place lo to place hi.                          *)

SwapAt(a, i, j) == [a EXCEPT ![i] = a[j], ![j] = a[i]]

\* The smallest is carried to the front, where it stops every other.
ToFront(a, lo, hi) ==
    Loop(LAMBDA s, k : IF s[hi - k] < s[hi - k - 1] THEN SwapAt(s, hi - k, hi - k - 1) ELSE s, a, hi - lo)

Sink(a, lo, t) ==
    LET Step(s, k) ==
            IF ~s.done /\ s.a[t - k] < s.a[t - k - 1]
            THEN [s EXCEPT !.a = SwapAt(s.a, t - k, t - k - 1)] ELSE [s EXCEPT !.done = TRUE]
    IN  Loop(Step, [a |-> a, done |-> FALSE], t - lo).a

insertion_sort(a, lo, hi) ==
    Loop(LAMBDA s, k : Sink(s, lo, lo + 1 + k), ToFront(a, lo, hi), hi - lo)

SwapIf(a, i, j) == IF a[i] > a[j] THEN SwapAt(a, i, j) ELSE a

\* The next place above i, below i, whose value is not to be passed over, up to
\* the middle first and then to the end of the range.
UpFrom(a, i, lo, hi, mid) ==
    LET up == IF mid > i THEN Min({p \in i + 1 .. mid - 1 : a[p] > a[mid]} \cup {mid}) ELSE i
    IN  IF mid <= up THEN Min({p \in up + 1 .. hi : a[p] > a[mid]} \cup {hi + 1}) ELSE up

DownFrom(a, i, mid) ==
    IF i - 1 <= mid THEN i - 1
    ELSE Max({p \in mid + 1 .. i - 1 : a[p] <= a[mid]} \cup {mid})

SkipEqual(a, high, lo, mid) ==
    LET down == IF mid < high
                THEN Max({p \in mid + 1 .. high - 1 : a[p] # a[mid]} \cup {mid}) ELSE high
    IN  IF mid >= down
        THEN Max({p \in lo + 1 .. down - 1 : a[p] # a[mid]} \cup {Min({lo, down - 1})}) ELSE down

\* The middle's place when the values at l and h are swapped: the same when
\* nobody looks after it, and as it is.
MiddleKept(mid, l, h) == mid
MiddleAfter(mid, l, h) == IF mid = h THEN l ELSE mid

\* Whatever is left of loguy is no greater than the middle, whatever is right
\* of higuy no less.
partition(a, lo, hi) ==
    LET mid == lo + (hi - lo + 1) \div 2
        start == SwapIf(SwapIf(SwapIf(a, lo, mid), lo, hi), mid, hi)
        Step(s, k) ==
            LET l == UpFrom(s.a, s.l, lo, hi, s.mid)
                h == DownFrom(s.a, s.h, s.mid)
            IN  IF s.done THEN s
                ELSE IF h < l THEN [s EXCEPT !.l = l, !.h = h, !.done = TRUE]
                ELSE [a |-> SwapAt(s.a, l, h), l |-> l, h |-> h,
                      mid |-> MiddleAfter(s.mid, l, h), done |-> FALSE]
        end == Loop(Step, [a |-> start, l |-> lo, h |-> hi, mid |-> mid, done |-> FALSE], hi - lo + 1)
    IN  [a |-> end.a, left |-> SkipEqual(end.a, end.h + 1, lo, end.mid), right |-> end.l]

\* The ranges still to sort: the longer half waits, the shorter is next.
SortNext(s) ==
    LET range == Last(s.ranges)
        rest == Front(s.ranges)
        lo == range[1]
        hi == range[2]
        parts == partition(s.a, lo, hi)
        left == IF lo < parts.left THEN << <<lo, parts.left>> >> ELSE <<>>
        right == IF parts.right < hi THEN << <<parts.right, hi>> >> ELSE <<>>
    IN  IF hi - lo + 1 <= Cutoff THEN [a |-> insertion_sort(s.a, lo, hi), ranges |-> rest]
        ELSE [a |-> parts.a,
              ranges |-> rest \o IF parts.left - lo >= hi - parts.right
                                 THEN left \o right ELSE right \o left]

AR_qsort(a) ==
    LET Step(s, k) == IF s.ranges = <<>> THEN s ELSE SortNext(s)
        first == IF Len(a) < 2 THEN <<>> ELSE << <<1, Len(a)>> >>
    IN  Loop(Step, [a |-> a, ranges |-> first], 2 * Len(a)).a

\* Half the range is given up until the key is found, or one element is left.
AR_bsearch(key, a) ==
    LET Step(s, k) ==
            LET half == s.num \div 2
                odd == s.num % 2
                mid == s.lo + half - 1 + odd
            IN  IF s.found # Invalid \/ s.lo > s.hi THEN s
                ELSE IF half = 0
                THEN [s EXCEPT !.found = IF s.num = 1 /\ key = a[s.lo] THEN s.lo ELSE Invalid, !.hi = s.lo - 1]
                ELSE IF key = a[mid] THEN [s EXCEPT !.found = mid]
                ELSE IF key < a[mid] THEN [s EXCEPT !.hi = mid - 1, !.num = half - 1 + odd]
                ELSE [s EXCEPT !.lo = mid + 1, !.num = half]
    IN  Loop(Step, [lo |-> 1, hi |-> Len(a), num |-> Len(a), found |-> Invalid], Len(a) + 1).found

-----------------------------------------------------------------------------
(* Parts of texts.                                                           *)

Cut(text) == Part(text, 0, Min({i \in 0 .. Len(text) : Chr(text, i) = 0}))
Behind(text, n) == SubSeq(text, n + 1, Len(text))

-----------------------------------------------------------------------------
(* Escapes.                                                                  *)

Backslash == 92
LetterOf == (8 :> 98) @@ (12 :> 102) @@ (10 :> 110) @@ (13 :> 114) @@ (9 :> 116) @@ (11 :> 118) @@ (7 :> 97)
Quotable == {Backslash, 34}
Octal == 48 .. 55

Read(stop, chr) == [stop |-> stop, chr |-> chr, type |-> "ok", value |-> 0]
NotAChar(type, value) == [stop |-> Null, chr |-> 0, type |-> type, value |-> value]

\* The number read behind an x at place p.
CharOf(read, p) ==
    IF read.stop = Null THEN NotAChar("value", 0)
    ELSE IF read.num > WcharMax THEN NotAChar("value", read.num)
    ELSE Read(read.stop + p + 1, read.num)

\* All the digits there are, blanks and 0x before them.
ReadHex(text, p) ==
    IF Chr(text, p + 1) = 0 THEN NotAChar("char", 0)
    ELSE CharOf(ReadNumber(Behind(text, p + 1), Len(text) - (p + 1), 16, TRUE), p)

\* Three digits at most.
OctalValue(digits) == FoldLeft(LAMBDA c, d : (c * 8 + d - 48) % (WcharMax + 1), 0, digits)
ReadOctal(text, p, stop) == Read(stop, OctalValue(Part(text, p, stop - p)))

transform_char(text, p) ==
    LET c == Chr(text, p)
    IN  CASE c \in Range(LetterOf) -> Read(p + 1, CHOOSE b \in DOMAIN LetterOf : LetterOf[b] = c)
          [] c \in Quotable \cup {39} -> Read(p + 1, c)
          [] c = 120 -> ReadHex(text, p)
          [] c \in Octal -> ReadOctal(text, p, Past(text, p, Min({p + 3, Len(text)}), Octal))
          [] OTHER -> NotAChar("char", 0)

\* What the first n characters say, or where they say nothing.
AR_escstr_to_str_n(src, n) ==
    LET Next(s, read) ==
            IF read.stop = Null THEN [s EXCEPT !.error = [type |-> read.type, pos |-> s.i + 1, value |-> read.value]]
            ELSE [s EXCEPT !.i = read.stop, !.str = Append(@, read.chr)]
        Step(s, k) ==
            IF s.i >= n \/ Chr(src, s.i) = 0 \/ s.error.type # "ok" THEN s
            ELSE IF Chr(src, s.i) = Backslash THEN Next(s, transform_char(src, s.i + 1))
            ELSE [s EXCEPT !.i = @ + 1, !.str = Append(@, Chr(src, s.i))]
    IN  Loop(Step, [i |-> 0, str |-> <<>>, error |-> [type |-> "ok", pos |-> Null, value |-> 0]], Len(src))

AR_escstr_to_str(src) == AR_escstr_to_str_n(src, Len(src))

\* What becomes of one character; in numbers, and as it is.
EscapeByNumber(c) == <<Backslash, 120>> \o u64tow(c, 16)
EscapeOf(c) ==
    CASE c \in DOMAIN LetterOf -> <<Backslash, LetterOf[c]>>
      [] c \in Quotable -> <<Backslash, c>>
      [] c \in Printable \ Quotable -> <<c>>
      [] OTHER -> EscapeByNumber(c)

AR_str_to_escstr_n(src, n) ==
    FlattenSeq([i \in 1 .. Min({n, Len(Cut(src))}) |-> EscapeOf(src[i])])

AR_str_to_escstr(src) == AR_str_to_escstr_n(src, Len(src))

\* The room allocated for n characters, the NUL's included.
EscapeRoom(n) == (n + 5) * 5 + 1

\* Into len characters, or NoRoom, which asks how many it takes.
escstr_buf(dest_len, str) ==
    IF dest_len # NoRoom /\ dest_len <= Len(str) THEN Null ELSE Len(str) + 1

ToBuffer(dest_len, read) ==
    IF read.error.type # "ok" THEN [ret |-> Null, type |-> read.error.type]
    ELSE IF escstr_buf(dest_len, Cut(read.str)) = Null THEN [ret |-> Null, type |-> "buffer"]
    ELSE [ret |-> escstr_buf(dest_len, Cut(read.str)), type |-> "ok"]

AR_escstr_to_str_buf_n(dest_len, src, n) == ToBuffer(dest_len, AR_escstr_to_str_n(src, n))
AR_escstr_to_str_buf(dest_len, src) == AR_escstr_to_str_buf_n(dest_len, src, Len(src))

AR_str_to_escstr_buf_n(dest_len, src, n) == escstr_buf(dest_len, AR_str_to_escstr_n(src, n))
AR_str_to_escstr_buf(dest_len, src) == AR_str_to_escstr_buf_n(dest_len, src, Len(src))

-----------------------------------------------------------------------------
(* Code pages. What the system converts is external: here a byte is a        *)
(* character or none of the page, and what is not all of it is not converted. *)

MultiByteToWideChar(page, str) ==
    IF \A i \in DOMAIN str : str[i] \in DOMAIN page THEN [i \in DOMAIN str |-> page[str[i]]] ELSE <<>>

WideCharToMultiByte(page, str) ==
    IF \A i \in DOMAIN str : \E b \in DOMAIN page : page[b] = str[i]
    THEN [i \in DOMAIN str |-> CHOOSE b \in DOMAIN page : page[b] = str[i]] ELSE <<>>

\* A text of its own. There is none where the system converts nothing.
TextOf(str, converted) == [ok |-> str = <<>> \/ converted # <<>>, str |-> converted]
AR_str_convto_wcs(cp, str) ==
    TextOf(str, MultiByteToWideChar(CodePages[cp], str))
AR_wcs_convto_str(cp, str) ==
    TextOf(str, WideCharToMultiByte(CodePages[cp], str))

\* The length of what is written into out_len places, or of what there is.
Converted(out_len, str) ==
    IF str # <<>> /\ out_len # NoRoom /\ out_len # 0 /\ out_len < Len(str) THEN 0 ELSE Len(str)
AR_str_to_wcs(cp, str, out_len) == Converted(out_len, MultiByteToWideChar(CodePages[cp], str))
AR_wcs_to_str(cp, str, out_len) == Converted(out_len, WideCharToMultiByte(CodePages[cp], str))

-----------------------------------------------------------------------------
(* Texts in bytes, behind the mark of their encoding.                        *)

Mark ==
    [utf8 |-> <<239, 187, 191>>, utf16be |-> <<254, 255>>, utf16le |-> <<255, 254>>,
     utf32be |-> <<0, 0, 254, 255>>, utf32le |-> <<255, 254, 0, 0>>]
Encodings == DOMAIN Mark
BomOf(enc) == IF enc = "ascii" THEN <<>> ELSE Mark[enc]

\* With the shorter of two marks before the longer, and as it is.
dectect_shorter_first(input) ==
    LET found == {enc \in Encodings : IsPrefix(Mark[enc], input)}
    IN  CASE found = {} -> "ascii"
          [] OTHER -> CHOOSE enc \in found : \A e \in found : Len(Mark[enc]) <= Len(Mark[e])
dectect_encoding(input) ==
    LET found == {enc \in Encodings : IsPrefix(Mark[enc], input)}
    IN  CASE found = {} -> "ascii"
          [] OTHER -> CHOOSE enc \in found : \A e \in found : Len(Mark[enc]) >= Len(Mark[e])

\* How many bytes follow the first of a character.
Following(b) == Cardinality({least \in {192, 224, 240, 248, 252} : b >= least})
LeadBits(n) == IF n = 0 THEN 256 ELSE 2 ^ (6 - n)

\* The bytes of a number, the most significant first, as a wchar_t.
ToWchar(e) == IF WcharSize = 2 THEN e % 65536 ELSE e
Number(bytes) == FoldLeft(LAMBDA e, b : ToWchar((e * 256) + b), 0, bytes)

Got(status, e, rest) == [status |-> status, chr |-> ToWchar(e), rest |-> rest]

\* A byte that follows counts with its six bits, whatever its first two.
read_utf8(input) ==
    LET n == Following(input[1])
        e == FoldLeft(LAMBDA v, b : (v * 64) + (b % 64), input[1] % LeadBits(n), Part(input, 1, n))
    IN  IF Len(input) < n + 1 THEN Got("invalid", 0, <<>>) ELSE Got("ok", e, Behind(input, n + 1))

read_wide(input, n, big) ==
    IF Len(input) < n THEN Got("eof", 0, <<>>)
    ELSE Got("ok", Number(IF big THEN Part(input, 0, n) ELSE Reverse(Part(input, 0, n))), Behind(input, n))

read_wchar(input, enc) ==
    CASE enc = "utf8" -> IF input = <<>> THEN Got("eof", 0, <<>>) ELSE read_utf8(input)
      [] enc \in {"utf16be", "utf16le"} -> read_wide(input, 2, enc = "utf16be")
      [] enc \in {"utf32be", "utf32le"} -> read_wide(input, 4, enc = "utf32be")

\* To the end, or to what is no character: the text until then.
read_wchars(input, enc) ==
    LET Next(s, read) ==
            [rest |-> read.rest, status |-> read.status,
             out |-> IF read.status = "ok" THEN AR_AppendCharToString(s.out, read.chr) ELSE s.out]
        Step(s, k) == IF s.status = "ok" THEN Next(s, read_wchar(s.rest, enc)) ELSE s
    IN  Loop(Step, [rest |-> input, status |-> "ok", out |-> AR_CreateString], Len(input) + 1).out.str

\* Without a mark, by the first code page that has all of its bytes.
PagesOf(input) == {cp \in DOMAIN CodePages : AR_str_convto_wcs(cp, input).ok}
read_ascii(input) ==
    IF PagesOf(input) = {} THEN [ret |-> "badencconv", bom |-> Unset, str |-> <<>>]
    ELSE [ret |-> "yes", bom |-> "ascii",
          str |-> AR_AppendString(AR_CreateString, Cut(AR_str_convto_wcs(Min(PagesOf(input)), input).str)).str]

LoadAs(enc, input) ==
    IF input = <<>> THEN [ret |-> "yes", bom |-> "ascii", str |-> <<>>]
    ELSE IF enc = "ascii" THEN read_ascii(input)
    ELSE [ret |-> "yes", bom |-> enc, str |-> read_wchars(Behind(input, Len(Mark[enc])), enc)]
AR_LoadBomTextFromBinary(input) == LoadAs(dectect_encoding(input), input)

\* With a zero behind the bytes of the file.
AR_LoadBomTextFile(file) ==
    IF file = NoFile THEN [ret |-> "file", bom |-> Unset, str |-> <<>>]
    ELSE AR_LoadBomTextFromBinary(Append(file, 0))

LeadMark(n) == IF n = 0 THEN 0 ELSE 256 - 2 ^ (7 - n)

write_utf8(uc) ==
    LET n == Cardinality({least \in {128, 2048, 65536, 2097152, 67108864} : uc >= least})
        Bits(k) == uc \div 64 ^ k
    IN  <<LeadMark(n) + (Bits(n) % LeadBits(n))>> \o [i \in 1 .. n |-> 128 + (Bits(n - i) % 64)]

\* The n bytes of a number, the least first.
LeastFirst(uc, n) == [i \in 1 .. n |-> (uc \div 256 ^ (i - 1)) % 256]

write_wchar(enc, c) ==
    CASE enc = "utf8" -> write_utf8(c)
      [] enc = "utf16le" -> LeastFirst(c % 65536, 2)
      [] enc = "utf16be" -> Reverse(LeastFirst(c % 65536, 2))
      [] enc = "utf32le" -> LeastFirst(c, 4)
      [] enc = "utf32be" -> Reverse(LeastFirst(c, 4))

AR_SaveBomTextToBinary(enc, input) ==
    IF enc = "ascii"
    THEN [ret |-> IF AR_wcs_convto_str(1, input).ok THEN "yes" ELSE "badencconv",
          output |-> AR_wcs_convto_str(1, input).str]
    ELSE [ret |-> "yes",
          output |-> BomOf(enc) \o FlattenSeq([i \in DOMAIN input |-> write_wchar(enc, input[i])])]

\* The file is emptied when it opens, and holds what there is room for.
SaveBytes(file, saved, opens, room) ==
    IF saved.ret # "yes" THEN [ret |-> saved.ret, file |-> file]
    ELSE IF ~opens THEN [ret |-> "file", file |-> file]
    ELSE IF room < Len(saved.output) THEN [ret |-> "file", file |-> Part(saved.output, 0, room)]
    ELSE [ret |-> "yes", file |-> saved.output]

AR_SaveBomTextFile(file, enc, input, opens, room) ==
    SaveBytes(file, AR_SaveBomTextToBinary(enc, input), opens, room)
=============================================================================
