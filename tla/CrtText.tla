------------------------------- MODULE CrtText --------------------------------
(* The texts of Arsenal (crtstr.c): trimming, searches, comparisons, numbers *)
(* read and printed. A text is a sequence of character codes with a NUL      *)
(* behind it, a place in it a number from 0; both widths of character and of *)
(* number are one definition.                                                *)
EXTENDS Rationals, FiniteSetsExt, SequencesExt

CONSTANTS
    UintMax,    \* AR_UINT64_MAX, AR_UINT32_MAX
    Space,      \* the characters iswspace accepts
    Zeros,      \* the digits zero of the scripts wchartodigit knows
    Unset,      \* a number that was not written
    NoString    \* a string that is NULL

ASSUME TextAssumption == UintMax \in Nat /\ UintMax % 2 = 1

IntMax == UintMax \div 2
Null == 0 - 1

Chr(text, p) == IF p < Len(text) THEN text[p + 1] ELSE 0
Part(text, p, n) == SubSeq(text, p + 1, p + n)

\* The first place from p on, before end, that is none of chars, or end.
Past(text, p, end, chars) ==
    IF p >= end THEN p ELSE Min({q \in p .. end - 1 : Chr(text, q) \notin chars} \cup {end})

-----------------------------------------------------------------------------
(* Trimming, joining, changing case.                                         *)

wcstrim(text, chars) == SubSeq(text, Past(text, 0, Len(text), chars) + 1, Len(text))

\* The last run of chars is cut off where it started, if it goes to the end.
wcstrim_right(text, chars) ==
    LET Step(plast, p) ==
            IF Chr(text, p) \notin chars THEN Null ELSE IF plast = Null THEN p ELSE plast
        plast == Loop(Step, Null, Len(text))
    IN  IF plast = Null THEN text ELSE Part(text, 0, plast)

wcsncat(dest, sour, n) == dest \o Part(sour, 0, Min({n, Len(sour)}))

wcsndup(sour, len) == Part(sour, 0, len)

Lower(c) == IF c \in 65 .. 90 THEN c + 32 ELSE c
Upper(c) == IF c \in 97 .. 122 THEN c - 32 ELSE c
wcsnlwr(s, count) == [i \in DOMAIN s |-> IF i <= count THEN Lower(s[i]) ELSE s[i]]
wcsnupr(s, count) == [i \in DOMAIN s |-> IF i <= count THEN Upper(s[i]) ELSE s[i]]

-----------------------------------------------------------------------------
(* Comparing and searching, case aside.                                      *)

\* The difference at the first place where there is one, a text ends, or n
\* characters are compared.
wcsnicmp(l, r, n) ==
    LET Diff(i) == Lower(Chr(l, i)) - Lower(Chr(r, i))
        stop == Min({i \in 0 .. n - 1 : Diff(i) # 0 \/ Chr(l, i) = 0} \cup {n})
    IN  IF stop < n THEN Diff(stop) ELSE 0

wcsicmp(l, r) == wcsnicmp(l, r, Len(l) + 1)

\* Nothing is found in an empty text, not even nothing.
wcsistr(s, p) ==
    LET Found(at) == \A i \in 0 .. Len(p) - 1 : Lower(Chr(s, at + i)) = Lower(Chr(p, i))
        places == {at \in 0 .. Len(s) - 1 : Found(at)}
    IN  IF places = {} THEN Null ELSE Min(places)

\* Backwards; the first character is the answer when no other is.
reverse_wcsichr(str, l, c) ==
    IF l = 0 THEN 0
    ELSE Max({i \in 1 .. l - 1 : Lower(Chr(str, i)) = Lower(c)} \cup {0})

\* The sum of the characters under a window moved back by one: taking away the
\* window's last character but one, and as it is.
SlideBackShort(hash, str, delta, ml) ==
    hash - Lower(Chr(str, delta + ml - 1)) + Lower(Chr(str, delta))
SlideBack(hash, str, delta, ml) ==
    hash - Lower(Chr(str, delta + ml)) + Lower(Chr(str, delta))

SumOf(str, p, n) == Loop(LAMBDA s, i : s + Lower(Chr(str, p + i)), 0, n)

\* The window is compared where the sums agree.
reverse_wcsistr(str, l, match) ==
    LET ml == Len(match)
        Step(s, k) ==
            IF s.found \/ s.delta = Null THEN s
            ELSE IF s.hash = SumOf(match, 0, ml) /\ wcsnicmp(Part(str, s.delta, ml), match, ml) = 0
            THEN [s EXCEPT !.found = TRUE]
            ELSE IF s.delta = 0 THEN [s EXCEPT !.delta = Null]
            ELSE [s EXCEPT !.delta = @ - 1, !.hash = SlideBack(s.hash, str, s.delta - 1, ml)]
        delta == l - ml
    IN  CASE ml > l -> Null
          [] ml = 0 -> l
          [] ml = 1 /\ l > 0 -> reverse_wcsichr(str, l, match[1])
          [] ml > 1 /\ ml <= l ->
                Loop(Step, [delta |-> delta, hash |-> SumOf(str, delta, ml), found |-> FALSE],
                     delta + 1).delta

-----------------------------------------------------------------------------
(* Whole numbers read.                                                       *)

wchartodigit(c) ==
    LET zeros == {z \in Zeros : c \in z .. z + 9}
    IN  IF zeros = {} THEN Null ELSE c - Max(zeros)

Digit(c) ==
    IF wchartodigit(c) # Null THEN wchartodigit(c)
    ELSE IF c \in 65 .. 90 THEN c - 55
    ELSE IF c \in 97 .. 122 THEN c - 87
    ELSE UintMax

Minus == 45
Plus == 43
IsX(c) == c \in {88, 120}
AfterSign(text, p) == IF Chr(text, p) \in {Minus, Plus} THEN p + 1 ELSE p

BaseOf(text, p, base) ==
    IF base # 0 THEN base
    ELSE IF wchartodigit(Chr(text, p)) # 0 THEN 10
    ELSE IF IsX(Chr(text, p + 1)) THEN 16 ELSE 8

\* Whether there is room for a digit behind val: whatever the digit, and as it is.
HasRoomForAny(val, digit, base) == val <= UintMax \div base
HasRoom(val, digit, base) ==
    \/ val < UintMax \div base
    \/ val = UintMax \div base /\ digit <= UintMax % base

\* The value of the digits in p .. q - 1, and whether they overflow.
ReadDigits(text, p, q, base) ==
    Loop(LAMBDA s, k :
        LET digit == Digit(Chr(text, p + k))
        IN  IF HasRoom(s.val, digit, base) THEN [s EXCEPT !.val = s.val * base + digit]
            ELSE [s EXCEPT !.overflow = TRUE],
        [val |-> 0, overflow |-> FALSE], q - p)

Negated(val) == IF val = 0 THEN 0 ELSE UintMax + 1 - val

\* As a two's complement number.
Signed(val) == IF val > IntMax THEN val - (UintMax + 1) ELSE val

NotRead == [stop |-> Null, num |-> Unset]

\* What is behind the sign and the prefix.
ReadFrom(text, start, end, base, unsigned, neg) ==
    LET stop == Min({q \in start .. end - 1 : Digit(Chr(text, q)) >= base} \cup {end})
        read == ReadDigits(text, start, stop, base)
        beyond == ~unsigned /\ read.val > IF neg THEN IntMax + 1 ELSE IntMax
        limit == IF unsigned THEN UintMax ELSE IF neg THEN IntMax + 1 ELSE IntMax
        failed == stop = start \/ read.overflow \/ beyond
        val == IF stop = start THEN 0 ELSE IF failed THEN limit ELSE read.val
        num == IF neg THEN Negated(val) ELSE val
    IN  [stop |-> IF failed THEN Null ELSE stop, num |-> IF unsigned THEN num ELSE Signed(num)]

\* AR_wtoi64_s, AR_wtou64_s and those of 32 bits: the place behind the number,
\* or none, and the number.
ReadUnsigned(text, p, end, radix, unsigned, neg) ==
    LET prefixed == radix = 16 /\ wchartodigit(Chr(text, p)) = 0 /\ IsX(Chr(text, p + 1))
        start == IF prefixed THEN p + 2 ELSE p
    IN  IF start >= end THEN NotRead ELSE ReadFrom(text, start, end, radix, unsigned, neg)

ReadSigned(text, first, end, base, unsigned) ==
    LET neg == Chr(text, first) = Minus
        p == AfterSign(text, first)
    IN  IF first >= end \/ (neg /\ unsigned) \/ p >= end THEN NotRead
        ELSE ReadUnsigned(text, p, end, BaseOf(text, p, base), unsigned, neg)

ReadNumber(text, end, base, unsigned) ==
    ReadSigned(text, Past(text, 0, end, Space), end, base, unsigned)

\* The digits of a number, most significant first.
DigitsOf(num, radix) ==
    LET digits[n \in Nat] ==
            IF n < radix THEN <<n>> ELSE Append(digits[n \div radix], n % radix)
    IN  digits[num]

u64tow(num, radix) ==
    LET digits == DigitsOf(num, radix)
    IN  [i \in DOMAIN digits |-> IF digits[i] < 10 THEN 48 + digits[i] ELSE 55 + digits[i]]

\* The most negative number has no negative and is not asked for.
i64tow(num, radix) == IF num < 0 THEN <<Minus>> \o u64tow(0 - num, radix) ELSE u64tow(num, radix)

\* Printed into room for nbuf characters, its NUL among them.
Printed(text, nbuf) == IF nbuf < Len(text) + 1 THEN Null ELSE Len(text) + 1

-----------------------------------------------------------------------------
(* Numbers with a fraction and an exponent.                                  *)

Ascii == 48 .. 57
Point == 46
IsE(c) == c \in {69, 101}

ValueOf(text, p, q) == Loop(LAMBDA v, k : v * 10 + (Chr(text, p + k) - 48), 0, q - p)
Power(n) == Loop(LAMBDA v, k : v * 10, 1, n)

\* The places behind the digits, the fraction and the exponent of what starts
\* at place p, behind the sign.
LayoutFrom(text, p, end) ==
    LET whole == Past(text, p, end, Ascii)
        pointed == whole < end /\ Chr(text, whole) = Point
        frac == IF pointed THEN Past(text, whole + 1, end, Ascii) ELSE whole
        has_exp == frac < end /\ IsE(Chr(text, frac))
        e == IF has_exp THEN AfterSign(text, frac + 1) ELSE frac
    IN  [p |-> p, whole |-> whole, pointed |-> pointed, frac |-> frac, has_exp |-> has_exp,
         e |-> e, stop |-> IF has_exp THEN Past(text, e, end, Ascii) ELSE frac]

Layout(text, end) == LayoutFrom(text, AfterSign(text, Past(text, 0, end, Space)), end)

Mantissa(text, lay) ==
    LET decimals == IF lay.pointed THEN lay.frac - lay.whole - 1 ELSE 0
    IN  Q(ValueOf(text, lay.p, lay.whole))
        ++ Ratio(ValueOf(text, lay.whole + 1, lay.whole + 1 + decimals), Power(decimals))

Scale(text, lay) ==
    LET scale == Power(ValueOf(text, lay.e, lay.stop))
    IN  IF Chr(text, lay.frac + 1) = Minus THEN Ratio(1, scale) ELSE Q(scale)

\* A number without digits, or without any behind its "e", is none.
NumberOf(text, lay) ==
    LET value == Mantissa(text, lay) ** IF lay.has_exp THEN Scale(text, lay) ELSE One
        is_ok == IF lay.has_exp THEN lay.stop > lay.e ELSE lay.whole > lay.p \/ lay.frac > lay.whole + 1
    IN  [stop |-> IF is_ok THEN lay.stop ELSE Null,
         num |-> IF lay.p > 0 /\ Chr(text, lay.p - 1) = Minus THEN Neg(value) ELSE value]

wtod(text, end) == NumberOf(text, Layout(text, end))

\* A point makes a number one with a fraction, whatever is around it.
IsFloat(lay) == IF lay.has_exp THEN lay.stop > lay.e ELSE lay.pointed
wcs_is_float(text, end) == IsFloat(Layout(text, end))

wcs_is_int(text, end) ==
    /\ ~wcs_is_float(text, end)
    /\ \E unsigned \in BOOLEAN : ReadNumber(text, end, 0, unsigned).stop # Null

-----------------------------------------------------------------------------
(* Formatted printing: how much room AR_vscwprintf finds that a format       *)
(* needs, and what the C library then prints into it. A format is a sequence *)
(* of directives and characters; an argument is what its length depends on:  *)
(* that of a string or NoString, the digits of a number.                     *)

Character == "character"
Percent == "%%"
Whole == {"d", "i", "u", "x", "X", "o"}
Exponent == {"e", "E", "g", "G"}
OneChar == {"c", "C"}
Text == {"s", "S"}
Conversions == Whole \cup Exponent \cup OneChar \cup Text \cup {"f", "p", "n"}

Invalid == 0 - 1

-----------------------------------------------------------------------------
(* What the C library prints: external, as the C standard has it.            *)

LengthOf(arg) == IF arg = NoString THEN 6 ELSE arg

SignLength(d) ==
    IF d.neg \/ (d.flags \cap {"+", " "} # {} /\ d.conv \notin {"u", "x", "X", "o"}) THEN 1 ELSE 0

Precision(d) == IF ~d.dot \/ d.prec < 0 THEN 6 ELSE d.prec
Fraction(n) == IF n > 0 THEN n + 1 ELSE 0

\* A conversion without its padding.
Content(d) ==
    CASE d.conv \in {Character, Percent} \cup OneChar -> 1
      [] d.conv \in Text ->
            IF d.dot /\ d.prec >= 0 THEN Min({LengthOf(d.arg), d.prec}) ELSE LengthOf(d.arg)
      [] d.conv \in Whole ->
            SignLength(d) + Max({d.arg, IF d.dot THEN d.prec ELSE 0})
            + (IF "#" \in d.flags THEN 2 ELSE 0)
      [] d.conv \in Exponent -> SignLength(d) + 1 + Fraction(Precision(d)) + 5
      [] d.conv = "f" -> SignLength(d) + d.arg + Fraction(Precision(d))
      [] d.conv = "p" -> 18
      [] d.conv = "n" -> 0

Magnitude(w) == IF w < 0 THEN 0 - w ELSE w

PrintedLength(d) == Max({Content(d), IF d.conv \in {Character, Percent, "n"} THEN 0 ELSE Magnitude(d.width)})

-----------------------------------------------------------------------------
(* The estimate.                                                             *)

\* Without the width; and as it is: a conversion takes its width where that is
\* the longer, and is then cut to the precision.
WithoutWidth(len, d) == IF d.prec # 0 THEN Min({len, d.prec}) ELSE len
WithWidth(len, d) ==
    LET wide == Max({len, d.width})
    IN  IF d.prec # 0 THEN Min({wide, d.prec}) ELSE wide

Is64(d) == d.mod \in {"I", "q"}

\* %f is printed, with six digits more than asked for.
EstimateFloat(d) ==
    PrintedLength([d EXCEPT !.dot = TRUE, !.prec = d.prec + 6, !.flags = {}])

Estimate(d) ==
    (IF "#" \in d.flags THEN 2 ELSE 0) +
    CASE d.conv \in {Character, Percent} -> 1
      [] d.conv \in OneChar /\ ~Is64(d) -> WithWidth(2, d)
      [] d.conv \in Text /\ ~Is64(d) -> WithWidth(Max({LengthOf(d.arg), 1}), d)
      [] d.conv \in Whole \cup {"p"} -> Max({32, d.width + d.prec})
      [] d.conv \in Exponent -> Max({128, d.width + d.prec})
      [] d.conv = "f" -> EstimateFloat(d)
      [] d.conv = "n" -> 0

Sum(fmt, length(_)) == FoldLeft(LAMBDA n, d : n + length(d), 0, fmt)

\* No estimate for a conversion it does not know, nor for a text of 64 bits.
AR_vscwprintf(fmt) ==
    IF \E i \in DOMAIN fmt :
          \/ fmt[i].conv \notin Conversions \cup {Character, Percent}
          \/ fmt[i].conv \in OneChar \cup Text /\ Is64(fmt[i])
    THEN Invalid ELSE Sum(fmt, Estimate)

-----------------------------------------------------------------------------
(* Printing.                                                                 *)

\* The format in the C library's words: I and q are its ll. None for a
\* conversion it does not know.
Preprocessed(fmt) == [i \in DOMAIN fmt |-> [fmt[i] EXCEPT !.mod = IF Is64(fmt[i]) THEN "ll" ELSE @]]

Known(fmt) == \A i \in DOMAIN fmt : fmt[i].conv \in Conversions \cup {Character, Percent}

\* The length of what is in dest: nothing when the format is not known, or when
\* the text does not fit count characters with its NUL.
AR_vswprintf(fmt, count) ==
    LET need == Sum(Preprocessed(fmt), PrintedLength)
    IN  IF ~Known(fmt) \/ need >= count THEN 0 ELSE need

\* A text of its own, or none.
AR_vtow(fmt) ==
    LET len == AR_vscwprintf(fmt)
    IN  IF len = Invalid THEN Invalid ELSE AR_vswprintf(fmt, len + 1)
=============================================================================
