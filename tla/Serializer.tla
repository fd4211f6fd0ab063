----------------------------- MODULE Serializer ------------------------------
(* Objects and their encoding, Library/Arsenal/Arsenal/Tools/serializer.c:   *)
(* i-12e is a number, 3:abc a string, l...e a list and d...e a dictionary.   *)
(* A byte is a character, a name of the protocol is one byte.  Floats, which *)
(* no message has, are left out.                                             *)
EXTENDS Integers, SequencesExt, FiniteSetsExt

CONSTANTS
    SizeT,      \* sizeof(size_t): 4 or 8
    SizeLimit   \* bound: one more than the largest size_t

ASSUME SizeAssumption == SizeT \in {4, 8} /\ SizeLimit \in Nat \ {0, 1}

SnInt(v) == [t |-> "int", v |-> v]
SnStr(data) == [t |-> "string", v |-> data]
SnList(lst) == [t |-> "list", v |-> lst]
SnDict(pairs) == [t |-> "dict", v |-> pairs]

Pair(key, val) == [key |-> key, val |-> val]

\* A dictionary in memory: its pairs and for how many there is room.
Dict(cap, pairs) == [cap |-> cap, pairs |-> pairs]

NoDict == Dict(0, <<>>)

\* What malloc left there.  To look at it is undefined; here no key finds it,
\* for none is empty.
Lost == Pair(<<>>, SnStr(<<>>))

\* A dictionary that grows takes sizeof(dict->count) of its pairs along, not
\* dict->count.
MovedPairs(pairs) == [i \in DOMAIN pairs |-> IF i <= SizeT THEN pairs[i] ELSE Lost]

Grown(dict) == Dict((dict.cap + 4) * 2, MovedPairs(dict.pairs))

\* A value takes the place of an older one with its key.
InsertToDict(dict, p) ==
    IF \E i \in DOMAIN dict.pairs : dict.pairs[i].key = p.key
    THEN Dict(dict.cap, [i \in DOMAIN dict.pairs |->
                            IF dict.pairs[i].key = p.key THEN p ELSE dict.pairs[i]])
    ELSE LET roomy == IF Len(dict.pairs) = dict.cap THEN Grown(dict) ELSE dict
         IN  Dict(roomy.cap, Append(roomy.pairs, p))

\* As many pairs as a dictionary holds before one is lost.
HeldPairs == IF SizeT = 4 THEN 8 ELSE 24

HasKey(pairs, key) == \E i \in DOMAIN pairs : pairs[i].key = key

FindFromDict(pairs, key) ==
    pairs[CHOOSE i \in DOMAIN pairs : pairs[i].key = key].val

-----------------------------------------------------------------------------
(* Encoding.                                                                 *)

Digits == <<"0", "1", "2", "3", "4", "5", "6", "7", "8", "9">>

Decimal(n) ==
    LET decimal[k \in 0 .. n] ==
            (IF k < 10 THEN <<>> ELSE decimal[k \div 10]) \o <<Digits[(k % 10) + 1]>>
    IN  decimal[n]

PutInt(v) ==
    << <<"i">> \o (IF v < 0 THEN <<"-">> \o Decimal(-v) ELSE Decimal(v)) \o <<"e">> >>

PutString(data) == << Decimal(Len(data)) \o <<":">>, data >>

\* Each element of these is what one call inserts into the buffer; what the
\* elements of a list and the values of a dictionary put is given with them.
PutList(vals) == << <<"l">> >> \o FlattenSeq(vals) \o << <<"e">> >>

PutDict(pairs, vals) ==
    << <<"d">> >>
    \o FlattenSeq([i \in DOMAIN pairs |-> PutString(pairs[i].key) \o vals[i]])
    \o << <<"e">> >>

\* An object with nothing in it.
PutLeaf(obj) == IF obj.t = "int" THEN PutInt(obj.v) ELSE PutString(obj.v)

-----------------------------------------------------------------------------
(* Decoding, from offset n of the data on: what was found, and the offset up *)
(* to which the buffer was erased for it.                                    *)

Found(obj, erased) == [ok |-> TRUE, obj |-> obj, erased |-> erased]
Bad(erased) == [ok |-> FALSE, obj |-> SnInt(0), erased |-> erased]

IsDigit(b) == b \in ToSet(Digits)

DigitOf(b) == (CHOOSE n \in 1 .. 10 : Digits[n] = b) - 1

\* The offset behind the digits.
DigitsEnd(data, n) ==
    IF \E k \in n + 1 .. Len(data) : ~IsDigit(data[k])
    THEN (CHOOSE k \in n + 1 .. Len(data) :
            ~IsDigit(data[k]) /\ \A j \in n + 1 .. k - 1 : IsDigit(data[j])) - 1
    ELSE Len(data)

NumberOf(digits) ==
    LET number[k \in 0 .. Len(digits)] ==
            IF k = 0 THEN 0 ELSE number[k - 1] * 10 + DigitOf(digits[k])
    IN  number[Len(digits)]

GetInt(data, n) ==
    LET neg == n < Len(data) /\ data[n + 1] = "-"
        first == IF neg THEN n + 1 ELSE n
        end == DigitsEnd(data, first)
        num == NumberOf(SubSeq(data, first + 1, end))
    IN  IF end = Len(data) \/ data[end + 1] # "e" THEN Bad(n)
        ELSE Found(SnInt(IF neg THEN -num ELSE num), end + 1)

\* Mutant: the string may end where the buffer does not reach.
GetStrUnchecked(data, n) ==
    LET end == DigitsEnd(data, n)
        len == NumberOf(SubSeq(data, n + 1, end)) % SizeLimit
    IN  IF end = Len(data) \/ data[end + 1] # ":" \/ len = 0 THEN Bad(n)
        ELSE Found(SnStr(SubSeq(data, end + 2, Min({Len(data), end + 1 + len}))),
                   Min({Len(data), end + 1 + len}))

\* No string is empty.  The length is a size_t, and so is idx + 1 + l: a
\* length with which that wraps passes for one that is there, but no memory
\* has room for so long a string, and none is found either.
GetStr(data, n) ==
    LET end == DigitsEnd(data, n)
        len == NumberOf(SubSeq(data, n + 1, end)) % SizeLimit
    IN  IF \/ end = Len(data)
           \/ data[end + 1] # ":"
           \/ len = 0
           \/ Len(data) < end + 1 + len
        THEN Bad(n)
        ELSE Found(SnStr(SubSeq(data, end + 2, end + 1 + len)), end + 1 + len)

\* The pairs put into a dictionary one by one.
Inserted(pairs) ==
    LET dict[k \in 0 .. Len(pairs)] ==
            IF k = 0 THEN NoDict ELSE InsertToDict(dict[k - 1], pairs[k])
    IN  dict[Len(pairs)].pairs

\* What is read further on is in "read", at the kind and the offset of it.
GetObject(read, data, n) ==
    CASE n = Len(data) -> Bad(n)
      [] n < Len(data) /\ data[n + 1] = "i" -> GetInt(data, n + 1)
      [] n < Len(data) /\ data[n + 1] = "l" -> read[<<"list", n + 1>>]
      [] n < Len(data) /\ data[n + 1] = "d" ->
            LET r == read[<<"dict", n + 1>>]
            IN  IF r.ok THEN Found(SnDict(Inserted(r.obj.v)), r.erased) ELSE r
      [] n < Len(data) /\ IsDigit(data[n + 1]) -> GetStr(data, n)
      [] OTHER -> Bad(n)

\* The elements from there to the end of the list.
GetList(read, data, n) ==
    IF n = Len(data) THEN Bad(n)
    ELSE IF data[n + 1] = "e" THEN Found(SnList(<<>>), n + 1)
    ELSE LET elt == read[<<"object", n>>]
             rest == read[<<"list", elt.erased>>]
         IN  IF ~elt.ok THEN elt
             ELSE IF ~rest.ok THEN rest
             ELSE Found(SnList(<<elt.obj>> \o rest.obj.v), rest.erased)

\* The same of the pairs of a dictionary.
GetDict(read, data, n) ==
    IF n = Len(data) THEN Bad(n)
    ELSE IF data[n + 1] = "e" THEN Found(SnDict(<<>>), n + 1)
    ELSE LET key == GetStr(data, n)
             val == read[<<"object", key.erased>>]
             rest == read[<<"dict", val.erased>>]
         IN  IF ~key.ok THEN key
             ELSE IF ~val.ok THEN val
             ELSE IF ~rest.ok THEN rest
             ELSE Found(SnDict(<<Pair(key.obj.v, val.obj)>> \o rest.obj.v), rest.erased)

ReadAt(read, data, kind, n) ==
    CASE kind = "object" -> GetObject(read, data, n)
      [] kind = "list" -> GetList(read, data, n)
      [] kind = "dict" -> GetDict(read, data, n)

Places(data) == {"object", "list", "dict"} \X (0 .. Len(data))

Reading(data) ==
    LET read[x \in Places(data)] == ReadAt(read, data, x[1], x[2]) IN read

SN_GetObject(data) == Reading(data)[<<"object", 0>>]
=============================================================================
