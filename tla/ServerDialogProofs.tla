------------------------- MODULE ServerDialogProofs -------------------------
(* Proofs about ServerDialog and IniObject: what the window tells of the    *)
(* server, and what of its settings comes back from the file they are       *)
(* saved in.                                                                *)
EXTENDS ServerDialog, WellFoundedInduction, SequenceTheorems, TLAPS

-----------------------------------------------------------------------------
(* What Ini_ParseLine makes of a line the dialog writes.                    *)

\* The loader's buffer holds a line of one character.
LEMMA LineLength == MaxLine \in Nat /\ MaxLine > 4
  BY TextAssumption

\* The least element of a set of numbers, CHOOSE or not.
LEMMA MinIs ==
    ASSUME NEW S \in SUBSET Nat, NEW n \in S, \A m \in S : n <= m
    PROVE  Min(S) = n
<1>1. \A x \in S : (\A y \in S : x <= y) => x = n
  OBVIOUS
<1> QED
  BY <1>1 DEF Min

\* The same of the greatest.
LEMMA MaxIs ==
    ASSUME NEW S \in SUBSET Nat, NEW n \in S, \A m \in S : m <= n
    PROVE  Max(S) = n
<1>1. \A x \in S : (\A y \in S : x >= y) => x = n
  OBVIOUS
<1> QED
  BY <1>1 DEF Max

\* A part of one character.
LEMMA OnePart ==
    ASSUME NEW S, NEW s \in Seq(S), NEW m \in 1 .. Len(s)
    PROVE  SubSeq(s, m, m) = <<s[m]>>
<1> DEFINE t == SubSeq(s, m, m)
<1>1. m \in Int /\ \A i \in m .. m : s[i] \in S
  OBVIOUS
<1>2. t \in Seq(S) /\ Len(t) = 1 /\ t[1] = s[m]
  BY <1>1, SubSeqProperties
<1> DEFINE u == <<s[m]>>
<1>3. u \in Seq(S) /\ Len(u) = 1 /\ u[1] = s[m]
  OBVIOUS
<1> HIDE DEF t, u
<1>4. \A i \in 1 .. Len(t) : t[i] = u[i]
  BY <1>2, <1>3
<1>5. t = u
  BY <1>2, <1>3, <1>4, SeqEqual
<1> QED
  BY <1>5 DEF t, u

\* A part of two characters.
LEMMA TwoParts ==
    ASSUME NEW S, NEW s \in Seq(S), NEW m \in 1 .. Len(s) - 1
    PROVE  SubSeq(s, m, m + 1) = <<s[m], s[m + 1]>>
<1> DEFINE t == SubSeq(s, m, m + 1)
           u == <<s[m], s[m + 1]>>
<1>1. m \in Int /\ m + 1 \in Int /\ \A i \in m .. m + 1 : s[i] \in S
  OBVIOUS
<1>2. t \in Seq(S) /\ Len(t) = 2 /\ t[1] = s[m] /\ t[2] = s[m + 1]
  BY <1>1, SubSeqProperties
<1>3. u \in Seq(S) /\ Len(u) = 2 /\ u[1] = s[m] /\ u[2] = s[m + 1]
  BY <1>1
<1> HIDE DEF t, u
<1>4. \A i \in 1 .. Len(t) : t[i] = u[i]
  BY <1>2, <1>3
<1>5. t = u
  BY <1>2, <1>3, <1>4, SeqEqual
<1> QED
  BY <1>5 DEF t, u

\* The first of some positions.
LEMMA FirstIs ==
    ASSUME NEW S \in SUBSET Nat, NEW n \in S, \A m \in S : n <= m
    PROVE  FirstOf(S) = n
  BY MinIs DEF FirstOf

\* A value of one character that is no blank is trimmed and cut to itself.
LEMMA OneCharacter ==
    ASSUME NEW c, c # Blank
    PROVE  /\ SubSeq(<<c>>, 1, 1) = <<c>>
           /\ TrimSpace(<<c>>) = <<c>>
           /\ NonBlanks(<<c>>) # {}
           /\ ValueEnd(<<c>>) = 1
<1> DEFINE s == <<c>>
<1>1. s \in Seq({c}) /\ Len(s) = 1 /\ DOMAIN s = 1 .. 1 /\ s[1] = c
  OBVIOUS
<1>2. \A i \in 1 .. 1 : i = 1
  OBVIOUS
<1> HIDE DEF s
<1>3. NonBlanks(s) = {1}
  BY <1>1, <1>2 DEF NonBlanks
<1>4. Min({1}) = 1 /\ Max({1}) = 1
  BY MinIs, MaxIs
<1>5. SubSeq(s, 1, 1) = <<s[1]>>
  BY <1>1, OnePart
<1>6. {i \in DOMAIN s : s[i] # Blank /\ (i = 1 \/ s[i - 1] # Blank)} = {1}
  BY <1>1, <1>2
<1>7. TrimSpace(s) = SubSeq(s, 1, 1) /\ ValueEnd(s) = 1
  BY <1>3, <1>4, <1>6 DEF TrimSpace, ValueEnd
<1> QED
  BY <1>1, <1>3, <1>5, <1>7 DEF s

\* Such a value comes back from its line, and leaves no comment.
LEMMA OneSetting ==
    ASSUME NEW c, c \notin {Blank, Tag}
    PROVE  ValueOf(<<c, Blank>>) = <<c>> /\ CommentFrom(<<c, Blank>>, 1) = <<>>
<1> DEFINE s == <<c, Blank>>
<1>1. /\ s \in Seq({c, Blank}) /\ Len(s) = 2 /\ DOMAIN s = 1 .. 2
      /\ s[1] = c /\ s[2] = Blank
  OBVIOUS
<1>2. \A i \in 1 .. 2 : i = 1 \/ i = 2
  OBVIOUS
<1> HIDE DEF s
<1>3. Positions(s, Tag, 1) = {}
  BY <1>1, <1>2 DEF Positions, Tag, Blank
<1>4. CommentFrom(s, 1) = <<>>
  BY <1>3 DEF CommentFrom
<1>5. SubSeq(s, 1, Len(s) - Len(CommentFrom(s, 1))) = s
  BY <1>1, <1>4, SubSeqFull
<1>6. NonBlanks(s) = {1}
  BY <1>1, <1>2 DEF NonBlanks
<1>7. Min({1}) = 1 /\ Max({1}) = 1
  BY MinIs, MaxIs
<1>8. SubSeq(s, 1, 1) = <<c>>
  BY <1>1, OnePart
<1>9. TrimSpace(s) = <<c>>
  BY <1>6, <1>7, <1>8 DEF TrimSpace
<1>10. ValueOf(s) = <<c>>
  BY <1>5, <1>9, OneCharacter DEF ValueOf
<1> QED
  BY <1>4, <1>10 DEF s

\* The characters of a setting's line, one by one.
LEMMA SettingLineShape ==
    ASSUME NEW S, NEW v \in Seq(S), NEW k, k \notin {Blank, Tag, "["}
    PROVE  LET s == SettingLine(k, v)
           IN  /\ Len(s) = Len(v) + 3
               /\ DOMAIN s = 1 .. Len(s)
               /\ s[1] = k /\ s[2] = "="
               /\ SubSeq(s, 1, 1) = <<k>>
               /\ SubSeq(s, 3, Len(s)) = Append(v, Blank)
<1> DEFINE T == S \cup {k, "=", Blank}
           a == <<k, "=">>
           b == Append(v, Blank)
           s == SettingLine(k, v)
           n == Len(v)
<1>1. a \in Seq(T) /\ Len(a) = 2 /\ a[1] = k /\ a[2] = "="
  OBVIOUS
<1>2. b \in Seq(T) /\ Len(b) = n + 1 /\ n \in Nat
  <2>1. v \in Seq(T)
    BY SeqMonotonic
  <2> QED
    BY <2>1
<1>3. s = a \o b
  BY DEF SettingLine
<1> HIDE DEF T, a, b, s, n
<1>4. /\ s \in Seq(T) /\ Len(s) = 2 + (n + 1)
      /\ \A i \in 1 .. 2 + (n + 1) : s[i] = IF i <= 2 THEN a[i] ELSE b[i - 2]
  <2>1. /\ a \o b \in Seq(T) /\ Len(a \o b) = Len(a) + Len(b)
        /\ \A i \in 1 .. Len(a) + Len(b) : (a \o b)[i] = IF i <= Len(a) THEN a[i] ELSE b[i - Len(a)]
    BY <1>1, <1>2, ConcatProperties
  <2> QED
    BY <1>1, <1>2, <1>3, <2>1
<1>5. Len(s) = n + 3 /\ DOMAIN s = 1 .. Len(s)
  BY <1>2, <1>4
<1>6. s[1] = k /\ s[2] = "="
  BY <1>1, <1>2, <1>4
<1>7. SubSeq(s, 1, 1) = <<k>>
  <2>1. 1 \in 1 .. Len(s)
    BY <1>2, <1>5
  <2> QED
    BY <1>4, <1>6, <2>1, OnePart
<1>8. SubSeq(s, 3, Len(s)) = b
  <2> DEFINE m == Len(s)
             t == SubSeq(s, 3, m)
  <2>1. 3 \in Int /\ m \in Int /\ 3 <= m /\ m - 3 + 1 = n + 1 /\ \A i \in 3 .. m : s[i] \in T
    BY <1>2, <1>4, <1>5
  <2>2. t \in Seq(T) /\ Len(t) = n + 1 /\ \A i \in 1 .. n + 1 : t[i] = s[3 + i - 1]
    <3> HIDE DEF m
    <3> QED
      BY <2>1, SubSeqProperties
  <2> HIDE DEF t
  <2>3. ASSUME NEW i \in 1 .. n + 1 PROVE t[i] = b[i]
    <3>1. 3 + i - 1 \in 1 .. 2 + (n + 1) /\ ~(3 + i - 1 <= 2) /\ (3 + i - 1) - 2 = i
      BY <1>2
    <3> QED
      BY <1>4, <2>2, <3>1
  <2>4. t = b
    BY <1>2, <2>2, <2>3, SeqEqual
  <2> QED
    BY <2>4 DEF t
<1> QED
  BY <1>5, <1>6, <1>7, <1>8 DEF s, b, n

\* It is read as a pair when it fits the loader's buffer, and refused when not.
LEMMA SettingIsRead ==
    ASSUME NEW S, NEW v \in Seq(S), NEW k, k \notin {Blank, Tag, "["}
    PROVE  ParseLine(SettingLine(k, v)) =
             IF Fits(v) THEN Line("pair", <<k>>, ValueOf(Append(v, Blank)), CommentFrom(Append(v, Blank), 1))
             ELSE InvalidLine
<1> DEFINE s == SettingLine(k, v)
<1>1. /\ Len(s) = Len(v) + 3
      /\ DOMAIN s = 1 .. Len(s)
      /\ s[1] = k /\ s[2] = "="
      /\ SubSeq(s, 1, 1) = <<k>>
      /\ SubSeq(s, 3, Len(s)) = Append(v, Blank)
  BY SettingLineShape
<1>0. Len(v) \in Nat
  OBVIOUS
<1> HIDE DEF s
<1>2. 1 \in NonBlanks(s) /\ NonBlanks(s) \in SUBSET Nat /\ \A i \in NonBlanks(s) : 1 <= i
  BY <1>0, <1>1 DEF NonBlanks
<1>3. Min(NonBlanks(s)) = 1
  BY <1>2, MinIs
<1>4. 2 \in Positions(s, "=", 2) /\ Positions(s, "=", 2) \in SUBSET Nat
      /\ \A i \in Positions(s, "=", 2) : 2 <= i
  BY <1>0, <1>1 DEF Positions
<1>5. Min(Positions(s, "=", 2)) = 2
  BY <1>4, MinIs
<1>8. ParsePair(s, 1) = Line("pair", <<k>>, ValueOf(Append(v, Blank)), CommentFrom(Append(v, Blank), 1))
  <2>1. Positions(s, "=", 1 + 1) # {} /\ Min(Positions(s, "=", 1 + 1)) = 2
    BY <1>4, <1>5
  <2>2. 2 - 1 = 1 /\ 2 + 1 = 3
    OBVIOUS
  <2>3. TrimSpace(SubSeq(s, 1, 2 - 1)) = <<k>> /\ SubSeq(s, 2 + 1, Len(s)) = Append(v, Blank)
    BY <1>1, <2>2, OneCharacter
  <2> QED
    BY <2>1, <2>3 DEF ParsePair
<1>9. Fits(v) <=> ~(Len(s) >= MaxLine)
  BY <1>0, <1>1, LineLength DEF Fits
<1>10. ParseLine(s) = IF Fits(v) THEN ParsePair(s, 1) ELSE InvalidLine
  BY <1>1, <1>2, <1>3, <1>9 DEF ParseLine
<1> QED
  BY <1>8, <1>10 DEF s

\* A key without a value is a line the loader refuses.
LEMMA EmptyIsRefused ==
    ASSUME NEW k, k \notin {Blank, Tag, "["}
    PROVE  ParseLine(<<k, Blank>>) = InvalidLine
<1> DEFINE s == <<k, Blank>>
<1>1. /\ s \in Seq({k, Blank}) /\ Len(s) = 2 /\ DOMAIN s = 1 .. 2
      /\ s[1] = k /\ s[2] = Blank
  OBVIOUS
<1> HIDE DEF s
<1>2. 1 \in NonBlanks(s) /\ NonBlanks(s) \in SUBSET Nat /\ \A i \in NonBlanks(s) : 1 <= i
  BY <1>1 DEF NonBlanks
<1>3. Min(NonBlanks(s)) = 1
  BY <1>2, MinIs
<1>4. Positions(s, "=", 1 + 1) = {}
  <2>1. \A i \in 2 .. 2 : i = 2
    OBVIOUS
  <2>2. s[2] # "="
    BY <1>1 DEF Blank
  <2> QED
    BY <1>1, <2>1, <2>2 DEF Positions
<1>5. ParsePair(s, 1) = InvalidLine
  BY <1>4 DEF ParsePair
<1>6. ParseLine(s) = InvalidLine
  BY <1>1, <1>2, <1>3, <1>5 DEF ParseLine
<1> QED
  BY <1>6 DEF s

\* A section's header is read as one.
LEMMA HeaderIsRead ==
    ASSUME NEW c, c \notin {Blank, Tag, "[", "]"}
    PROVE  ParseLine(<<"[", c, "]">>) = Line("section", <<c>>, <<>>, <<>>)
<1> DEFINE s == <<"[", c, "]">>
<1>1. /\ s \in Seq({"[", c, "]"}) /\ Len(s) = 3 /\ DOMAIN s = 1 .. 3
      /\ s[1] = "[" /\ s[2] = c /\ s[3] = "]"
  OBVIOUS
<1> HIDE DEF s
<1>2. 1 \in NonBlanks(s) /\ NonBlanks(s) \in SUBSET Nat /\ \A i \in NonBlanks(s) : 1 <= i
  <2>1. "[" # Blank
    BY DEF Blank
  <2> QED
    BY <1>1, <2>1 DEF NonBlanks
<1>3. Min(NonBlanks(s)) = 1
  BY <1>2, MinIs
<1>4. Positions(s, "]", 1 + 1) = {3} /\ Min({3}) = 3
  <2>1. \A i \in 2 .. 3 : i = 2 \/ i = 3
    OBVIOUS
  <2>2. Positions(s, "]", 1 + 1) = {3}
    BY <1>1, <2>1 DEF Positions
  <2> QED
    BY <2>2, MinIs
<1>5. TrimSpace(SubSeq(s, 1 + 1, 3 - 1)) = <<c>>
  <2>1. 2 \in 1 .. Len(s)
    BY <1>1
  <2>2. SubSeq(s, 2, 2) = <<s[2]>>
    BY <1>1, <2>1, OnePart
  <2>3. 1 + 1 = 2 /\ 3 - 1 = 2
    OBVIOUS
  <2> QED
    BY <1>1, <2>2, <2>3, OneCharacter
<1>6. ~Contains(<<c>>, "[") /\ <<c>> # <<>>
  <2>1. Len(<<c>>) = 1 /\ <<c>>[1] = c /\ \A i \in 1 .. 1 : i = 1
    OBVIOUS
  <2> QED
    BY <2>1 DEF Contains
<1>7. CommentFrom(s, 3 + 1) = <<>>
  <2>1. Positions(s, Tag, 4) = {}
    BY <1>1 DEF Positions
  <2> QED
    BY <2>1 DEF CommentFrom
<1>8. ParseSection(s, 1) = Line("section", <<c>>, <<>>, <<>>)
  BY <1>4, <1>5, <1>6, <1>7 DEF ParseSection
<1>9. ~(Len(s) >= MaxLine)
  BY <1>1, LineLength
<1>10. ParseLine(s) = ParseSection(s, 1)
  BY <1>1, <1>2, <1>3, <1>9 DEF ParseLine, Tag
<1> QED
  BY <1>8, <1>10 DEF s

\* An empty line says nothing.
LEMMA NothingIsEmpty == ParseLine(<<>>) = Line("empty", <<>>, <<>>, <<>>)
  BY LineLength DEF ParseLine, NonBlanks

-----------------------------------------------------------------------------
(* Which passwords come back: the text of a value, cut at tags and blanks.  *)

\* Every set of numbers that is not empty has a least one.
LEMMA LeastOf ==
    ASSUME NEW T \in SUBSET Nat, T # {}
    PROVE  \E n \in T : \A m \in T : n <= m
<1> DEFINE R == OpToRel(<, Nat)
<1>1. IsWellFoundedOn(R, Nat)
  BY NatLessThanWellFounded
<1>2. \A i, j \in Nat : i < j => <<i, j>> \in R
  BY DEF OpToRel
<1> HIDE DEF R
<1>3. PICK n \in T : \A m \in T : ~ (<<m, n>> \in R)
  BY <1>1, WFMin
<1>4. \A m \in T : ~(m < n)
  BY <1>2, <1>3
<1>5. \A m \in T : n <= m
  BY <1>4
<1> QED
  BY <1>5

\* Every such set that is bounded has a greatest one.
LEMMA GreatestOf ==
    ASSUME NEW n \in Nat, NEW T \in SUBSET (1 .. n), T # {}
    PROVE  \E k \in T : \A m \in T : m <= k
<1> DEFINE D == {n - i : i \in T}
<1>1. D \in SUBSET Nat /\ D # {}
  <2>1. \A i \in T : n - i \in Nat
    OBVIOUS
  <2> QED
    BY <2>1
<1>2. PICK d \in D : \A e \in D : d <= e
  <2> HIDE DEF D
  <2> QED
    BY <1>1, LeastOf
<1>3. PICK k \in T : d = n - k
  OBVIOUS
<1>4. ASSUME NEW m \in T PROVE m <= k
  <2>1. n - m \in D
    OBVIOUS
  <2>2. n - k <= n - m
    BY <1>2, <1>3, <2>1
  <2> QED
    BY <2>2
<1> QED
  BY <1>4

\* So Min chooses one.
LEMMA MinOf ==
    ASSUME NEW T \in SUBSET Nat, T # {}
    PROVE  Min(T) \in T /\ \A m \in T : Min(T) <= m
  BY LeastOf DEF Min

\* And Max does.
LEMMA MaxOf ==
    ASSUME NEW n \in Nat, NEW T \in SUBSET (1 .. n), T # {}
    PROVE  Max(T) \in T /\ \A m \in T : m <= Max(T)
<1>1. PICK k \in T : \A m \in T : m <= k
  BY GreatestOf
<1>2. \A m \in T : k >= m
  BY <1>1
<1>3. Max(T) \in T /\ \A m \in T : Max(T) >= m
  BY <1>2 DEF Max
<1> QED
  BY <1>3

(* What is kept of a text is never longer than what is in front of its tag.  *)
\* What trimming returns is no longer than what it is given, and as long only
\* when there was nothing to trim.
LEMMA TrimSpaceOf ==
    ASSUME NEW S, NEW s \in Seq(S)
    PROVE  /\ TrimSpace(s) \in Seq(S)
           /\ Len(TrimSpace(s)) <= Len(s)
           /\ Len(TrimSpace(s)) = Len(s) => TrimSpace(s) = s /\ (s # <<>> => s[1] # Blank /\ s[Len(s)] # Blank)
           /\ TrimSpace(s) # <<>> => TrimSpace(s)[1] # Blank
           /\ s # <<>> /\ s[1] # Blank /\ s[Len(s)] # Blank => TrimSpace(s) = s
<1> DEFINE N == NonBlanks(s)
           n == Len(s)
           a == Min(N)
           b == Max(N)
           t == SubSeq(s, a, b)
<1>0. n \in Nat /\ DOMAIN s = 1 .. n /\ N \in SUBSET (1 .. n) /\ N \in SUBSET Nat
  BY DEF NonBlanks
<1>1. CASE N = {}
  <2>1. TrimSpace(s) = <<>>
    BY <1>1 DEF TrimSpace
  <2>2. ~(s # <<>> /\ s[1] # Blank)
    BY <1>1 DEF NonBlanks
  <2>3. n = 0 => s = <<>>
    BY SeqEqual
  <2> QED
    BY <1>0, <2>1, <2>2, <2>3
<1>2. CASE N # {}
  <2> HIDE DEF N, n
  <2>1. a \in N /\ b \in N /\ a \in 1 .. n /\ b \in 1 .. n /\ a <= b
        /\ \A i \in N : a <= i /\ i <= b
    BY <1>0, <1>2, MinOf, MaxOf
  <2> HIDE DEF a, b
  <2>2. \A i \in a .. b : s[i] \in S
    BY <1>0, <2>1, ElementOfSeq DEF n
  <2>3. /\ t \in Seq(S) /\ Len(t) = b - a + 1
        /\ \A i \in 1 .. b - a + 1 : t[i] = s[a + i - 1]
    BY <2>1, <2>2, SubSeqProperties
  <2>4. TrimSpace(s) = t
    BY <1>2 DEF TrimSpace, N, a, b
  <2>5. t[1] = s[a]
    BY <2>1, <2>3
  <2>6. s[a] # Blank /\ s[b] # Blank
    BY <2>1 DEF N, NonBlanks
  <2>7. b - a + 1 = n => a = 1 /\ b = n
    BY <1>0, <2>1
  <2>8. s[1] # Blank /\ s[n] # Blank => a = 1 /\ b = n
    <3>1. 1 \in 1 .. n /\ n \in 1 .. n
      BY <1>0, <2>1
    <3>2. s[1] # Blank /\ s[n] # Blank => 1 \in N /\ n \in N
      BY <3>1, <1>0 DEF N, NonBlanks
    <3> QED
      BY <1>0, <2>1, <3>2
  <2>9. a = 1 /\ b = n => t = s
    BY SubSeqFull DEF n
  <2> HIDE DEF t
  <2>10. Len(t) \in Nat /\ Len(t) <= n /\ t[1] # Blank /\ n >= 1
    BY <1>0, <2>1, <2>3, <2>5, <2>6
  <2>11. Len(t) = n => t = s /\ s[1] # Blank /\ s[n] # Blank
    BY <2>3, <2>6, <2>7, <2>9
  <2> QED
    BY <2>3, <2>4, <2>8, <2>9, <2>10, <2>11 DEF n
<1> QED
  BY <1>1, <1>2

\* Where a value ends: at its last character, unless that is a blank or stands
\* alone behind one.
LEMMA ValueEndOf ==
    ASSUME NEW S, NEW v \in Seq(S), v # <<>>, v[1] # Blank
    PROVE  /\ ValueEnd(v) \in 1 .. Len(v)
           /\ ValueEnd(v) = Len(v) <=> v[Len(v)] # Blank /\ (Len(v) = 1 \/ v[Len(v) - 1] # Blank)
<1> DEFINE E == {i \in DOMAIN v : v[i] # Blank /\ (i = 1 \/ v[i - 1] # Blank)}
           n == Len(v)
<1>1. n \in Nat /\ n >= 1 /\ DOMAIN v = 1 .. n
  OBVIOUS
<1>2. E \in SUBSET (1 .. n) /\ E \in SUBSET Nat /\ 1 \in E
  BY <1>1
<1>3. ValueEnd(v) = Max(E)
  BY DEF ValueEnd
<1>4. n \in E <=> v[n] # Blank /\ (n = 1 \/ v[n - 1] # Blank)
  BY <1>1
<1> HIDE DEF E, n
<1>5. Max(E) \in E /\ \A m \in E : m <= Max(E)
  BY <1>1, <1>2, MaxOf
<1>7. Max(E) \in 1 .. n
  BY <1>2, <1>5
<1>6. Max(E) = n <=> n \in E
  <2>1. n \in E => n <= Max(E)
    BY <1>5
  <2> QED
    BY <1>1, <1>5, <1>7, <2>1
<1> QED
  BY <1>3, <1>4, <1>6, <1>7 DEF n

\* Cutting a value there does not lengthen it.
LEMMA CutShort ==
    ASSUME NEW S, NEW v \in Seq(S), v # <<>> => v[1] # Blank
    PROVE  /\ v # <<>> => Len(SubSeq(v, 1, ValueEnd(v))) = ValueEnd(v)
           /\ Len(IF v = <<>> THEN <<>> ELSE SubSeq(v, 1, ValueEnd(v))) <= Len(v)
<1>1. CASE v = <<>>
  BY <1>1
<1>2. CASE v # <<>>
  <2>1. ValueEnd(v) \in 1 .. Len(v)
    BY <1>2, ValueEndOf
  <2>2. \A i \in 1 .. ValueEnd(v) : v[i] \in S
    BY <2>1, ElementOfSeq
  <2>3. Len(SubSeq(v, 1, ValueEnd(v))) = ValueEnd(v)
    BY <2>1, <2>2, SubSeqProperties
  <2> QED
    BY <1>2, <2>1, <2>3
<1> QED
  BY <1>1, <1>2

(* A blank put at the end of a text is trimmed away.                         *)
\* Trimming does away with the blank at the end of the line.
LEMMA TrimBlank ==
    ASSUME NEW S, NEW p \in Seq(S)
    PROVE  TrimSpace(Append(p, Blank)) = TrimSpace(p)
<1> DEFINE s == Append(p, Blank)
           n == Len(p)
           N == NonBlanks(p)
<1>1. n \in Nat /\ Len(s) = n + 1 /\ s[n + 1] = Blank /\ \A i \in 1 .. n : s[i] = p[i]
      /\ DOMAIN s = 1 .. n + 1 /\ DOMAIN p = 1 .. n
  OBVIOUS
<1> HIDE DEF s, n
<1>2. NonBlanks(s) = N /\ N \in SUBSET (1 .. n) /\ N \in SUBSET Nat
  <2>1. \A i : i \in N <=> i \in 1 .. n /\ p[i] # Blank
    BY <1>1 DEF NonBlanks, n
  <2>2. \A i : i \in NonBlanks(s) <=> i \in 1 .. n + 1 /\ s[i] # Blank
    BY <1>1 DEF NonBlanks
  <2>3. \A i \in 1 .. n + 1 : i \in 1 .. n \/ i = n + 1
    BY <1>1
  <2>4. \A i \in 1 .. n : i \in 1 .. n + 1 /\ i \in Nat
    BY <1>1
  <2> HIDE DEF N
  <2> QED
    BY <1>1, <2>1, <2>2, <2>3, <2>4
<1> HIDE DEF N
<1>3. CASE N = {}
  BY <1>2, <1>3 DEF TrimSpace, N, s
<1>4. CASE N # {}
  <2> DEFINE a == Min(N)
             b == Max(N)
             T == S \cup {Blank}
  <2>1. a \in 1 .. n /\ b \in 1 .. n
    BY <1>1, <1>2, <1>4, MinOf, MaxOf
  <2> HIDE DEF a, b
  <2>2. \A i \in a .. b : s[i] = p[i] /\ s[i] \in S
    BY <1>1, <2>1, ElementOfSeq DEF n
  <2>3. SubSeq(s, a, b) = SubSeq(p, a, b)
    <3>1. /\ SubSeq(s, a, b) \in Seq(S) /\ SubSeq(p, a, b) \in Seq(S)
          /\ Len(SubSeq(s, a, b)) = (IF a <= b THEN b - a + 1 ELSE 0)
          /\ Len(SubSeq(p, a, b)) = (IF a <= b THEN b - a + 1 ELSE 0)
          /\ \A i \in 1 .. b - a + 1 : SubSeq(s, a, b)[i] = s[a + i - 1]
          /\ \A i \in 1 .. b - a + 1 : SubSeq(p, a, b)[i] = p[a + i - 1]
      BY <2>1, <2>2, SubSeqProperties
    <3>2. \A i \in 1 .. b - a + 1 : a + i - 1 \in a .. b
      BY <2>1
    <3>3. \A i \in 1 .. Len(SubSeq(s, a, b)) : SubSeq(s, a, b)[i] = SubSeq(p, a, b)[i]
      BY <2>1, <2>2, <3>1, <3>2
    <3> QED
      BY <3>1, <3>3, SeqEqual
  <2> QED
    BY <1>2, <1>4, <2>3 DEF TrimSpace, N, a, b, s
<1> QED
  BY <1>3, <1>4

\* A password comes back from its line exactly when Remembered says so.
LEMMA PasswordComesBack ==
    ASSUME NEW S, NEW p \in Seq(S), p # <<>>
    PROVE  ValueOf(Append(p, Blank)) = p <=> Remembered(p)
<1> DEFINE s == Append(p, Blank)
           n == Len(p)
           tags == Positions(s, Tag, 1)
           t == SubSeq(s, 1, Len(s) - Len(CommentFrom(s, 1)))
           v == TrimSpace(t)
           T == S \cup {Blank}
<1>1. /\ n \in Nat /\ n >= 1 /\ s \in Seq(T) /\ Len(s) = n + 1
      /\ p \in Seq(T)
      /\ s[n + 1] = Blank /\ \A i \in 1 .. n : s[i] = p[i]
  <2>1. p \in Seq(T)
    BY SeqMonotonic
  <2> QED
    BY <2>1
<1>4. ValueOf(s) = IF v = <<>> THEN <<>> ELSE SubSeq(v, 1, ValueEnd(v))
  BY DEF ValueOf
<1> HIDE DEF T, s, n
<1>0. Blank # Tag
  BY DEF Blank, Tag
<1>2. tags \in SUBSET (1 .. n)
  <2>1. s[n + 1] # Tag
    BY <1>0, <1>1
  <2> QED
    BY <1>1, <2>1 DEF Positions
<1>3. Contains(p, Tag) <=> tags # {}
  <2>1. Contains(p, Tag) <=> \E i \in 1 .. n : s[i] = Tag
    BY <1>1 DEF Contains, n
  <2>2. tags = {i \in 1 .. n : s[i] = Tag}
    BY <1>1, <1>2 DEF Positions
  <2> QED
    BY <2>1, <2>2
<1>5. CASE tags # {}
  <2> DEFINE m == Min(tags)
  <2>1. m \in 1 .. n
    <3> HIDE DEF tags
    <3>1. tags \in SUBSET Nat
      BY <1>1, <1>2
    <3>2. m \in tags
      BY <1>5, <3>1, MinOf
    <3> QED
      BY <1>2, <3>2
  <2>2. CommentFrom(s, 1) = SubSeq(s, m, n + 1)
    BY <1>1, <1>5 DEF CommentFrom
  <2> HIDE DEF m
  <2>3. Len(SubSeq(s, m, n + 1)) = n + 1 - m + 1
    <3>1. \A i \in m .. n + 1 : s[i] \in T
      BY <1>1, <2>1, ElementOfSeq
    <3> QED
      BY <1>1, <2>1, <3>1, SubSeqProperties
  <2>4. t = SubSeq(s, 1, m - 1)
    BY <1>1, <2>1, <2>2, <2>3
  <2> HIDE DEF t
  <2>5. t \in Seq(T) /\ Len(t) = m - 1
    <3>1. \A i \in 1 .. m - 1 : s[i] \in T
      BY <1>1, <2>1, ElementOfSeq
    <3> QED
      BY <2>1, <2>4, <3>1, SubSeqProperties
  <2>6. v \in Seq(T) /\ Len(v) <= Len(t) /\ (v # <<>> => v[1] # Blank)
    BY <2>5, TrimSpaceOf
  <2> HIDE DEF v
  <2>7. Len(ValueOf(s)) <= Len(v)
    BY <1>4, <2>6, CutShort
  <2>8. ValueOf(s) # p
    BY <1>1, <2>1, <2>5, <2>6, <2>7 DEF n
  <2>9. ~Remembered(p)
    BY <1>3, <1>5 DEF Remembered
  <2> QED
    BY <2>8, <2>9 DEF s
<1>6. CASE tags = {}
  <2>1. CommentFrom(s, 1) = <<>>
    BY <1>6 DEF CommentFrom
  <2>2. v = TrimSpace(p)
    <3>1. t = s
      BY <1>1, <2>1, SubSeqFull
    <3> QED
      BY <1>1, <3>1, TrimBlank DEF s
  <2>3. Remembered(p) <=> p[1] # Blank /\ p[n] # Blank /\ (n = 1 \/ p[n - 1] # Blank)
    BY <1>3, <1>6 DEF Remembered, n
  <2> HIDE DEF v, t, tags
  <2>4. /\ v \in Seq(T) /\ (v # <<>> => v[1] # Blank)
        /\ Len(v) <= n
        /\ Len(v) = n => v = p /\ p[1] # Blank /\ p[n] # Blank
        /\ p[1] # Blank /\ p[n] # Blank => v = p
    BY <1>1, <2>2, TrimSpaceOf DEF n
  <2>5. CASE v = p
    <3>1. ValueOf(s) = SubSeq(p, 1, ValueEnd(p))
      BY <1>4, <2>5
    <3>2. /\ Len(SubSeq(p, 1, ValueEnd(p))) = ValueEnd(p)
          /\ ValueEnd(p) = n <=> p[n] # Blank /\ (n = 1 \/ p[n - 1] # Blank)
      BY <1>1, <2>4, <2>5, CutShort, ValueEndOf DEF n
    <3>3. ValueEnd(p) = n => SubSeq(p, 1, ValueEnd(p)) = p
      BY <1>1, SubSeqFull DEF n
    <3>4. ValueOf(s) = p <=> ValueEnd(p) = n
      BY <3>1, <3>2, <3>3 DEF n
    <3> QED
      BY <2>3, <2>4, <2>5, <3>2, <3>4 DEF s, n
  <2>6. CASE v # p
    <3>1. Len(ValueOf(s)) <= Len(v)
      BY <1>4, <2>4, CutShort
    <3>2. Len(v) # n
      BY <2>4, <2>6
    <3>3. ValueOf(s) # p
      BY <1>1, <2>4, <3>1, <3>2 DEF n
    <3> QED
      BY <2>3, <2>4, <2>6, <3>3 DEF s
  <2> QED
    BY <2>5, <2>6
<1> QED
  BY <1>5, <1>6

-----------------------------------------------------------------------------
(* Short sequences joined.                                                  *)

\* Two sequences joined, told by their elements.
LEMMA Joined ==
    ASSUME NEW S, NEW s \in Seq(S), NEW t \in Seq(S), NEW u \in Seq(S),
           Len(u) = Len(s) + Len(t),
           \A i \in 1 .. Len(s) : u[i] = s[i],
           \A i \in 1 .. Len(t) : u[Len(s) + i] = t[i]
    PROVE  s \o t = u
<1>1. /\ s \o t \in Seq(S) /\ Len(s \o t) = Len(s) + Len(t)
      /\ \A i \in 1 .. Len(s) + Len(t) :
           (s \o t)[i] = IF i <= Len(s) THEN s[i] ELSE t[i - Len(s)]
  BY ConcatProperties
<1>2. ASSUME NEW i \in 1 .. Len(s \o t)
      PROVE  (s \o t)[i] = u[i]
  <2>1. CASE i <= Len(s)
    BY <1>1, <2>1
  <2>2. CASE ~(i <= Len(s))
    <3>1. i - Len(s) \in 1 .. Len(t) /\ Len(s) + (i - Len(s)) = i
      BY <1>1, <2>2
    <3> QED
      BY <1>1, <2>2, <3>1
  <2> QED
    BY <2>1, <2>2
<1> QED
  BY <1>1, <1>2, SeqEqual

\* Tuples joined.
LEMMA Join11 ==
    ASSUME NEW a, NEW b
    PROVE  <<a>> \o <<b>> = <<a, b>>
<1> DEFINE S == {a, b}
           s == <<a>>
           t == <<b>>
           u == <<a, b>>
<1>1. s \in Seq(S) /\ Len(s) = 1 /\ s[1] = a
  OBVIOUS
<1>2. t \in Seq(S) /\ Len(t) = 1 /\ t[1] = b
  OBVIOUS
<1>3. u \in Seq(S) /\ Len(u) = 2 /\ u[1] = a /\ u[2] = b
  OBVIOUS
<1> HIDE DEF S, s, t, u
<1>4. /\ Len(u) = Len(s) + Len(t)
      /\ \A i \in 1 .. Len(s) : u[i] = s[i]
      /\ \A i \in 1 .. Len(t) : u[Len(s) + i] = t[i]
  BY <1>1, <1>2, <1>3
<1>5. s \o t = u
  BY <1>1, <1>2, <1>3, <1>4, Joined
<1> QED
  BY <1>5 DEF s, t, u

LEMMA Join21 ==
    ASSUME NEW a, NEW b, NEW c
    PROVE  <<a, b>> \o <<c>> = <<a, b, c>>
<1> DEFINE S == {a, b, c}
           s == <<a, b>>
           t == <<c>>
           u == <<a, b, c>>
<1>1. s \in Seq(S) /\ Len(s) = 2 /\ s[1] = a /\ s[2] = b
  OBVIOUS
<1>2. t \in Seq(S) /\ Len(t) = 1 /\ t[1] = c
  OBVIOUS
<1>3. u \in Seq(S) /\ Len(u) = 3 /\ u[1] = a /\ u[2] = b /\ u[3] = c
  OBVIOUS
<1> HIDE DEF S, s, t, u
<1>4. /\ Len(u) = Len(s) + Len(t)
      /\ \A i \in 1 .. Len(s) : u[i] = s[i]
      /\ \A i \in 1 .. Len(t) : u[Len(s) + i] = t[i]
  BY <1>1, <1>2, <1>3
<1>5. s \o t = u
  BY <1>1, <1>2, <1>3, <1>4, Joined
<1> QED
  BY <1>5 DEF s, t, u

LEMMA Join12 ==
    ASSUME NEW a, NEW b, NEW c
    PROVE  <<a>> \o <<b, c>> = <<a, b, c>>
<1> DEFINE S == {a, b, c}
           s == <<a>>
           t == <<b, c>>
           u == <<a, b, c>>
<1>1. s \in Seq(S) /\ Len(s) = 1 /\ s[1] = a
  OBVIOUS
<1>2. t \in Seq(S) /\ Len(t) = 2 /\ t[1] = b /\ t[2] = c
  OBVIOUS
<1>3. u \in Seq(S) /\ Len(u) = 3 /\ u[1] = a /\ u[2] = b /\ u[3] = c
  OBVIOUS
<1> HIDE DEF S, s, t, u
<1>4. /\ Len(u) = Len(s) + Len(t)
      /\ \A i \in 1 .. Len(s) : u[i] = s[i]
      /\ \A i \in 1 .. Len(t) : u[Len(s) + i] = t[i]
  BY <1>1, <1>2, <1>3
<1>5. s \o t = u
  BY <1>1, <1>2, <1>3, <1>4, Joined
<1> QED
  BY <1>5 DEF s, t, u

LEMMA Join13 ==
    ASSUME NEW a, NEW b, NEW c, NEW d
    PROVE  <<a>> \o <<b, c, d>> = <<a, b, c, d>>
<1> DEFINE S == {a, b, c, d}
           s == <<a>>
           t == <<b, c, d>>
           u == <<a, b, c, d>>
<1>1. s \in Seq(S) /\ Len(s) = 1 /\ s[1] = a
  OBVIOUS
<1>2. t \in Seq(S) /\ Len(t) = 3 /\ t[1] = b /\ t[2] = c /\ t[3] = d
  OBVIOUS
<1>3. u \in Seq(S) /\ Len(u) = 4 /\ u[1] = a /\ u[2] = b /\ u[3] = c /\ u[4] = d
  OBVIOUS
<1> HIDE DEF S, s, t, u
<1>4. /\ Len(u) = Len(s) + Len(t)
      /\ \A i \in 1 .. Len(s) : u[i] = s[i]
      /\ \A i \in 1 .. Len(t) : u[Len(s) + i] = t[i]
  BY <1>1, <1>2, <1>3
<1>5. s \o t = u
  BY <1>1, <1>2, <1>3, <1>4, Joined
<1> QED
  BY <1>5 DEF s, t, u

LEMMA Join31 ==
    ASSUME NEW a, NEW b, NEW c, NEW d
    PROVE  <<a, b, c>> \o <<d>> = <<a, b, c, d>>
<1> DEFINE S == {a, b, c, d}
           s == <<a, b, c>>
           t == <<d>>
           u == <<a, b, c, d>>
<1>1. s \in Seq(S) /\ Len(s) = 3 /\ s[1] = a /\ s[2] = b /\ s[3] = c
  OBVIOUS
<1>2. t \in Seq(S) /\ Len(t) = 1 /\ t[1] = d
  OBVIOUS
<1>3. u \in Seq(S) /\ Len(u) = 4 /\ u[1] = a /\ u[2] = b /\ u[3] = c /\ u[4] = d
  OBVIOUS
<1> HIDE DEF S, s, t, u
<1>4. /\ Len(u) = Len(s) + Len(t)
      /\ \A i \in 1 .. Len(s) : u[i] = s[i]
      /\ \A i \in 1 .. Len(t) : u[Len(s) + i] = t[i]
  BY <1>1, <1>2, <1>3
<1>5. s \o t = u
  BY <1>1, <1>2, <1>3, <1>4, Joined
<1> QED
  BY <1>5 DEF s, t, u

LEMMA Join41 ==
    ASSUME NEW a, NEW b, NEW c, NEW d, NEW e
    PROVE  <<a, b, c, d>> \o <<e>> = <<a, b, c, d, e>>
<1> DEFINE S == {a, b, c, d, e}
           s == <<a, b, c, d>>
           t == <<e>>
           u == <<a, b, c, d, e>>
<1>1. s \in Seq(S) /\ Len(s) = 4 /\ s[1] = a /\ s[2] = b /\ s[3] = c /\ s[4] = d
  OBVIOUS
<1>2. t \in Seq(S) /\ Len(t) = 1 /\ t[1] = e
  OBVIOUS
<1>3. u \in Seq(S) /\ Len(u) = 5 /\ u[1] = a /\ u[2] = b /\ u[3] = c /\ u[4] = d /\ u[5] = e
  OBVIOUS
<1> HIDE DEF S, s, t, u
<1>4. /\ Len(u) = Len(s) + Len(t)
      /\ \A i \in 1 .. Len(s) : u[i] = s[i]
      /\ \A i \in 1 .. Len(t) : u[Len(s) + i] = t[i]
  BY <1>1, <1>2, <1>3
<1>5. s \o t = u
  BY <1>1, <1>2, <1>3, <1>4, Joined
<1> QED
  BY <1>5 DEF s, t, u

-----------------------------------------------------------------------------
(* The object: sections and pairs found by name, and added.                 *)

\* A pair and a section of an object; the dialog gives no section a comment.
Pair(k, v, c) == [key |-> <<k>>, val |-> v, comment |-> c]
Section(c, pairs) == [name |-> <<c>>, comment |-> Null, pairs |-> pairs]

(* A key that is in a section keeps its place; another one comes last.       *)
\* The first pair with a key is the one found.
LEMMA KeyIsFound ==
    ASSUME NEW S, NEW pairs \in Seq(S), NEW sec, sec.pairs = pairs,
           NEW at \in 1 .. Len(pairs), NEW key,
           pairs[at].key = key, \A i \in 1 .. at - 1 : pairs[i].key # key
    PROVE  FindKey(sec, key) = at
<1> DEFINE F == {i \in DOMAIN sec.pairs : sec.pairs[i].key = key}
<1>1. DOMAIN pairs = 1 .. Len(pairs)
  OBVIOUS
<1>2. F \in SUBSET Nat /\ at \in F /\ \A m \in F : at <= m
  BY <1>1
<1>3. FirstOf(F) = at
  <2> HIDE DEF F
  <2> QED
    BY <1>2, FirstIs
<1> QED
  BY <1>3 DEF FindKey

\* And none is when no pair has it.
LEMMA KeyIsMissing ==
    ASSUME NEW S, NEW pairs \in Seq(S), NEW sec, sec.pairs = pairs, NEW key,
           \A i \in 1 .. Len(pairs) : pairs[i].key # key
    PROVE  FindKey(sec, key) = 0
<1>1. DOMAIN pairs = 1 .. Len(pairs)
  OBVIOUS
<1>2. {i \in DOMAIN sec.pairs : sec.pairs[i].key = key} = {}
  BY <1>1
<1> QED
  BY <1>2 DEF FindKey, FirstOf

\* The first pair of a section.
LEMMA FirstPair ==
    ASSUME NEW c, NEW k, NEW v, NEW w
    PROVE  InsertPair(Section(c, <<>>), <<k>>, v, w) = Section(c, <<Pair(k, v, w)>>)
<1> DEFINE sec == Section(c, <<>>)
<1>1. {i \in DOMAIN sec.pairs : sec.pairs[i].key = <<k>>} = {}
  BY DEF Section
<1>2. FindKey(sec, <<k>>) = 0
  BY <1>1 DEF FindKey, FirstOf
<1>3. Append(<<>>, Pair(k, v, w)) = <<Pair(k, v, w)>>
  OBVIOUS
<1>4. InsertPair(sec, <<k>>, v, w) = [sec EXCEPT !.pairs = Append(@, Pair(k, v, w))]
  BY <1>2 DEF InsertPair, Pair
<1> QED
  BY <1>3, <1>4 DEF Section

(* The same of sections; their names are single characters here.             *)
\* A name that is one word.
SimpleName(c) == c \notin {Blank, "[", "]"}

\* It is a section's name as it stands.
LEMMA SimpleNameIsValid ==
    ASSUME NEW c, SimpleName(c)
    PROVE  IsValidSectionName(<<c>>) /\ TrimSpace(<<c>>) = <<c>>
<1>1. Len(<<c>>) = 1 /\ <<c>>[1] = c /\ \A i \in 1 .. 1 : i = 1
  OBVIOUS
<1>2. c # Blank /\ c # "[" /\ c # "]"
  BY DEF SimpleName
<1>3. ~Contains(<<c>>, "[") /\ ~Contains(<<c>>, "]")
  BY <1>1, <1>2 DEF Contains
<1> QED
  BY <1>2, <1>3, OneCharacter DEF IsValidSectionName

\* The first section with a name is the one found.
LEMMA SectionIsFound ==
    ASSUME NEW S, NEW obj \in Seq(S), NEW at \in 1 .. Len(obj), NEW c,
           obj[at].name = <<c>>, \A i \in 1 .. at - 1 : obj[i].name # <<c>>
    PROVE  FindSection(obj, <<c>>) = at /\ at # 0
<1> DEFINE F == {i \in DOMAIN obj : obj[i].name = <<c>>}
<1>1. F \in SUBSET Nat /\ at \in F /\ \A m \in F : at <= m
  OBVIOUS
<1>2. FirstOf(F) = at /\ at # 0
  <2> HIDE DEF F
  <2> QED
    BY <1>1, FirstIs
<1> QED
  BY <1>2 DEF FindSection

\* And none is when no section has it.
LEMMA SectionIsMissing ==
    ASSUME NEW S, NEW obj \in Seq(S), NEW c, \A i \in 1 .. Len(obj) : obj[i].name # <<c>>
    PROVE  FindSection(obj, <<c>>) = 0
<1>1. {i \in DOMAIN obj : obj[i].name = <<c>>} = {}
  OBVIOUS
<1> QED
  BY <1>1 DEF FindSection, FirstOf

\* Inserting a section that is not there adds it at the end.
LEMMA SectionIsAdded ==
    ASSUME NEW S, NEW obj \in Seq(S), NEW c, SimpleName(c),
           \A i \in 1 .. Len(obj) : obj[i].name # <<c>>
    PROVE  InsertSection(obj, <<c>>, Null) =
             [ok |-> TRUE, obj |-> Append(obj, Section(c, <<>>))]
  BY SectionIsMissing, SimpleNameIsValid DEF InsertSection, Section

\* One that is there is left as it is.
LEMMA SectionIsThere ==
    ASSUME NEW S, NEW obj \in Seq(S), NEW at \in 1 .. Len(obj), NEW c, SimpleName(c),
           obj[at].name = <<c>>, \A i \in 1 .. at - 1 : obj[i].name # <<c>>
    PROVE  /\ WithSection(obj, <<c>>) = obj /\ FindSection(obj, <<c>>) = at
           /\ IsValidSectionName(<<c>>)
<1>1. FindSection(obj, <<c>>) = at /\ at # 0
  BY SectionIsFound
<1>2. IsValidSectionName(<<c>>)
  BY SimpleNameIsValid
<1>4. WithSection(obj, <<c>>) = obj
  BY <1>1 DEF WithSection
<1> QED
  BY <1>1, <1>2, <1>4

\* Ini_SetString of a section that is not there adds it, with the pair.
LEMMA StringIsAdded ==
    ASSUME NEW S, NEW obj \in Seq(S), NEW c, SimpleName(c),
           \A i \in 1 .. Len(obj) : obj[i].name # <<c>>,
           NEW k, k # Blank, NEW v
    PROVE  SetString(obj, <<c>>, <<k>>, v, Null) = Append(obj, Section(c, <<Pair(k, v, Null)>>))
<1> DEFINE new == Section(c, <<>>)
           with == Append(obj, new)
           T == S \cup {new}
           n == Len(obj)
           set == Section(c, <<Pair(k, v, Null)>>)
<1>1. obj \in Seq(T)
  BY SeqMonotonic
<1>2. /\ with \in Seq(T) /\ Len(with) = n + 1 /\ n \in Nat
      /\ with[n + 1] = new /\ \A i \in 1 .. n : with[i] = obj[i]
  BY <1>1
<1>3. new.name = <<c>>
  BY DEF Section
<1>4. FindSection(obj, <<c>>) = 0
  BY SectionIsMissing
<1>5. InsertSection(obj, <<c>>, Null).obj = with
  <2>1. InsertSection(obj, <<c>>, Null) = [ok |-> TRUE, obj |-> with]
    BY SectionIsAdded
  <2> QED
    BY <2>1
<1> HIDE DEF with, new, T, n, set
<1>6. FindSection(with, <<c>>) = n + 1
  <2>1. n + 1 \in 1 .. Len(with) /\ with[n + 1].name = <<c>>
    BY <1>2, <1>3
  <2>2. \A i \in 1 .. (n + 1) - 1 : with[i].name # <<c>>
    BY <1>2 DEF n
  <2> QED
    BY <1>2, <2>1, <2>2, SectionIsFound
<1>7. SetString(obj, <<c>>, <<k>>, v, Null) = [with EXCEPT ![n + 1] = InsertPair(@, <<k>>, v, Null)]
  <2>1. IsValidSectionName(<<c>>)
    BY SimpleNameIsValid
  <2>2. NonBlanks(<<k>>) # {} /\ TrimSpace(<<k>>) = <<k>>
    BY OneCharacter
  <2>3. WithSection(obj, <<c>>) = with
    BY <1>4, <1>5 DEF WithSection
  <2> QED
    BY <1>6, <2>1, <2>2, <2>3 DEF SetString
<1>8. InsertPair(new, <<k>>, v, Null) = set
  BY FirstPair DEF new, set
<1>9. [with EXCEPT ![n + 1] = set] = Append(obj, set)
  <2> DEFINE U == T \cup {set}
             l == [with EXCEPT ![n + 1] = set]
             r == Append(obj, set)
  <2>1. with \in Seq(U) /\ obj \in Seq(U) /\ set \in U
    BY <1>1, <1>2, SeqMonotonic
  <2> HIDE DEF U
  <2>2. l \in Seq(U) /\ Len(l) = n + 1 /\ \A j \in 1 .. n + 1 : l[j] = IF j = n + 1 THEN set ELSE with[j]
    BY <1>2, <2>1, ExceptSeq
  <2>3. r \in Seq(U) /\ Len(r) = n + 1 /\ r[n + 1] = set /\ \A i \in 1 .. n : r[i] = obj[i]
    BY <2>1 DEF n
  <2> HIDE DEF l, r
  <2>4. \A i \in 1 .. Len(l) : l[i] = r[i]
    BY <1>2, <2>2, <2>3
  <2>5. l = r
    BY <2>2, <2>3, <2>4, SeqEqual
  <2> QED
    BY <2>5 DEF l, r
<1> QED
  BY <1>2, <1>7, <1>8, <1>9 DEF set

(* The names in the file, as constants the provers need not look into.        *)
\* The names the dialog gives its sections and keys.
ServerName == "Server"
MiscName == "Misc"
IpKey == "IP"
PortKey == "Port"
PwdKey == "Password"
AutoKey == "Auto Run"
ManualKey == "Manual IP"

(* Two sections of three and of two settings, and what save_config makes of   *)
(* whatever could be read of them.                                           *)
ServerPairs(ip, port, pwd, c) == <<Pair(IpKey, ip, Null), Pair(PortKey, port, Null), Pair(PwdKey, pwd, c)>>
MiscPairs(auto, manual) == <<Pair(AutoKey, auto, Null), Pair(ManualKey, manual, Null)>>

\* No two keys of a section are alike.
LEMMA KeysDiffer ==
    /\ <<IpKey>> # <<PortKey>> /\ <<IpKey>> # <<PwdKey>> /\ <<PortKey>> # <<PwdKey>>
    /\ <<AutoKey>> # <<ManualKey>> /\ <<ServerName>> # <<MiscName>>
  BY DEF ServerName, MiscName, IpKey, PortKey, PwdKey, AutoKey, ManualKey

\* All of them are words.
LEMMA Keys ==
    /\ IpKey # Blank /\ PortKey # Blank /\ PwdKey # Blank /\ AutoKey # Blank /\ ManualKey # Blank
    /\ SimpleName(ServerName) /\ SimpleName(MiscName)
    /\ ServerSect = <<ServerName>> /\ MiscSect = <<MiscName>>
  BY DEF ServerName, MiscName, IpKey, PortKey, PwdKey, AutoKey, ManualKey, SimpleName, Blank, ServerSect, MiscSect

-----------------------------------------------------------------------------
(* Ini_InsertPair on sections of one, two and three pairs.                  *)

\* A pair with a new key is added at the end.
LEMMA PairIsAdded ==
    ASSUME NEW S, NEW pairs \in Seq(S), NEW c, NEW sec, sec = Section(c, pairs),
           NEW k, NEW v, NEW w, \A i \in 1 .. Len(pairs) : pairs[i].key # <<k>>
    PROVE  InsertPair(sec, <<k>>, v, w) = Section(c, Append(pairs, Pair(k, v, w)))
<1>1. sec.pairs = pairs
  BY DEF Section
<1>2. \A x : [sec EXCEPT !.pairs = x] = Section(c, x)
  BY DEF Section
<1>3. FindKey(sec, <<k>>) = 0
  BY <1>1, KeyIsMissing
<1>4. InsertPair(sec, <<k>>, v, w) = [sec EXCEPT !.pairs = Append(@, Pair(k, v, w))]
  BY <1>3 DEF InsertPair, Pair
<1>5. [sec EXCEPT !.pairs = Append(@, Pair(k, v, w))] = [sec EXCEPT !.pairs = Append(pairs, Pair(k, v, w))]
  BY <1>1
<1> QED
  BY <1>2, <1>4, <1>5

LEMMA Append1 ==
    ASSUME NEW a, NEW e
    PROVE  Append(<<a>>, e) = <<a, e>>
<1> DEFINE T == {a, e}
           x == Append(<<a>>, e)
           y == <<a, e>>
<1>1. x \in Seq(T) /\ Len(x) = 2 /\ x[1] = a /\ x[2] = e
  OBVIOUS
<1>2. y \in Seq(T) /\ Len(y) = 2 /\ y[1] = a /\ y[2] = e
  OBVIOUS
<1>3. \A i \in 1 .. 2 : i = 1 \/ i = 2
  OBVIOUS
<1> HIDE DEF T, x, y
<1>4. \A i \in 1 .. Len(x) : x[i] = y[i]
  BY <1>1, <1>2, <1>3
<1>5. x = y
  BY <1>1, <1>2, <1>4, SeqEqual
<1> QED
  BY <1>5 DEF x, y

LEMMA Append2 ==
    ASSUME NEW a, NEW b, NEW e
    PROVE  Append(<<a, b>>, e) = <<a, b, e>>
<1> DEFINE T == {a, b, e}
           x == Append(<<a, b>>, e)
           y == <<a, b, e>>
<1>1. x \in Seq(T) /\ Len(x) = 3 /\ x[1] = a /\ x[2] = b /\ x[3] = e
  OBVIOUS
<1>2. y \in Seq(T) /\ Len(y) = 3 /\ y[1] = a /\ y[2] = b /\ y[3] = e
  OBVIOUS
<1>3. \A i \in 1 .. 3 : i = 1 \/ i = 2 \/ i = 3
  OBVIOUS
<1> HIDE DEF T, x, y
<1>4. \A i \in 1 .. Len(x) : x[i] = y[i]
  BY <1>1, <1>2, <1>3
<1>5. x = y
  BY <1>1, <1>2, <1>4, SeqEqual
<1> QED
  BY <1>5 DEF x, y

\* A new key comes last, and one that is there gets its pair where it stands.
LEMMA Insert1New ==
    ASSUME NEW c, NEW k, NEW v, NEW w, NEW a,
           a.key # <<k>>
    PROVE  InsertPair(Section(c, <<a>>), <<k>>, v, w) = Section(c, <<a, Pair(k, v, w)>>)
<1> DEFINE l == <<a>>
<1>1. l \in Seq({a}) /\ Len(l) = 1 /\ l[1] = a
  OBVIOUS
<1>2. Append(l, Pair(k, v, w)) = <<a, Pair(k, v, w)>>
  BY Append1
<1> HIDE DEF l
<1>3. \A i \in 1 .. Len(l) : l[i].key # <<k>>
  <2>1. \A i \in 1 .. 1 : i = 1
    OBVIOUS
  <2> QED
    BY <1>1, <2>1
<1> DEFINE sec == Section(c, l)
<1>5. sec = Section(c, l)
  OBVIOUS
<1> HIDE DEF sec
<1>4. InsertPair(sec, <<k>>, v, w) = Section(c, Append(l, Pair(k, v, w)))
  BY <1>1, <1>3, <1>5, PairIsAdded, SMTT(30)
<1> QED
  BY <1>2, <1>4 DEF l, sec

\* On a pair that is the only one,
LEMMA Insert11 ==
    ASSUME NEW c, NEW k, NEW v, NEW w, NEW a,
           a.key = <<k>>
    PROVE  InsertPair(Section(c, <<a>>), <<k>>, v, w) = Section(c, <<Pair(k, v, w)>>)
<1> DEFINE l == <<a>>
<1>1. l \in Seq({a}) /\ Len(l) = 1 /\ l[1] = a
  OBVIOUS
<1> HIDE DEF l
<1>3. 1 \in 1 .. Len(l) /\ l[1].key = <<k>> /\ \A i \in 1 .. 1 - 1 : l[i].key # <<k>>
  <2>1. \A i \in 1 .. 1 - 1 : FALSE
    OBVIOUS
  <2> QED
    BY <1>1, <2>1
<1> DEFINE sec == Section(c, l)
<1>4. sec.pairs = l
  BY DEF Section
<1> HIDE DEF sec
<1>5. FindKey(sec, <<k>>) = 1
  BY <1>1, <1>3, <1>4, KeyIsFound, SMTT(30)
<1>6. InsertPair(sec, <<k>>, v, w) = [sec EXCEPT !.pairs[1] = Pair(k, v, w)]
  BY <1>5 DEF InsertPair, Pair
<1> QED
  BY <1>6 DEF l, Section, sec

\* on two pairs,
LEMMA Insert2New ==
    ASSUME NEW c, NEW k, NEW v, NEW w, NEW a, NEW b,
           a.key # <<k>>, b.key # <<k>>
    PROVE  InsertPair(Section(c, <<a, b>>), <<k>>, v, w) = Section(c, <<a, b, Pair(k, v, w)>>)
<1> DEFINE l == <<a, b>>
<1>1. l \in Seq({a, b}) /\ Len(l) = 2 /\ l[1] = a /\ l[2] = b
  OBVIOUS
<1>2. Append(l, Pair(k, v, w)) = <<a, b, Pair(k, v, w)>>
  BY Append2
<1> HIDE DEF l
<1>3. \A i \in 1 .. Len(l) : l[i].key # <<k>>
  <2>1. \A i \in 1 .. 2 : i = 1 \/ i = 2
    OBVIOUS
  <2> QED
    BY <1>1, <2>1
<1> DEFINE sec == Section(c, l)
<1>5. sec = Section(c, l)
  OBVIOUS
<1> HIDE DEF sec
<1>4. InsertPair(sec, <<k>>, v, w) = Section(c, Append(l, Pair(k, v, w)))
  BY <1>1, <1>3, <1>5, PairIsAdded, SMTT(30)
<1> QED
  BY <1>2, <1>4 DEF l, sec

LEMMA Insert21 ==
    ASSUME NEW c, NEW k, NEW v, NEW w, NEW a, NEW b,
           a.key = <<k>>
    PROVE  InsertPair(Section(c, <<a, b>>), <<k>>, v, w) = Section(c, <<Pair(k, v, w), b>>)
<1> DEFINE l == <<a, b>>
<1>1. l \in Seq({a, b}) /\ Len(l) = 2 /\ l[1] = a /\ l[2] = b
  OBVIOUS
<1> HIDE DEF l
<1>3. 1 \in 1 .. Len(l) /\ l[1].key = <<k>> /\ \A i \in 1 .. 1 - 1 : l[i].key # <<k>>
  <2>1. \A i \in 1 .. 1 - 1 : FALSE
    OBVIOUS
  <2> QED
    BY <1>1, <2>1
<1> DEFINE sec == Section(c, l)
<1>4. sec.pairs = l
  BY DEF Section
<1> HIDE DEF sec
<1>5. FindKey(sec, <<k>>) = 1
  BY <1>1, <1>3, <1>4, KeyIsFound, SMTT(30)
<1>6. InsertPair(sec, <<k>>, v, w) = [sec EXCEPT !.pairs[1] = Pair(k, v, w)]
  BY <1>5 DEF InsertPair, Pair
<1> QED
  BY <1>6 DEF l, Section, sec

LEMMA Insert22 ==
    ASSUME NEW c, NEW k, NEW v, NEW w, NEW a, NEW b,
           a.key # <<k>>, b.key = <<k>>
    PROVE  InsertPair(Section(c, <<a, b>>), <<k>>, v, w) = Section(c, <<a, Pair(k, v, w)>>)
<1> DEFINE l == <<a, b>>
<1>1. l \in Seq({a, b}) /\ Len(l) = 2 /\ l[1] = a /\ l[2] = b
  OBVIOUS
<1> HIDE DEF l
<1>3. 2 \in 1 .. Len(l) /\ l[2].key = <<k>> /\ \A i \in 1 .. 2 - 1 : l[i].key # <<k>>
  <2>1. \A i \in 1 .. 2 - 1 : i = 1
    OBVIOUS
  <2> QED
    BY <1>1, <2>1
<1> DEFINE sec == Section(c, l)
<1>4. sec.pairs = l
  BY DEF Section
<1> HIDE DEF sec
<1>5. FindKey(sec, <<k>>) = 2
  BY <1>1, <1>3, <1>4, KeyIsFound, SMTT(30)
<1>6. InsertPair(sec, <<k>>, v, w) = [sec EXCEPT !.pairs[2] = Pair(k, v, w)]
  BY <1>5 DEF InsertPair, Pair
<1> QED
  BY <1>6 DEF l, Section, sec

\* and on three.
LEMMA Insert31 ==
    ASSUME NEW c, NEW k, NEW v, NEW w, NEW a, NEW b, NEW d,
           a.key = <<k>>
    PROVE  InsertPair(Section(c, <<a, b, d>>), <<k>>, v, w) = Section(c, <<Pair(k, v, w), b, d>>)
<1> DEFINE l == <<a, b, d>>
<1>1. l \in Seq({a, b, d}) /\ Len(l) = 3 /\ l[1] = a /\ l[2] = b /\ l[3] = d
  OBVIOUS
<1> HIDE DEF l
<1>3. 1 \in 1 .. Len(l) /\ l[1].key = <<k>> /\ \A i \in 1 .. 1 - 1 : l[i].key # <<k>>
  <2>1. \A i \in 1 .. 1 - 1 : FALSE
    OBVIOUS
  <2> QED
    BY <1>1, <2>1
<1> DEFINE sec == Section(c, l)
<1>4. sec.pairs = l
  BY DEF Section
<1> HIDE DEF sec
<1>5. FindKey(sec, <<k>>) = 1
  BY <1>1, <1>3, <1>4, KeyIsFound, SMTT(30)
<1>6. InsertPair(sec, <<k>>, v, w) = [sec EXCEPT !.pairs[1] = Pair(k, v, w)]
  BY <1>5 DEF InsertPair, Pair
<1> QED
  BY <1>6 DEF l, Section, sec

LEMMA Insert32 ==
    ASSUME NEW c, NEW k, NEW v, NEW w, NEW a, NEW b, NEW d,
           a.key # <<k>>, b.key = <<k>>
    PROVE  InsertPair(Section(c, <<a, b, d>>), <<k>>, v, w) = Section(c, <<a, Pair(k, v, w), d>>)
<1> DEFINE l == <<a, b, d>>
<1>1. l \in Seq({a, b, d}) /\ Len(l) = 3 /\ l[1] = a /\ l[2] = b /\ l[3] = d
  OBVIOUS
<1> HIDE DEF l
<1>3. 2 \in 1 .. Len(l) /\ l[2].key = <<k>> /\ \A i \in 1 .. 2 - 1 : l[i].key # <<k>>
  <2>1. \A i \in 1 .. 2 - 1 : i = 1
    OBVIOUS
  <2> QED
    BY <1>1, <2>1
<1> DEFINE sec == Section(c, l)
<1>4. sec.pairs = l
  BY DEF Section
<1> HIDE DEF sec
<1>5. FindKey(sec, <<k>>) = 2
  BY <1>1, <1>3, <1>4, KeyIsFound, SMTT(30)
<1>6. InsertPair(sec, <<k>>, v, w) = [sec EXCEPT !.pairs[2] = Pair(k, v, w)]
  BY <1>5 DEF InsertPair, Pair
<1> QED
  BY <1>6 DEF l, Section, sec

LEMMA Insert33 ==
    ASSUME NEW c, NEW k, NEW v, NEW w, NEW a, NEW b, NEW d,
           a.key # <<k>>, b.key # <<k>>, d.key = <<k>>
    PROVE  InsertPair(Section(c, <<a, b, d>>), <<k>>, v, w) = Section(c, <<a, b, Pair(k, v, w)>>)
<1> DEFINE l == <<a, b, d>>
<1>1. l \in Seq({a, b, d}) /\ Len(l) = 3 /\ l[1] = a /\ l[2] = b /\ l[3] = d
  OBVIOUS
<1> HIDE DEF l
<1>3. 3 \in 1 .. Len(l) /\ l[3].key = <<k>> /\ \A i \in 1 .. 3 - 1 : l[i].key # <<k>>
  <2>1. \A i \in 1 .. 3 - 1 : i = 1 \/ i = 2
    OBVIOUS
  <2> QED
    BY <1>1, <2>1
<1> DEFINE sec == Section(c, l)
<1>4. sec.pairs = l
  BY DEF Section
<1> HIDE DEF sec
<1>5. FindKey(sec, <<k>>) = 3
  BY <1>1, <1>3, <1>4, KeyIsFound, SMTT(30)
<1>6. InsertPair(sec, <<k>>, v, w) = [sec EXCEPT !.pairs[3] = Pair(k, v, w)]
  BY <1>5 DEF InsertPair, Pair
<1> QED
  BY <1>6 DEF l, Section, sec

-----------------------------------------------------------------------------
(* save_config on each object the program can hold.                         *)

\* Objects of the section "Server", and of both sections.
One(l) == <<Section(ServerName, l)>>
Two(l, m) == <<Section(ServerName, l), Section(MiscName, m)>>

\* Ini_SetString on an object without sections.
LEMMA SetFirst ==
    ASSUME NEW k, k # Blank, NEW v
    PROVE  SetString(<<>>, ServerSect, <<k>>, v, Null) = One(<<Pair(k, v, Null)>>)
<1> DEFINE obj == <<>>
<1>1. obj \in Seq({}) /\ Len(obj) = 0 /\ \A i \in 1 .. Len(obj) : obj[i].name # <<ServerName>>
  OBVIOUS
<1>2. SimpleName(ServerName)
  BY Keys
<1> HIDE DEF obj
<1>3. SetString(obj, <<ServerName>>, <<k>>, v, Null) = Append(obj, Section(ServerName, <<Pair(k, v, Null)>>))
  BY <1>1, <1>2, StringIsAdded
<1> DEFINE x == Section(ServerName, <<Pair(k, v, Null)>>)
<1>4. Append(<<>>, x) = <<x>>
  <2> HIDE DEF x
  <2> QED
    OBVIOUS
<1> QED
  BY <1>3, <1>4, Keys DEF One, obj

\* On the one section.
LEMMA SetOne ==
    ASSUME NEW l, NEW k, k # Blank, NEW v, NEW l2,
           InsertPair(Section(ServerName, l), <<k>>, v, Null) = Section(ServerName, l2)
    PROVE  SetString(One(l), ServerSect, <<k>>, v, Null) = One(l2)
<1> DEFINE sec == Section(ServerName, l)
           new == Section(ServerName, l2)
           obj == <<sec>>
<1>1. sec.name = <<ServerName>>
  BY DEF Section
<1> HIDE DEF sec, new
<1>2. obj \in Seq({sec}) /\ Len(obj) = 1 /\ obj[1] = sec
  OBVIOUS
<1>3. [obj EXCEPT ![1] = new] = <<new>>
  OBVIOUS
<1> HIDE DEF obj
<1>4. 1 \in 1 .. Len(obj) /\ obj[1].name = <<ServerName>> /\ \A i \in 1 .. 1 - 1 : obj[i].name # <<ServerName>>
  BY <1>1, <1>2
<1>5. SimpleName(ServerName)
  BY Keys
<1>6. SetString(obj, <<ServerName>>, <<k>>, v, Null) = [obj EXCEPT ![1] = InsertPair(@, <<k>>, v, Null)]
  <2>1. /\ WithSection(obj, <<ServerName>>) = obj /\ FindSection(obj, <<ServerName>>) = 1
        /\ IsValidSectionName(<<ServerName>>)
    BY <1>2, <1>4, <1>5, SectionIsThere
  <2>2. NonBlanks(<<k>>) # {} /\ TrimSpace(<<k>>) = <<k>>
    BY OneCharacter
  <2> QED
    BY <2>1, <2>2 DEF SetString
<1>7. [obj EXCEPT ![1] = InsertPair(@, <<k>>, v, Null)] = [obj EXCEPT ![1] = new]
  BY <1>2 DEF sec, new
<1> QED
  BY <1>3, <1>6, <1>7, Keys DEF One, obj, sec, new

\* On the first of two.
LEMMA SetServer ==
    ASSUME NEW l, NEW m, NEW k, k # Blank, NEW v, NEW l2,
           InsertPair(Section(ServerName, l), <<k>>, v, Null) = Section(ServerName, l2)
    PROVE  SetString(Two(l, m), ServerSect, <<k>>, v, Null) = Two(l2, m)
<1> DEFINE sec == Section(ServerName, l)
           misc == Section(MiscName, m)
           new == Section(ServerName, l2)
           obj == <<sec, misc>>
<1>1. sec.name = <<ServerName>>
  BY DEF Section
<1> HIDE DEF sec, misc, new
<1>2. obj \in Seq({sec, misc}) /\ Len(obj) = 2 /\ obj[1] = sec
  OBVIOUS
<1>3. [obj EXCEPT ![1] = new] = <<new, misc>>
  OBVIOUS
<1> HIDE DEF obj
<1>4. 1 \in 1 .. Len(obj) /\ obj[1].name = <<ServerName>> /\ \A i \in 1 .. 1 - 1 : obj[i].name # <<ServerName>>
  BY <1>1, <1>2
<1>5. SimpleName(ServerName)
  BY Keys
<1>6. SetString(obj, <<ServerName>>, <<k>>, v, Null) = [obj EXCEPT ![1] = InsertPair(@, <<k>>, v, Null)]
  <2>1. /\ WithSection(obj, <<ServerName>>) = obj /\ FindSection(obj, <<ServerName>>) = 1
        /\ IsValidSectionName(<<ServerName>>)
    BY <1>2, <1>4, <1>5, SectionIsThere
  <2>2. NonBlanks(<<k>>) # {} /\ TrimSpace(<<k>>) = <<k>>
    BY OneCharacter
  <2> QED
    BY <2>1, <2>2 DEF SetString
<1>7. [obj EXCEPT ![1] = InsertPair(@, <<k>>, v, Null)] = [obj EXCEPT ![1] = new]
  BY <1>2 DEF sec, new
<1> QED
  BY <1>3, <1>6, <1>7, Keys DEF Two, obj, sec, misc, new

\* On the second of two.
LEMMA SetMisc ==
    ASSUME NEW l, NEW m, NEW k, k # Blank, NEW v, NEW m2,
           InsertPair(Section(MiscName, m), <<k>>, v, Null) = Section(MiscName, m2)
    PROVE  SetString(Two(l, m), MiscSect, <<k>>, v, Null) = Two(l, m2)
<1> DEFINE sec == Section(ServerName, l)
           misc == Section(MiscName, m)
           new == Section(MiscName, m2)
           obj == <<sec, misc>>
<1>1. sec.name = <<ServerName>> /\ misc.name = <<MiscName>>
  BY DEF Section
<1> HIDE DEF sec, misc, new
<1>2. obj \in Seq({sec, misc}) /\ Len(obj) = 2 /\ obj[1] = sec /\ obj[2] = misc
  OBVIOUS
<1>3. [obj EXCEPT ![2] = new] = <<sec, new>>
  OBVIOUS
<1> HIDE DEF obj
<1>4. 2 \in 1 .. Len(obj) /\ obj[2].name = <<MiscName>> /\ \A i \in 1 .. 2 - 1 : obj[i].name # <<MiscName>>
  <2>1. \A i \in 1 .. 2 - 1 : i = 1
    OBVIOUS
  <2> QED
    BY <1>1, <1>2, <2>1, KeysDiffer
<1>5. SimpleName(MiscName)
  BY Keys
<1>6. SetString(obj, <<MiscName>>, <<k>>, v, Null) = [obj EXCEPT ![2] = InsertPair(@, <<k>>, v, Null)]
  <2>1. /\ WithSection(obj, <<MiscName>>) = obj /\ FindSection(obj, <<MiscName>>) = 2
        /\ IsValidSectionName(<<MiscName>>)
    BY <1>2, <1>4, <1>5, SectionIsThere
  <2>2. NonBlanks(<<k>>) # {} /\ TrimSpace(<<k>>) = <<k>>
    BY OneCharacter
  <2> QED
    BY <2>1, <2>2 DEF SetString
<1>7. [obj EXCEPT ![2] = InsertPair(@, <<k>>, v, Null)] = [obj EXCEPT ![2] = new]
  BY <1>2 DEF misc, new
<1> QED
  BY <1>3, <1>6, <1>7, Keys DEF Two, obj, sec, misc, new

\* And when the second is not there yet.
LEMMA AddMisc ==
    ASSUME NEW l, NEW k, k # Blank, NEW v
    PROVE  SetString(One(l), MiscSect, <<k>>, v, Null) = Two(l, <<Pair(k, v, Null)>>)
<1> DEFINE sec == Section(ServerName, l)
           new == Section(MiscName, <<Pair(k, v, Null)>>)
           obj == <<sec>>
<1>1. sec.name = <<ServerName>>
  BY DEF Section
<1> HIDE DEF sec, new
<1>2. obj \in Seq({sec}) /\ Len(obj) = 1 /\ obj[1] = sec
  OBVIOUS
<1>3. Append(obj, new) = <<sec, new>>
  BY Append1
<1> HIDE DEF obj
<1>4. \A i \in 1 .. Len(obj) : obj[i].name # <<MiscName>>
  BY <1>1, <1>2, KeysDiffer
<1>5. SimpleName(MiscName)
  BY Keys
<1>6. SetString(obj, <<MiscName>>, <<k>>, v, Null) = Append(obj, Section(MiscName, <<Pair(k, v, Null)>>))
  BY <1>2, <1>4, <1>5, StringIsAdded
<1> QED
  BY <1>3, <1>6, Keys DEF One, Two, obj, sec, new

(* What save_config makes of a config is what the fields say, whichever part  *)
(* of an earlier one was read.                                               *)
\* What save_config makes of the fields.
ObjOf(f) == Two(ServerPairs(<<f.ip>>, PortString(f.port), f.pwd, Null), MiscPairs(Flag(f.autorun), Flag(f.manual)))

\* What a load can leave: the address only, no section "Misc", or everything.
IpRead(i) == One(<<Pair(IpKey, i, Null)>>)
PortRead(i, p) == One(<<Pair(IpKey, i, Null), Pair(PortKey, p, Null)>>)
AllRead(i, p, w, c, a, m) == Two(ServerPairs(i, p, w, c), MiscPairs(a, m))

\* A pair's key.
LEMMA PairKeys ==
    ASSUME NEW k, NEW v, NEW w
    PROVE  Pair(k, v, w).key = <<k>>
  BY DEF Pair

\* Setting the address in an object that holds it, or the port besides, makes
\* what save_config makes of an empty one.
LEMMA FromIp ==
    ASSUME NEW obj, NEW f,
           SetString(obj, ServerSect, <<IpKey>>, <<f.ip>>, Null) = IpRead(<<f.ip>>)
           \/ \E p : SetString(obj, ServerSect, <<IpKey>>, <<f.ip>>, Null) = PortRead(<<f.ip>>, p)
    PROVE  SetSettings(obj, f) = ObjOf(f)
<1> DEFINE c1 == SetString(obj, ServerSect, <<IpKey>>, <<f.ip>>, Null)
           c2 == SetString(c1, ServerSect, <<PortKey>>, PortString(f.port), Null)
           c3 == SetString(c2, ServerSect, <<PwdKey>>, f.pwd, Null)
           c4 == SetString(c3, MiscSect, <<AutoKey>>, Flag(f.autorun), Null)
           c5 == SetString(c4, MiscSect, <<ManualKey>>, Flag(f.manual), Null)
           P1 == Pair(IpKey, <<f.ip>>, Null)
           P2 == Pair(PortKey, PortString(f.port), Null)
           P3 == Pair(PwdKey, f.pwd, Null)
           M1 == Pair(AutoKey, Flag(f.autorun), Null)
           M2 == Pair(ManualKey, Flag(f.manual), Null)
<1>1. SetSettings(obj, f) = c5
  BY DEF SetSettings, IpKey, PortKey, PwdKey, AutoKey, ManualKey
<1>2. c1 = IpRead(<<f.ip>>) \/ \E p : c1 = PortRead(<<f.ip>>, p)
  OBVIOUS
<1>3. P1.key = <<IpKey>> /\ P2.key = <<PortKey>> /\ M1.key = <<AutoKey>>
  BY PairKeys
<1>8. /\ P1 = Pair(IpKey, <<f.ip>>, Null) /\ P2 = Pair(PortKey, PortString(f.port), Null)
      /\ P3 = Pair(PwdKey, f.pwd, Null)
      /\ M1 = Pair(AutoKey, Flag(f.autorun), Null) /\ M2 = Pair(ManualKey, Flag(f.manual), Null)
  OBVIOUS
<1> HIDE DEF c1, P1, P2, P3, M1, M2
<1>4. c2 = One(<<P1, P2>>)
  <2>1. CASE c1 = IpRead(<<f.ip>>)
    <3>1. InsertPair(Section(ServerName, <<P1>>), <<PortKey>>, PortString(f.port), Null) = Section(ServerName, <<P1, P2>>)
      BY <1>3, <1>8, KeysDiffer, Insert1New
    <3> QED
      BY <2>1, <3>1, SetOne, Keys DEF IpRead, P1
  <2>2. CASE \E p : c1 = PortRead(<<f.ip>>, p)
    <3>1. PICK p : c1 = PortRead(<<f.ip>>, p)
      BY <2>2
    <3>2. Pair(PortKey, p, Null).key = <<PortKey>>
      BY PairKeys
    <3>3. InsertPair(Section(ServerName, <<P1, Pair(PortKey, p, Null)>>), <<PortKey>>, PortString(f.port), Null) = Section(ServerName, <<P1, P2>>)
      BY <1>3, <1>8, <3>2, KeysDiffer, Insert22
    <3> QED
      BY <3>1, <3>3, SetOne, Keys DEF PortRead, P1
  <2> QED
    BY <1>2, <2>1, <2>2
<1> HIDE DEF c2
<1>5. c3 = One(<<P1, P2, P3>>)
  <2>1. InsertPair(Section(ServerName, <<P1, P2>>), <<PwdKey>>, f.pwd, Null) = Section(ServerName, <<P1, P2, P3>>)
    BY <1>3, <1>8, KeysDiffer, Insert2New
  <2> QED
    BY <1>4, <2>1, SetOne, Keys
<1> HIDE DEF c3
<1>6. c4 = Two(<<P1, P2, P3>>, <<M1>>)
  BY <1>5, <1>8, AddMisc, Keys
<1> HIDE DEF c4
<1>7. c5 = Two(<<P1, P2, P3>>, <<M1, M2>>)
  <2> DEFINE l == <<P1, P2, P3>>
             m == <<M1>>
             m2 == <<M1, M2>>
             v == Flag(f.manual)
  <2>1. InsertPair(Section(MiscName, m), <<ManualKey>>, v, Null) = Section(MiscName, m2)
    BY <1>3, <1>8, KeysDiffer, Insert1New
  <2>2. c4 = Two(l, m) /\ ManualKey # Blank
    BY <1>6, Keys
  <2> HIDE DEF l, m, m2, v
  <2>3. SetString(c4, MiscSect, <<ManualKey>>, v, Null) = Two(l, m2)
    BY <2>1, <2>2, SetMisc
  <2> QED
    BY <2>3 DEF l, m2, v
<1> HIDE DEF c5
<1> QED
  BY <1>1, <1>7, <1>8 DEF ObjOf, ServerPairs, MiscPairs

\* save_config on an empty object.
LEMMA SettingsEmpty ==
    ASSUME NEW f
    PROVE  SetSettings(<<>>, f) = ObjOf(f)
<1>1. SetString(<<>>, ServerSect, <<IpKey>>, <<f.ip>>, Null) = IpRead(<<f.ip>>)
  BY SetFirst, Keys DEF IpRead
<1> QED
  BY <1>1, FromIp

\* On one that was loaded up to the address.
LEMMA SettingsIp ==
    ASSUME NEW f, NEW i
    PROVE  SetSettings(IpRead(i), f) = ObjOf(f)
<1>1. Pair(IpKey, i, Null).key = <<IpKey>>
  BY PairKeys
<1>2. InsertPair(Section(ServerName, <<Pair(IpKey, i, Null)>>), <<IpKey>>, <<f.ip>>, Null) = Section(ServerName, <<Pair(IpKey, <<f.ip>>, Null)>>)
  BY <1>1, Insert11
<1>3. SetString(IpRead(i), ServerSect, <<IpKey>>, <<f.ip>>, Null) = IpRead(<<f.ip>>)
  BY <1>2, SetOne, Keys DEF IpRead
<1> QED
  BY <1>3, FromIp

\* On one that was loaded up to the port.
LEMMA SettingsPort ==
    ASSUME NEW f, NEW i, NEW p
    PROVE  SetSettings(PortRead(i, p), f) = ObjOf(f)
<1>1. Pair(IpKey, i, Null).key = <<IpKey>>
  BY PairKeys
<1>2. InsertPair(Section(ServerName, <<Pair(IpKey, i, Null), Pair(PortKey, p, Null)>>), <<IpKey>>, <<f.ip>>, Null)
        = Section(ServerName, <<Pair(IpKey, <<f.ip>>, Null), Pair(PortKey, p, Null)>>)
  BY <1>1, Insert21
<1>3. SetString(PortRead(i, p), ServerSect, <<IpKey>>, <<f.ip>>, Null) = PortRead(<<f.ip>>, p)
  BY <1>2, SetOne, Keys DEF PortRead
<1> QED
  BY <1>3, FromIp

\* On one that was loaded whole, whatever its values and comments: nothing of
\* them is left.
LEMMA SettingsAll ==
    ASSUME NEW f, NEW i, NEW p, NEW w, NEW c, NEW a, NEW m
    PROVE  SetSettings(AllRead(i, p, w, c, a, m), f) = ObjOf(f)
<1> DEFINE obj == AllRead(i, p, w, c, a, m)
           c1 == SetString(obj, ServerSect, <<IpKey>>, <<f.ip>>, Null)
           c2 == SetString(c1, ServerSect, <<PortKey>>, PortString(f.port), Null)
           c3 == SetString(c2, ServerSect, <<PwdKey>>, f.pwd, Null)
           c4 == SetString(c3, MiscSect, <<AutoKey>>, Flag(f.autorun), Null)
           c5 == SetString(c4, MiscSect, <<ManualKey>>, Flag(f.manual), Null)
           P1 == Pair(IpKey, <<f.ip>>, Null)
           P2 == Pair(PortKey, PortString(f.port), Null)
           P3 == Pair(PwdKey, f.pwd, Null)
           M1 == Pair(AutoKey, Flag(f.autorun), Null)
           M2 == Pair(ManualKey, Flag(f.manual), Null)
           Q1 == Pair(IpKey, i, Null)
           Q2 == Pair(PortKey, p, Null)
           Q3 == Pair(PwdKey, w, c)
           N1 == Pair(AutoKey, a, Null)
           N2 == Pair(ManualKey, m, Null)
<1>1. SetSettings(obj, f) = c5
  BY DEF SetSettings, IpKey, PortKey, PwdKey, AutoKey, ManualKey
<1>2. obj = Two(<<Q1, Q2, Q3>>, <<N1, N2>>)
  BY DEF AllRead, ServerPairs, MiscPairs
<1>3. /\ P1.key = <<IpKey>> /\ P2.key = <<PortKey>> /\ P3.key = <<PwdKey>>
      /\ Q1.key = <<IpKey>> /\ Q2.key = <<PortKey>> /\ Q3.key = <<PwdKey>>
      /\ M1.key = <<AutoKey>> /\ N1.key = <<AutoKey>> /\ N2.key = <<ManualKey>>
  BY PairKeys
<1>9. /\ P1 = Pair(IpKey, <<f.ip>>, Null) /\ P2 = Pair(PortKey, PortString(f.port), Null)
      /\ P3 = Pair(PwdKey, f.pwd, Null)
      /\ M1 = Pair(AutoKey, Flag(f.autorun), Null) /\ M2 = Pair(ManualKey, Flag(f.manual), Null)
  OBVIOUS
<1> HIDE DEF obj, P1, P2, P3, M1, M2, Q1, Q2, Q3, N1, N2
<1>4. c1 = Two(<<P1, Q2, Q3>>, <<N1, N2>>)
  <2>1. InsertPair(Section(ServerName, <<Q1, Q2, Q3>>), <<IpKey>>, <<f.ip>>, Null) = Section(ServerName, <<P1, Q2, Q3>>)
    BY <1>3, <1>9, Insert31
  <2> QED
    BY <1>2, <2>1, SetServer, Keys
<1> HIDE DEF c1
<1>5. c2 = Two(<<P1, P2, Q3>>, <<N1, N2>>)
  <2>1. InsertPair(Section(ServerName, <<P1, Q2, Q3>>), <<PortKey>>, PortString(f.port), Null) = Section(ServerName, <<P1, P2, Q3>>)
    BY <1>3, <1>9, KeysDiffer, Insert32, SMTT(30)
  <2> QED
    BY <1>4, <2>1, SetServer, Keys
<1> HIDE DEF c2
<1>6. c3 = Two(<<P1, P2, P3>>, <<N1, N2>>)
  <2>1. InsertPair(Section(ServerName, <<P1, P2, Q3>>), <<PwdKey>>, f.pwd, Null) = Section(ServerName, <<P1, P2, P3>>)
    BY <1>3, <1>9, KeysDiffer, Insert33, SMTT(30)
  <2> QED
    BY <1>5, <2>1, SetServer, Keys
<1> HIDE DEF c3
<1>7. c4 = Two(<<P1, P2, P3>>, <<M1, N2>>)
  <2>1. InsertPair(Section(MiscName, <<N1, N2>>), <<AutoKey>>, Flag(f.autorun), Null) = Section(MiscName, <<M1, N2>>)
    BY <1>3, <1>9, Insert21
  <2> QED
    BY <1>6, <2>1, SetMisc, Keys
<1> HIDE DEF c4
<1>8. c5 = Two(<<P1, P2, P3>>, <<M1, M2>>)
  <2>1. InsertPair(Section(MiscName, <<M1, N2>>), <<ManualKey>>, Flag(f.manual), Null) = Section(MiscName, <<M1, M2>>)
    BY <1>3, <1>9, KeysDiffer, Insert22
  <2> QED
    BY <1>7, <2>1, SetMisc, Keys
<1> HIDE DEF c5
<1> QED
  BY <1>1, <1>8, <1>9 DEF ObjOf, ServerPairs, MiscPairs, obj

-----------------------------------------------------------------------------
(* The lines Ini_SaveObjectToString writes.                                 *)

\* The lines of the sections, joined one section after another.
Joining(g, base, s) ==
    g = [S \in SUBSET (1 .. 2) |->
            IF S = {} THEN base
            ELSE LET x == Max(S) IN g[S \ {x}] \o SectionLines(s[x])]

\* The text of two sections is the lines of both.
LEMMA TwoSections ==
    ASSUME NEW s, DOMAIN s = 1 .. 2
    PROVE  SaveObjectToString(s) = (<<>> \o SectionLines(s[1])) \o SectionLines(s[2])
<1> DEFINE A == SectionLines(s[1])
           B == SectionLines(s[2])
<1>1. \A S \in SUBSET (1 .. 2) : S = {} \/ S = {1} \/ S = {2} \/ S = {1, 2}
  <2> TAKE S \in SUBSET (1 .. 2)
  <2>1. \A i : i \in S => i = 1 \/ i = 2
    OBVIOUS
  <2>2. CASE 1 \in S /\ 2 \in S
    <3>1. S = {1, 2}
      BY <2>1, <2>2
    <3> QED
      BY <3>1
  <2>3. CASE 1 \in S /\ 2 \notin S
    <3>1. S = {1}
      BY <2>1, <2>3
    <3> QED
      BY <3>1
  <2>4. CASE 1 \notin S /\ 2 \in S
    <3>1. S = {2}
      BY <2>1, <2>4
    <3> QED
      BY <3>1
  <2>5. CASE 1 \notin S /\ 2 \notin S
    <3>1. S = {}
      BY <2>1, <2>5
    <3> QED
      BY <3>1
  <2> QED
    BY <2>2, <2>3, <2>4, <2>5
<1>2. /\ Max({1}) = 1 /\ Max({2}) = 2 /\ Max({1, 2}) = 2
      /\ {1} \ {1} = {} /\ {2} \ {2} = {} /\ {1, 2} \ {2} = {1} /\ 1 .. 2 = {1, 2}
      /\ {1} # {2} /\ {1} # {1, 2} /\ {2} # {1, 2}
  <2>1. Max({1}) = 1 /\ Max({2}) = 2 /\ Max({1, 2}) = 2
    BY MaxIs
  <2> QED
    BY <2>1
<1>3. \E g : Joining(g, <<>>, s)
  <2> DEFINE g == [S \in SUBSET (1 .. 2) |->
                     IF S = {} THEN <<>> ELSE IF S = {1} THEN <<>> \o A
                     ELSE IF S = {2} THEN <<>> \o B ELSE (<<>> \o A) \o B]
  <2>1. {} \in SUBSET (1 .. 2) /\ {1} \in SUBSET (1 .. 2)
    OBVIOUS
  <2>2. g[{}] = <<>> /\ g[{1}] = <<>> \o A
    BY <2>1
  <2>3. \A S \in SUBSET (1 .. 2) :
          g[S] = IF S = {} THEN <<>> ELSE g[S \ {Max(S)}] \o SectionLines(s[Max(S)])
    <3> TAKE S \in SUBSET (1 .. 2)
    <3>0. /\ S = {1} => g[S] = <<>> \o A
          /\ S = {2} => g[S] = <<>> \o B
          /\ S = {1, 2} => g[S] = (<<>> \o A) \o B
          /\ S = {} => g[S] = <<>>
      BY <1>2
    <3> HIDE DEF g
    <3>1. CASE S = {}
      BY <3>0, <3>1
    <3>2. CASE S = {1}
      BY <1>2, <2>2, <3>0, <3>2
    <3>3. CASE S = {2}
      BY <1>2, <2>2, <3>0, <3>3
    <3>4. CASE S = {1, 2}
      BY <1>2, <2>2, <3>0, <3>4
    <3> QED
      BY <1>1, <3>1, <3>2, <3>3, <3>4
  <2>4. g = [S \in DOMAIN g |-> g[S]] /\ DOMAIN g = SUBSET (1 .. 2)
    OBVIOUS
  <2> HIDE DEF g
  <2>5. Joining(g, <<>>, s)
    BY <2>3, <2>4 DEF Joining
  <2> QED
    BY <2>5
<1> DEFINE h == CHOOSE g : Joining(g, <<>>, s)
<1>4. Joining(h, <<>>, s)
  <2> HIDE DEF Joining
  <2> QED
  BY <1>3
<1> HIDE DEF h
<1>5. SaveObjectToString(s) = h[1 .. 2]
  BY DEF SaveObjectToString, FoldLeft, MapThenFoldSet, Joining, h
<1>6. \A S \in SUBSET (1 .. 2) :
          h[S] = IF S = {} THEN <<>> ELSE h[S \ {Max(S)}] \o SectionLines(s[Max(S)])
  BY <1>4 DEF Joining
<1>7. {} \in SUBSET (1 .. 2) /\ {1} \in SUBSET (1 .. 2) /\ {1, 2} \in SUBSET (1 .. 2)
      /\ {1} # {} /\ {1, 2} # {}
  OBVIOUS
<1> HIDE DEF A, B
<1>8. h[{}] = <<>>
  BY <1>6, <1>7
<1>9. h[{1}] = <<>> \o SectionLines(s[1])
  BY <1>2, <1>6, <1>7, <1>8, ZenonT(60)
<1>10. h[{1, 2}] = (<<>> \o SectionLines(s[1])) \o SectionLines(s[2])
  <2>1. h[{1, 2}] = h[{1, 2} \ {Max({1, 2})}] \o SectionLines(s[Max({1, 2})])
    BY <1>6, <1>7
  <2>2. Max({1, 2}) = 2 /\ {1, 2} \ {2} = {1}
    BY <1>2
  <2> QED
    BY <1>9, <2>1, <2>2
<1> QED
  BY <1>2, <1>5, <1>10

(* The lines of a section and of a setting.                                  *)
\* LineOf is the line of a pair, with a value or without.
LEMMA PairIsWritten ==
    ASSUME NEW S, NEW v \in Seq(S), v # Null, NEW k, <<k>> # Null
    PROVE  PairLine(Pair(k, v, Null)) = LineOf(k, v)
<1> DEFINE T == S \cup {k, Blank, "="}
           e == "="
           p == Pair(k, v, Null)
<1>1. p.key = <<k>> /\ p.val = v /\ p.comment = Null
  BY DEF Pair
<1> HIDE DEF p
<1>2. Written(p.val) = v /\ Written(p.comment) = <<>> /\ p.key # Null
  BY <1>1 DEF Written
<1>3. CASE v = <<>>
  <2>1. PairLine(p) = (<<k>> \o <<Blank>>) \o <<>>
    BY <1>1, <1>2, <1>3 DEF PairLine
  <2>2. <<k>> \o <<Blank>> = <<k, Blank>> /\ <<k, Blank>> \in Seq({k, Blank})
    BY Join11
  <2>3. <<k, Blank>> \o <<>> = <<k, Blank>>
    BY <2>2, ConcatEmptySeq
  <2> QED
    BY <1>3, <2>1, <2>2, <2>3 DEF LineOf, p
<1>4. CASE v # <<>>
  <2>1. PairLine(p) = (((<<k>> \o <<e>>) \o v) \o <<Blank>>) \o <<>>
    BY <1>1, <1>2, <1>4 DEF PairLine
  <2>2. v \in Seq(T) /\ <<k, e>> \in Seq(T) /\ <<Blank>> \in Seq(T) /\ <<>> \in Seq(T)
    <3>1. v \in Seq(T)
      BY SeqMonotonic
    <3> QED
      BY <3>1
  <2>3. v \o <<Blank>> = Append(v, Blank)
    BY AppendIsConcat
  <2> HIDE DEF T, e
  <2>4. <<k>> \o <<e>> = <<k, e>>
    BY Join11
  <2>5. (<<k, e>> \o v) \o <<Blank>> = <<k, e>> \o (v \o <<Blank>>)
    BY <2>2, ConcatAssociative
  <2>6. (<<k, e>> \o v) \o <<Blank>> \in Seq(T)
    BY <2>2, ConcatProperties
  <2>7. ((<<k, e>> \o v) \o <<Blank>>) \o <<>> = (<<k, e>> \o v) \o <<Blank>>
    BY <2>6, ConcatEmptySeq
  <2> QED
    BY <1>4, <2>1, <2>3, <2>4, <2>5, <2>7 DEF LineOf, SettingLine, p, e
<1> QED
  BY <1>3, <1>4

\* And that of a name.
LEMMA HeaderIsWritten ==
    ASSUME NEW c, NEW pairs
    PROVE  HeaderLines(Section(c, pairs)) = <<Header(c)>>
<1> DEFINE o == "["
           z == "]"
           sec == Section(c, pairs)
           T == {o, c, z}
<1>1. sec.name = <<c>> /\ sec.comment = Null
  BY DEF Section
<1> HIDE DEF sec
<1>2. <<c>> # EmptySectionName
  <2>1. Len(<<c>>) = 1 /\ Len(EmptySectionName) = 3
    BY DEF EmptySectionName
  <2> QED
    BY <2>1
<1>3. HeaderLines(sec) = <<((<<o>> \o <<c>>) \o <<z>>) \o <<>>>>
  BY <1>1, <1>2 DEF HeaderLines
<1>4. <<o, c, z>> \in Seq(T)
  OBVIOUS
<1> HIDE DEF o, z, T
<1>5. <<o>> \o <<c>> = <<o, c>>
  BY Join11
<1>6. <<o, c>> \o <<z>> = <<o, c, z>>
  BY Join21
<1>7. <<o, c, z>> \o <<>> = <<o, c, z>>
  BY <1>4, ConcatEmptySeq
<1> QED
  BY <1>3, <1>5, <1>6, <1>7 DEF Header, o, z, sec

\* A section of three pairs is five lines, an empty one at the end.
LEMMA ThreePairs ==
    ASSUME NEW c, NEW a, NEW b, NEW d
    PROVE  SectionLines(Section(c, <<a, b, d>>)) =
             <<Header(c), PairLine(a), PairLine(b), PairLine(d), <<>>>>
<1> DEFINE sec == Section(c, <<a, b, d>>)
           l == <<a, b, d>>
           m == [i \in DOMAIN sec.pairs |-> PairLine(sec.pairs[i])]
           n == <<PairLine(a), PairLine(b), PairLine(d)>>
<1>1. sec.pairs = l
  BY DEF Section
<1>2. l[1] = a /\ l[2] = b /\ l[3] = d /\ DOMAIN l = 1 .. 3
  OBVIOUS
<1>3. HeaderLines(sec) = <<Header(c)>>
  BY HeaderIsWritten
<1> HIDE DEF sec, l
<1>4. m = n
  <2>1. /\ DOMAIN m = 1 .. 3 /\ m = [i \in 1 .. 3 |-> m[i]]
        /\ m[1] = PairLine(a) /\ m[2] = PairLine(b) /\ m[3] = PairLine(d)
    BY <1>1, <1>2
  <2> HIDE DEF m
  <2>2. DOMAIN n = 1 .. 3 /\ n = [i \in 1 .. 3 |-> n[i]]
        /\ n[1] = PairLine(a) /\ n[2] = PairLine(b) /\ n[3] = PairLine(d)
    OBVIOUS
  <2> HIDE DEF n
  <2>3. \A i \in 1 .. 3 : i = 1 \/ i = 2 \/ i = 3
    OBVIOUS
  <2>4. \A i \in 1 .. 3 : m[i] = n[i]
    BY <2>1, <2>2, <2>3
  <2> QED
    BY <2>1, <2>2, <2>4
<1>5. SectionLines(sec) = (<<Header(c)>> \o m) \o <<<<>>>>
  BY <1>3 DEF SectionLines
<1> HIDE DEF m
<1>6. <<Header(c)>> \o n = <<Header(c), PairLine(a), PairLine(b), PairLine(d)>>
  BY Join13
<1>7. <<Header(c), PairLine(a), PairLine(b), PairLine(d)>> \o <<<<>>>>
        = <<Header(c), PairLine(a), PairLine(b), PairLine(d), <<>>>>
  BY Join41
<1> QED
  BY <1>4, <1>5, <1>6, <1>7 DEF sec, l

\* One of two pairs is four.
LEMMA TwoPairs ==
    ASSUME NEW c, NEW a, NEW b
    PROVE  SectionLines(Section(c, <<a, b>>)) = <<Header(c), PairLine(a), PairLine(b), <<>>>>
<1> DEFINE sec == Section(c, <<a, b>>)
           l == <<a, b>>
           m == [i \in DOMAIN sec.pairs |-> PairLine(sec.pairs[i])]
           n == <<PairLine(a), PairLine(b)>>
<1>1. sec.pairs = l
  BY DEF Section
<1>2. l[1] = a /\ l[2] = b /\ DOMAIN l = 1 .. 2
  OBVIOUS
<1>3. HeaderLines(sec) = <<Header(c)>>
  BY HeaderIsWritten
<1> HIDE DEF sec, l
<1>4. m = n
  <2>1. /\ DOMAIN m = 1 .. 2 /\ m = [i \in 1 .. 2 |-> m[i]]
        /\ m[1] = PairLine(a) /\ m[2] = PairLine(b)
    BY <1>1, <1>2
  <2> HIDE DEF m
  <2>2. DOMAIN n = 1 .. 2 /\ n = [i \in 1 .. 2 |-> n[i]]
        /\ n[1] = PairLine(a) /\ n[2] = PairLine(b)
    OBVIOUS
  <2> HIDE DEF n
  <2>3. \A i \in 1 .. 2 : i = 1 \/ i = 2
    OBVIOUS
  <2>4. \A i \in 1 .. 2 : m[i] = n[i]
    BY <2>1, <2>2, <2>3
  <2> QED
    BY <2>1, <2>2, <2>4
<1>5. SectionLines(sec) = (<<Header(c)>> \o m) \o <<<<>>>>
  BY <1>3 DEF SectionLines
<1> HIDE DEF m
<1>6. <<Header(c)>> \o n = <<Header(c), PairLine(a), PairLine(b)>>
  BY Join12
<1>7. <<Header(c), PairLine(a), PairLine(b)>> \o <<<<>>>> = <<Header(c), PairLine(a), PairLine(b), <<>>>>
  BY Join31
<1> QED
  BY <1>4, <1>5, <1>6, <1>7 DEF sec, l

-----------------------------------------------------------------------------
(* The nine lines of a saved file.                                          *)

\* No text of the fields is taken for none, or for a mark of the file's.
LEMMA FieldValues ==
    ASSUME NEW f \in Fields
    PROVE  /\ f.ip \in IpText /\ f.port \in PortText /\ f.pwd \in Password
           /\ <<f.ip>> # Null /\ PortString(f.port) # Null /\ f.pwd # Null
           /\ Flag(f.autorun) # Null /\ Flag(f.manual) # Null
           /\ f.ip \notin {Blank, Tag} /\ f.port \notin {Blank, Tag}
           /\ \E S : f.pwd \in Seq(S)
<1>1. f.ip \in IpText /\ f.port \in PortText /\ f.pwd \in Password
  BY DEF Fields
<1>2. \E S : f.pwd \in Seq(S)
  <2>1. f.pwd \in Seq({f.pwd[i] : i \in DOMAIN f.pwd})
    BY <1>1, TextAssumption
  <2> QED
    BY <2>1
<1>3. f.pwd # Null
  BY <1>1, TextAssumption
<1>4. <<f.ip>> # Null /\ PortString(f.port) # Null
  BY <1>1, TextAssumption DEF PortString
<1>5. <<"0">> # Null /\ <<"1">> # Null
  BY TextAssumption
<1>6. Flag(f.autorun) # Null /\ Flag(f.manual) # Null
  BY <1>5 DEF Flag
<1>7. f.ip \notin {Blank, Tag} /\ f.port \notin {Blank, Tag}
  BY <1>1, TextAssumption
<1> QED
  BY <1>1, <1>2, <1>3, <1>4, <1>6, <1>7

\* Nor is a key.
LEMMA NullIsNoKey ==
    /\ <<IpKey>> # Null /\ <<PortKey>> # Null /\ <<PwdKey>> # Null
    /\ <<AutoKey>> # Null /\ <<ManualKey>> # Null
  BY TextAssumption DEF IpKey, PortKey, PwdKey, AutoKey, ManualKey

(* A file that was saved: its nine lines.                                    *)
\* t is the file of the fields f.
LinesOf(t, f) ==
    /\ DOMAIN t = 1 .. 9
    /\ t[1] = Header(ServerName)
    /\ t[2] = LineOf(IpKey, <<f.ip>>)
    /\ t[3] = LineOf(PortKey, PortString(f.port))
    /\ t[4] = LineOf(PwdKey, f.pwd)
    /\ t[5] = <<>>
    /\ t[6] = Header(MiscName)
    /\ t[7] = LineOf(AutoKey, Flag(f.autorun))
    /\ t[8] = LineOf(ManualKey, Flag(f.manual))
    /\ t[9] = <<>>

\* Five lines and four.
LEMMA FiveAndFour ==
    ASSUME NEW a, NEW b, NEW c, NEW d, NEW e, NEW x, NEW y, NEW z, NEW w
    PROVE  LET t == (<<>> \o <<a, b, c, d, e>>) \o <<x, y, z, w>>
           IN  t = <<a, b, c, d, e, x, y, z, w>>
<1> DEFINE T == {a, b, c, d, e, x, y, z, w}
           A == <<a, b, c, d, e>>
           B == <<x, y, z, w>>
           t == A \o B
           u == <<a, b, c, d, e, x, y, z, w>>
<1>0. /\ u \in Seq(T) /\ Len(u) = 9
      /\ u[1] = a /\ u[2] = b /\ u[3] = c /\ u[4] = d /\ u[5] = e
      /\ u[6] = x /\ u[7] = y /\ u[8] = z /\ u[9] = w
  OBVIOUS
<1>1. A \in Seq(T) /\ Len(A) = 5 /\ A[1] = a /\ A[2] = b /\ A[3] = c /\ A[4] = d /\ A[5] = e
  OBVIOUS
<1>2. B \in Seq(T) /\ Len(B) = 4 /\ B[1] = x /\ B[2] = y /\ B[3] = z /\ B[4] = w
  OBVIOUS
<1> HIDE DEF T, A, B, u
<1>3. <<>> \o A = A
  BY <1>1, ConcatEmptySeq
<1>4. /\ t \in Seq(T) /\ Len(t) = Len(A) + Len(B)
      /\ \A i \in 1 .. Len(A) + Len(B) : t[i] = IF i <= Len(A) THEN A[i] ELSE B[i - Len(A)]
  BY <1>1, <1>2, ConcatProperties
<1> HIDE DEF t
<1>5. Len(t) = 9 /\ \A i \in 1 .. 9 : t[i] = IF i <= 5 THEN A[i] ELSE B[i - 5]
  BY <1>1, <1>2, <1>4
<1>7. t[1] = a /\ t[2] = b /\ t[3] = c /\ t[4] = d /\ t[5] = e
  BY <1>1, <1>5
<1>8. t[6] = x /\ t[7] = y /\ t[8] = z /\ t[9] = w
  <2>1. t[6] = B[6 - 5] /\ t[7] = B[7 - 5] /\ t[8] = B[8 - 5] /\ t[9] = B[9 - 5]
    BY <1>5
  <2> QED
    BY <1>2, <2>1
<1>9. \A i \in 1 .. 9 : i = 1 \/ i = 2 \/ i = 3 \/ i = 4 \/ i = 5 \/ i = 6 \/ i = 7 \/ i = 8 \/ i = 9
  OBVIOUS
<1>10. \A i \in 1 .. Len(t) : t[i] = u[i]
  BY <1>0, <1>5, <1>7, <1>8, <1>9
<1>11. t = u
  BY <1>0, <1>4, <1>5, <1>10, SeqEqual
<1> QED
  BY <1>3, <1>11 DEF t, A, B, u

\* The text of the fields is such a file.
LEMMA TextLines ==
    ASSUME NEW f
    PROVE  LinesOf(TextOf(f), f)
<1> DEFINE a == Header(ServerName)
           b == LineOf(IpKey, <<f.ip>>)
           c == LineOf(PortKey, PortString(f.port))
           d == LineOf(PwdKey, f.pwd)
           x == Header(MiscName)
           y == LineOf(AutoKey, Flag(f.autorun))
           z == LineOf(ManualKey, Flag(f.manual))
           u == <<a, b, c, d, <<>>, x, y, z, <<>>>>
<1>1. TextOf(f) = u
  BY DEF TextOf, ServerName, MiscName, IpKey, PortKey, PwdKey, AutoKey, ManualKey
<1> HIDE DEF a, b, c, d, x, y, z
<1>2. /\ DOMAIN u = 1 .. 9
      /\ u[1] = a /\ u[2] = b /\ u[3] = c /\ u[4] = d /\ u[5] = <<>>
      /\ u[6] = x /\ u[7] = y /\ u[8] = z /\ u[9] = <<>>
  OBVIOUS
<1> HIDE DEF u
<1> QED
  BY <1>1, <1>2 DEF LinesOf, a, b, c, d, x, y, z

\* It is what save_config writes.
LEMMA SavedLines ==
    ASSUME NEW f \in Fields
    PROVE  SaveObjectToString(ObjOf(f)) = TextOf(f)
<1> DEFINE P1 == Pair(IpKey, <<f.ip>>, Null)
           P2 == Pair(PortKey, PortString(f.port), Null)
           P3 == Pair(PwdKey, f.pwd, Null)
           M1 == Pair(AutoKey, Flag(f.autorun), Null)
           M2 == Pair(ManualKey, Flag(f.manual), Null)
           s1 == Section(ServerName, <<P1, P2, P3>>)
           s2 == Section(MiscName, <<M1, M2>>)
           obj == <<s1, s2>>
<1>1. ObjOf(f) = obj
  BY DEF ObjOf, Two, ServerPairs, MiscPairs
<1>2. DOMAIN obj = 1 .. 2 /\ obj[1] = s1 /\ obj[2] = s2
  OBVIOUS
<1>3. SaveObjectToString(obj) = (<<>> \o SectionLines(s1)) \o SectionLines(s2)
  <2> HIDE DEF obj, s1, s2
  <2> QED
    BY <1>2, TwoSections
<1>4. SectionLines(s1) = <<Header(ServerName), PairLine(P1), PairLine(P2), PairLine(P3), <<>>>>
  BY ThreePairs
<1>5. SectionLines(s2) = <<Header(MiscName), PairLine(M1), PairLine(M2), <<>>>>
  BY TwoPairs
<1>6. PairLine(P1) = LineOf(IpKey, <<f.ip>>)
  <2>1. <<f.ip>> \in Seq({f.ip}) /\ <<f.ip>> # Null
    BY FieldValues
  <2> QED
    BY <2>1, NullIsNoKey, PairIsWritten
<1>7. PairLine(P2) = LineOf(PortKey, PortString(f.port))
  <2>1. PortString(f.port) \in Seq({f.port})
    <3>1. <<>> \in Seq({f.port}) /\ <<f.port>> \in Seq({f.port})
      OBVIOUS
    <3> QED
      BY <3>1 DEF PortString
  <2>2. PortString(f.port) # Null
    BY FieldValues
  <2> QED
    BY <2>1, <2>2, NullIsNoKey, PairIsWritten
<1>8. PairLine(P3) = LineOf(PwdKey, f.pwd)
  <2>1. PICK S : f.pwd \in Seq(S)
    BY FieldValues
  <2>2. f.pwd # Null
    BY FieldValues
  <2> QED
    BY <2>1, <2>2, NullIsNoKey, PairIsWritten
<1>9. PairLine(M1) = LineOf(AutoKey, Flag(f.autorun)) /\ PairLine(M2) = LineOf(ManualKey, Flag(f.manual))
  <2>1. Flag(f.autorun) \in Seq({"0", "1"}) /\ Flag(f.manual) \in Seq({"0", "1"})
    <3>1. <<"0">> \in Seq({"0", "1"}) /\ <<"1">> \in Seq({"0", "1"})
      OBVIOUS
    <3> QED
      BY <3>1 DEF Flag
  <2>2. Flag(f.autorun) # Null /\ Flag(f.manual) # Null
    BY FieldValues
  <2> DEFINE T == {"0", "1"}
             v == Flag(f.autorun)
             w == Flag(f.manual)
  <2> HIDE DEF T, v, w
  <2>3. v \in Seq(T) /\ w \in Seq(T) /\ v # Null /\ w # Null
    BY <2>1, <2>2 DEF T, v, w
  <2>4. PairLine(Pair(AutoKey, v, Null)) = LineOf(AutoKey, v) /\ PairLine(Pair(ManualKey, w, Null)) = LineOf(ManualKey, w)
    BY <2>3, NullIsNoKey, PairIsWritten
  <2> QED
    BY <2>4 DEF v, w
<1> DEFINE t == SaveObjectToString(obj)
<1>10. t = (<<>> \o <<Header(ServerName), PairLine(P1), PairLine(P2), PairLine(P3), <<>>>>)
             \o <<Header(MiscName), PairLine(M1), PairLine(M2), <<>>>>
  BY <1>3, <1>4, <1>5
<1> HIDE DEF P1, P2, P3, M1, M2, s1, s2, obj, t
<1>11. t = <<Header(ServerName), PairLine(P1), PairLine(P2), PairLine(P3), <<>>,
             Header(MiscName), PairLine(M1), PairLine(M2), <<>>>>
  BY <1>10, FiveAndFour
<1>12. t = TextOf(f)
  BY <1>6, <1>7, <1>8, <1>9, <1>11
     DEF TextOf, ServerName, MiscName, IpKey, PortKey, PwdKey, AutoKey, ManualKey
<1> QED
  BY <1>1, <1>12 DEF t

-----------------------------------------------------------------------------
(* Ini_LoadObjectFromString, as one line after another.                     *)

\* Induction, for a set of numbers.
LEMMA InductionOverNat ==
    ASSUME NEW T \in SUBSET Nat, 0 \in T, \A n \in T : n + 1 \in T
    PROVE  Nat \subseteq T
<1> DEFINE R == OpToRel(<, Nat)
<1>1. IsWellFoundedOn(R, Nat)
  BY NatLessThanWellFounded
<1>2. \A i, j \in Nat : i < j => <<i, j>> \in R
  BY DEF OpToRel
<1> HIDE DEF R
<1> SUFFICES ASSUME Nat \ T # {} PROVE FALSE
  OBVIOUS
<1>3. PICK n \in Nat \ T : \A m \in Nat \ T : ~ (<<m, n>> \in R)
  BY <1>1, WFMin
<1>4. n # 0 /\ n - 1 \in Nat
  OBVIOUS
<1>5. n - 1 \in T
  <2>1. <<n - 1, n>> \in R
    BY <1>2, <1>4
  <2> QED
    BY <1>3, <1>4, <2>1
<1> QED
  BY <1>3, <1>5

(* The loader's state, before a line that is not accepted and after it.      *)
\* A load that goes on, and one that was given up: the lines that follow are
\* passed over.
On(obj, last) == [obj |-> obj, ok |-> TRUE, last |-> last]
Off(obj, last) == [obj |-> obj, ok |-> FALSE, last |-> last]

\* The greatest number of a set that holds its bound.
LEMMA MaxOfNext ==
    ASSUME NEW k \in Nat, NEW S \in SUBSET (1 .. k + 1), k + 1 \in S
    PROVE  Max(S) = k + 1
<1>1. \A y \in S : k + 1 >= y
  OBVIOUS
<1>2. \A x \in S : (\A y \in S : x >= y) => x = k + 1
  OBVIOUS
<1> QED
  BY <1>1, <1>2 DEF Max

\* g[k] is what handling the first k elements of s makes of base.
Iterates(g, n, base, s) ==
    g = [S \in SUBSET (1 .. n) |->
            IF S = {} THEN base
            ELSE LET x == Max(S) IN HandleLine(g[S \ {x}], s[x])]

\* There is such a g for every length.
LEMMA IterExists ==
    ASSUME NEW n \in Nat, NEW base, NEW s
    PROVE  \E g : Iterates(g, n, base, s)
<1> DEFINE T == {k \in Nat : \E g : Iterates(g, k, base, s)}
<1>1. 0 \in T
  <2> DEFINE g == [S \in SUBSET (1 .. 0) |-> base]
  <2>1. \A S \in SUBSET (1 .. 0) : S = {}
    OBVIOUS
  <2>2. Iterates(g, 0, base, s)
    BY <2>1 DEF Iterates
  <2> QED
    BY <2>2
<1>2. ASSUME NEW k \in T
      PROVE  k + 1 \in T
  <2>1. PICK g : Iterates(g, k, base, s)
    OBVIOUS
  <2> DEFINE h == [S \in SUBSET (1 .. k + 1) |->
                     IF k + 1 \in S THEN HandleLine(g[S \ {k + 1}], s[k + 1]) ELSE g[S]]
  <2>2. \A S \in SUBSET (1 .. k + 1) : k + 1 \notin S => S \in SUBSET (1 .. k)
    OBVIOUS
  <2>3. \A S \in SUBSET (1 .. k + 1) : S \ {k + 1} \in SUBSET (1 .. k)
    OBVIOUS
  <2>4. \A S \in SUBSET (1 .. k) : S \in SUBSET (1 .. k + 1) /\ k + 1 \notin S
    OBVIOUS
  <2>5. \A S \in SUBSET (1 .. k) : h[S] = g[S]
    BY <2>4
  <2>7. \A S \in SUBSET (1 .. k) :
           g[S] = IF S = {} THEN base ELSE HandleLine(g[S \ {Max(S)}], s[Max(S)])
    BY <2>1 DEF Iterates
  <2>8. \A S \in SUBSET (1 .. k) : S \ {Max(S)} \in SUBSET (1 .. k)
    OBVIOUS
  <2>6. \A S \in SUBSET (1 .. k + 1) :
           h[S] = IF S = {} THEN base ELSE HandleLine(h[S \ {Max(S)}], s[Max(S)])
    <3> TAKE S \in SUBSET (1 .. k + 1)
    <3>1. CASE k + 1 \in S
      <4>1. Max(S) = k + 1
        BY <3>1, MaxOfNext
      <4>2. h[S] = HandleLine(g[S \ {k + 1}], s[k + 1])
        BY <3>1
      <4>3. h[S \ {k + 1}] = g[S \ {k + 1}]
        BY <2>3, <2>5
      <4> HIDE DEF h
      <4> QED
        BY <3>1, <4>1, <4>2, <4>3
    <3>2. CASE k + 1 \notin S
      <4>1. S \in SUBSET (1 .. k) /\ h[S] = g[S]
        BY <2>2, <3>2, <2>5
      <4>2. h[S \ {Max(S)}] = g[S \ {Max(S)}]
        BY <2>5, <2>8, <4>1
      <4> HIDE DEF h
      <4> QED
        BY <2>7, <4>1, <4>2
    <3> QED
      BY <3>1, <3>2
  <2>9. h = [S \in SUBSET (1 .. k + 1) |->
              IF S = {} THEN base ELSE HandleLine(h[S \ {Max(S)}], s[Max(S)])]
    <3>1. DOMAIN h = SUBSET (1 .. k + 1)
      OBVIOUS
    <3>2. h = [S \in DOMAIN h |-> h[S]]
      OBVIOUS
    <3> HIDE DEF h
    <3> QED
      BY <2>6, <3>1, <3>2
  <2>10. Iterates(h, k + 1, base, s)
    <3> HIDE DEF h
    <3> QED
      BY <2>9 DEF Iterates
  <2> QED
    BY <2>10
<1>3. Nat \subseteq T
  <2>1. T \in SUBSET Nat
    OBVIOUS
  <2> HIDE DEF T
  <2> QED
    BY <1>1, <1>2, <2>1, InductionOverNat
<1> QED
  BY <1>3

\* A load handles the lines one by one, each on what the ones before it left.
LEMMA HandleLines ==
    ASSUME NEW n \in Nat, NEW s, DOMAIN s = 1 .. n
    PROVE  \E h : /\ h[0] = On(<<>>, 0)
                  /\ \A k \in 1 .. n : h[k] = HandleLine(h[k - 1], s[k])
                  /\ LoadObjectFromString(s) = h[n].obj
<1> DEFINE base == On(<<>>, 0)
<1>6. LoadObjectFromString(s) = FoldLeft(HandleLine, base, s).obj
  BY DEF LoadObjectFromString, On
<1> HIDE DEF base
<1> DEFINE g == CHOOSE f : Iterates(f, n, base, s)
<1>1. Iterates(g, n, base, s)
  <2> HIDE DEF Iterates
  <2> QED
  BY IterExists
<1> HIDE DEF g
<1>2. FoldLeft(HandleLine, base, s) = g[1 .. n]
  BY DEF FoldLeft, MapThenFoldSet, Iterates, g
<1> DEFINE h == [k \in 0 .. n |-> g[1 .. k]]
<1>3. \A S \in SUBSET (1 .. n) :
         g[S] = IF S = {} THEN base ELSE HandleLine(g[S \ {Max(S)}], s[Max(S)])
  BY <1>1 DEF Iterates
<1>4. h[0] = base
  <2>1. {} \in SUBSET (1 .. n) /\ 1 .. 0 = {} /\ 0 \in 0 .. n
    OBVIOUS
  <2>2. g[{}] = base
    BY <1>3, <2>1
  <2> QED
    BY <2>1, <2>2
<1>5. ASSUME NEW k \in 1 .. n
      PROVE  h[k] = HandleLine(h[k - 1], s[k])
  <2>1. k - 1 \in Nat /\ k - 1 \in 0 .. n /\ k \in 0 .. n /\ (k - 1) + 1 = k
    OBVIOUS
  <2>5. 1 .. k \in SUBSET (1 .. n) /\ 1 .. k # {} /\ k \in 1 .. k
    <3>1. k \in 1 .. k
      OBVIOUS
    <3>2. \A j \in 1 .. k : j \in 1 .. n
      OBVIOUS
    <3> QED
      BY <3>1, <3>2
  <2>2. (1 .. k) \ {k} = 1 .. k - 1
    OBVIOUS
  <2>3. Max(1 .. k) = k
    BY <2>1, <2>5, MaxOfNext
  <2>4. g[1 .. k] = HandleLine(g[1 .. k - 1], s[k])
    BY <1>3, <2>2, <2>3, <2>5
  <2> QED
    BY <2>1, <2>4
<1> HIDE DEF h
<1> QED
  <2>1. h[n] = g[1 .. n]
    BY DEF h
  <2>2. LoadObjectFromString(s) = h[n].obj
    BY <1>2, <1>6, <2>1
  <2>3. h[0] = On(<<>>, 0)
    BY <1>4 DEF base
  <2> QED
    BY <1>5, <2>2, <2>3

-----------------------------------------------------------------------------
(* What a line does to the object that is being loaded.                     *)

\* The two components a line changes.
LEMMA OkIsSet ==
    ASSUME NEW obj, NEW last, NEW a, NEW b
    PROVE  [[obj |-> obj, ok |-> a, last |-> last] EXCEPT !.ok = b] = [obj |-> obj, ok |-> b, last |-> last]
  OBVIOUS

LEMMA ObjIsSet ==
    ASSUME NEW obj, NEW last, NEW a, NEW x
    PROVE  [[obj |-> obj, ok |-> a, last |-> last] EXCEPT !.obj = x] = [obj |-> x, ok |-> a, last |-> last]
  OBVIOUS

\* A load that was given up stays so.
LEMMA OffStaysOff ==
    ASSUME NEW obj, NEW last, NEW s
    PROVE  HandleLine(Off(obj, last), s) = Off(obj, last)
<1> DEFINE st == Off(obj, last)
<1>1. ~st.ok
  BY DEF On, Off
<1> HIDE DEF st
<1> QED
  BY <1>1 DEF HandleLine, st

\* An empty line changes nothing.
LEMMA EmptyHandled ==
    ASSUME NEW obj, NEW last
    PROVE  HandleLine(On(obj, last), <<>>) = On(obj, last)
<1> DEFINE st == On(obj, last)
<1>1. st.ok
  BY DEF On, Off
<1>2. ParseLine(<<>>).type = "empty"
  BY NothingIsEmpty DEF Line
<1> HIDE DEF st
<1> QED
  BY <1>1, <1>2 DEF HandleLine, st

\* A line that cannot be read ends the load, and keeps what was loaded.
LEMMA InvalidHandled ==
    ASSUME NEW obj, NEW last, NEW s, ParseLine(s) = InvalidLine
    PROVE  HandleLine(On(obj, last), s) = Off(obj, last)
<1> DEFINE st == On(obj, last)
<1>1. st.ok /\ [st EXCEPT !.ok = FALSE] = Off(obj, last)
  <2>1. st.ok
    BY DEF On
  <2>2. [st EXCEPT !.ok = FALSE] = Off(obj, last)
    BY OkIsSet DEF On, Off
  <2> QED
    BY <2>1, <2>2
<1>2. ParseLine(s).type = "invalid"
  BY DEF InvalidLine, Line
<1> HIDE DEF st
<1>3. HandleLine(st, s) = [st EXCEPT !.ok = FALSE]
  BY <1>1, <1>2 DEF HandleLine
<1> QED
  BY <1>1, <1>3 DEF st

\* A header adds its section, and the pairs that follow go there.
LEMMA HeaderHandled ==
    ASSUME NEW S, NEW obj \in Seq(S), NEW last, NEW c, SimpleName(c), c # Tag,
           \A i \in 1 .. Len(obj) : obj[i].name # <<c>>
    PROVE  HandleLine(On(obj, last), Header(c)) =
             On(Append(obj, Section(c, <<>>)), Len(obj) + 1)
<1> DEFINE st == On(obj, last)
           s == Header(c)
           line == ParseLine(s)
           new == Append(obj, Section(c, <<>>))
<1>1. st.ok /\ st.obj = obj /\ st.last = last
  BY DEF On, Off
<1>2. line = Line("section", <<c>>, <<>>, <<>>)
  BY HeaderIsRead DEF Header, SimpleName
<1> HIDE DEF s, line, st
<1>3. line.type = "section" /\ line.key = <<c>> /\ line.comment = <<>>
  BY <1>2 DEF Line
<1>4. HandleLine(st, s) = HandleSection(st, line)
  BY <1>1, <1>3 DEF HandleLine, line
<1>5. OrNull(line.comment) = Null
  BY <1>3 DEF OrNull
<1>6. InsertSection(st.obj, line.key, OrNull(line.comment)) = [ok |-> TRUE, obj |-> new]
  <2>1. InsertSection(obj, <<c>>, Null) = [ok |-> TRUE, obj |-> new]
    BY SectionIsAdded
  <2> QED
    BY <1>1, <1>3, <1>5, <2>1
<1>7. Len(new) = Len(obj) + 1
  OBVIOUS
<1> HIDE DEF new
<1>8. HandleSection(st, line) = On(new, Len(obj) + 1)
  <2> DEFINE r == InsertSection(st.obj, line.key, OrNull(line.comment))
  <2>1. r.ok = TRUE /\ r.obj = new
    BY <1>6
  <2>2. HandleSection(st, line) = [obj |-> r.obj, ok |-> r.ok, last |-> IF r.ok THEN Len(r.obj) ELSE st.last]
    BY DEF HandleSection
  <2> HIDE DEF r
  <2>3. HandleSection(st, line) = [obj |-> new, ok |-> TRUE, last |-> Len(new)]
    BY <2>1, <2>2
  <2> QED
    BY <1>7, <2>3 DEF On, Off
<1> QED
  BY <1>4, <1>8 DEF new, s, st

\* A pair goes to the last section, with what is read of its value.
LEMMA PairHandled ==
    ASSUME NEW obj, NEW last, last # 0, NEW S, NEW v \in Seq(S), v # <<>>, Fits(v),
           NEW k, k \notin {Blank, Tag, "["}
    PROVE  HandleLine(On(obj, last), LineOf(k, v)) =
             On([obj EXCEPT ![last] = InsertPair(@, <<k>>, OrNull(ValueOf(Append(v, Blank))),
                                                 OrNull(CommentFrom(Append(v, Blank), 1)))], last)
<1> DEFINE st == On(obj, last)
           s == LineOf(k, v)
           line == ParseLine(s)
           val == ValueOf(Append(v, Blank))
           com == CommentFrom(Append(v, Blank), 1)
<1>1. st.ok /\ st.obj = obj /\ st.last = last
  BY DEF On, Off
<1>2. line = Line("pair", <<k>>, val, com)
  <2>1. s = SettingLine(k, v)
    BY DEF LineOf
  <2> QED
    BY <2>1, SettingIsRead
<1> HIDE DEF s, line, val, com
<1>3. line.type = "pair" /\ line.key = <<k>> /\ line.val = val /\ line.comment = com
  BY <1>2 DEF Line
<1>4. HandleLine(st, s) = HandlePair(st, line)
  <2> HIDE DEF st
  <2> QED
    BY <1>1, <1>3 DEF HandleLine, line
<1>5. InSection(st) = st
  BY <1>1 DEF InSection
<1>6. HandlePair(st, line) = [st EXCEPT !.obj[last] = InsertPair(@, <<k>>, OrNull(val), OrNull(com))]
  <2> HIDE DEF st
  <2> QED
    BY <1>1, <1>3, <1>5 DEF HandlePair
<1>7. [st EXCEPT !.obj[last] = InsertPair(@, <<k>>, OrNull(val), OrNull(com))]
        = On([obj EXCEPT ![last] = InsertPair(@, <<k>>, OrNull(val), OrNull(com))], last)
  <2> DEFINE x == [obj EXCEPT ![last] = InsertPair(@, <<k>>, OrNull(val), OrNull(com))]
  <2>1. [st EXCEPT !.obj[last] = InsertPair(@, <<k>>, OrNull(val), OrNull(com))] = [st EXCEPT !.obj = x]
    BY <1>1
  <2>2. [st EXCEPT !.obj = x] = On(x, last)
    <3> HIDE DEF x
    <3> QED
      BY ObjIsSet, ZenonT(60) DEF On
  <2> QED
    BY <2>1, <2>2
<1> QED
  BY <1>4, <1>6, <1>7 DEF s, st, val, com

(* The same where the section is the first of one or the second of two.      *)
\* Such a section is the first,
LEMMA ServerPairHandled ==
    ASSUME NEW l, NEW S, NEW v \in Seq(S), v # <<>>, Fits(v), NEW k, k \notin {Blank, Tag, "["},
           NEW l2, InsertPair(Section(ServerName, l), <<k>>, OrNull(ValueOf(Append(v, Blank))),
                              OrNull(CommentFrom(Append(v, Blank), 1))) = Section(ServerName, l2)
    PROVE  HandleLine(On(One(l), 1), LineOf(k, v)) = On(One(l2), 1)
<1> DEFINE sec == Section(ServerName, l)
           new == Section(ServerName, l2)
           obj == One(l)
           val == OrNull(ValueOf(Append(v, Blank)))
           com == OrNull(CommentFrom(Append(v, Blank), 1))
<1>1. HandleLine(On(obj, 1), LineOf(k, v)) = On([obj EXCEPT ![1] = InsertPair(@, <<k>>, val, com)], 1)
  <2>1. 1 # 0
    OBVIOUS
  <2> HIDE DEF obj
  <2> QED
    BY <2>1, PairHandled
<1>2. obj = <<sec>>
  BY DEF One
<1>3. InsertPair(sec, <<k>>, val, com) = new
  OBVIOUS
<1> HIDE DEF sec, new, obj, val, com
<1>4. [obj EXCEPT ![1] = InsertPair(@, <<k>>, val, com)] = <<new>>
  <2>1. [<<sec>> EXCEPT ![1] = InsertPair(@, <<k>>, val, com)] = <<InsertPair(sec, <<k>>, val, com)>>
    OBVIOUS
  <2> QED
    BY <1>2, <1>3, <2>1
<1> QED
  BY <1>1, <1>4 DEF One, obj, new

\* or the second.
LEMMA MiscPairHandled ==
    ASSUME NEW l, NEW m, NEW S, NEW v \in Seq(S), v # <<>>, Fits(v), NEW k, k \notin {Blank, Tag, "["},
           NEW m2, InsertPair(Section(MiscName, m), <<k>>, OrNull(ValueOf(Append(v, Blank))),
                              OrNull(CommentFrom(Append(v, Blank), 1))) = Section(MiscName, m2)
    PROVE  HandleLine(On(Two(l, m), 2), LineOf(k, v)) = On(Two(l, m2), 2)
<1> DEFINE sec == Section(ServerName, l)
           misc == Section(MiscName, m)
           new == Section(MiscName, m2)
           obj == Two(l, m)
           val == OrNull(ValueOf(Append(v, Blank)))
           com == OrNull(CommentFrom(Append(v, Blank), 1))
<1>1. HandleLine(On(obj, 2), LineOf(k, v)) = On([obj EXCEPT ![2] = InsertPair(@, <<k>>, val, com)], 2)
  <2>1. 2 # 0
    OBVIOUS
  <2> HIDE DEF obj
  <2> QED
    BY <2>1, PairHandled
<1>2. obj = <<sec, misc>>
  BY DEF Two
<1>3. InsertPair(misc, <<k>>, val, com) = new
  OBVIOUS
<1> HIDE DEF sec, misc, new, obj, val, com
<1>4. [obj EXCEPT ![2] = InsertPair(@, <<k>>, val, com)] = <<sec, new>>
  <2>1. [<<sec, misc>> EXCEPT ![2] = InsertPair(@, <<k>>, val, com)] = <<sec, InsertPair(misc, <<k>>, val, com)>>
    OBVIOUS
  <2> QED
    BY <1>2, <1>3, <2>1
<1> QED
  BY <1>1, <1>4 DEF Two, obj, sec, new

-----------------------------------------------------------------------------
(* The same of the nine lines of a saved file.                              *)

\* The first line.
LEMMA ServerHeaderHandled ==
    HandleLine(On(<<>>, 0), Header(ServerName)) = On(One(<<>>), 1)
<1> DEFINE obj == <<>>
           sec == Section(ServerName, <<>>)
<1>1. obj \in Seq({}) /\ Len(obj) = 0 /\ \A i \in 1 .. Len(obj) : obj[i].name # <<ServerName>>
  OBVIOUS
<1>2. SimpleName(ServerName) /\ ServerName # Tag
  BY Keys DEF ServerName, Tag
<1>3. Append(obj, sec) = <<sec>> /\ Len(obj) + 1 = 1
  <2> HIDE DEF sec
  <2> QED
    OBVIOUS
<1> HIDE DEF obj
<1>4. HandleLine(On(obj, 0), Header(ServerName)) = On(Append(obj, Section(ServerName, <<>>)), Len(obj) + 1)
  BY <1>1, <1>2, HeaderHandled
<1> QED
  BY <1>3, <1>4 DEF One, obj

\* The sixth.
LEMMA MiscHeaderHandled ==
    ASSUME NEW l
    PROVE  HandleLine(On(One(l), 1), Header(MiscName)) = On(Two(l, <<>>), 2)
<1> DEFINE sec == Section(ServerName, l)
           misc == Section(MiscName, <<>>)
           obj == <<sec>>
<1>0. sec.name = <<ServerName>>
  BY DEF Section
<1> HIDE DEF sec, misc
<1>1. obj \in Seq({sec}) /\ Len(obj) = 1 /\ obj[1] = sec
  OBVIOUS
<1>2. SimpleName(MiscName) /\ MiscName # Tag
  BY Keys DEF MiscName, Tag
<1>3. Append(obj, misc) = <<sec, misc>>
  BY Append1
<1> HIDE DEF obj
<1>4. Len(obj) + 1 = 2 /\ \A i \in 1 .. Len(obj) : obj[i].name # <<MiscName>>
  BY <1>0, <1>1, KeysDiffer
<1>5. HandleLine(On(obj, 1), Header(MiscName)) = On(Append(obj, Section(MiscName, <<>>)), Len(obj) + 1)
  BY <1>1, <1>2, <1>4, HeaderHandled
<1> QED
  BY <1>3, <1>4, <1>5 DEF One, Two, obj, sec, misc

\* A value of one word is read back as it was written.
LEMMA OneCharacterRead ==
    ASSUME NEW c, c \notin {Blank, Tag}, <<c>> # Null
    PROVE  LET v == <<c>>
           IN  /\ v \in Seq({c}) /\ v # <<>> /\ Fits(v)
               /\ OrNull(ValueOf(Append(v, Blank))) = v
               /\ OrNull(CommentFrom(Append(v, Blank), 1)) = Null
<1> DEFINE v == <<c>>
<1>1. v \in Seq({c}) /\ v # <<>> /\ Len(v) = 1
  OBVIOUS
<1>2. Append(v, Blank) = <<c, Blank>>
  BY Append1
<1>3. ValueOf(<<c, Blank>>) = v /\ CommentFrom(<<c, Blank>>, 1) = <<>>
  BY OneSetting
<1> HIDE DEF v
<1>4. Fits(v)
  <2>1. MaxLine \in Nat /\ MaxLine > 4
    BY TextAssumption
  <2> QED
    BY <1>1, <2>1 DEF Fits
<1>5. OrNull(v) = v /\ OrNull(<<>>) = Null
  BY <1>1 DEF OrNull
<1> QED
  BY <1>1, <1>2, <1>3, <1>4, <1>5 DEF v

\* The keys begin no other kind of line.
LEMMA KeysAreRead ==
    /\ IpKey \notin {Blank, Tag, "["} /\ PortKey \notin {Blank, Tag, "["} /\ PwdKey \notin {Blank, Tag, "["}
    /\ AutoKey \notin {Blank, Tag, "["} /\ ManualKey \notin {Blank, Tag, "["}
  BY DEF Blank, Tag, IpKey, PortKey, PwdKey, AutoKey, ManualKey

\* So are the flags.
LEMMA FlagRead ==
    ASSUME NEW b
    PROVE  LET v == Flag(b)
           IN  /\ \E S : v \in Seq(S)
               /\ v # <<>> /\ Fits(v)
               /\ OrNull(ValueOf(Append(v, Blank))) = v
               /\ OrNull(CommentFrom(Append(v, Blank), 1)) = Null
<1> DEFINE z == "0"
           o == "1"
<1>1. z \notin {Blank, Tag} /\ o \notin {Blank, Tag} /\ <<z>> # Null /\ <<o>> # Null
  BY TextAssumption DEF Blank, Tag
<1>2. Flag(b) = <<z>> \/ Flag(b) = <<o>>
  BY DEF Flag
<1> HIDE DEF z, o
<1> QED
  BY <1>1, <1>2, OneCharacterRead

\* What is loaded of the fields f: an empty port ends the load, and so does a
\* password that is empty or too long.
LoadedOf(f) ==
    IF f.port = NoText THEN IpRead(<<f.ip>>)
    ELSE IF f.pwd = <<>> \/ ~Fits(f.pwd) THEN PortRead(<<f.ip>>, <<f.port>>)
    ELSE AllRead(<<f.ip>>, <<f.port>>, OrNull(ValueOf(Append(f.pwd, Blank))),
                 OrNull(CommentFrom(Append(f.pwd, Blank), 1)), Flag(f.autorun), Flag(f.manual))

\* The address.
LEMMA IpHandled ==
    ASSUME NEW f \in Fields
    PROVE  HandleLine(On(One(<<>>), 1), LineOf(IpKey, <<f.ip>>)) = On(IpRead(<<f.ip>>), 1)
<1> DEFINE v == <<f.ip>>
           l == <<>>
           l2 == <<Pair(IpKey, v, Null)>>
<1>1. f.ip \notin {Blank, Tag} /\ <<f.ip>> # Null
  BY FieldValues
<1>2. /\ v \in Seq({f.ip}) /\ v # <<>> /\ Fits(v)
      /\ OrNull(ValueOf(Append(v, Blank))) = v
      /\ OrNull(CommentFrom(Append(v, Blank), 1)) = Null
  BY <1>1, OneCharacterRead
<1>3. InsertPair(Section(ServerName, l), <<IpKey>>, v, Null) = Section(ServerName, l2)
  BY FirstPair
<1> HIDE DEF v, l, l2
<1>4. InsertPair(Section(ServerName, l), <<IpKey>>, OrNull(ValueOf(Append(v, Blank))),
                 OrNull(CommentFrom(Append(v, Blank), 1))) = Section(ServerName, l2)
  BY <1>2, <1>3
<1>5. HandleLine(On(One(l), 1), LineOf(IpKey, v)) = On(One(l2), 1)
  BY <1>2, <1>4, KeysAreRead, ServerPairHandled
<1> QED
  BY <1>5 DEF IpRead, v, l, l2

\* The port, when there is one.
LEMMA PortHandled ==
    ASSUME NEW f \in Fields, f.port # NoText
    PROVE  HandleLine(On(IpRead(<<f.ip>>), 1), LineOf(PortKey, PortString(f.port))) =
             On(PortRead(<<f.ip>>, <<f.port>>), 1)
<1> DEFINE v == <<f.port>>
           i == Pair(IpKey, <<f.ip>>, Null)
           l == <<i>>
           l2 == <<i, Pair(PortKey, v, Null)>>
<1>1. f.port \notin {Blank, Tag} /\ <<f.port>> # Null /\ PortString(f.port) = v
  BY FieldValues DEF PortString
<1>2. /\ v \in Seq({f.port}) /\ v # <<>> /\ Fits(v)
      /\ OrNull(ValueOf(Append(v, Blank))) = v
      /\ OrNull(CommentFrom(Append(v, Blank), 1)) = Null
  BY <1>1, OneCharacterRead
<1>3. InsertPair(Section(ServerName, l), <<PortKey>>, v, Null) = Section(ServerName, l2)
  <2>1. i.key = <<IpKey>>
    BY PairKeys
  <2> HIDE DEF i, v
  <2> QED
    BY <2>1, KeysDiffer, Insert1New
<1> HIDE DEF v, l, l2
<1>4. InsertPair(Section(ServerName, l), <<PortKey>>, OrNull(ValueOf(Append(v, Blank))),
                 OrNull(CommentFrom(Append(v, Blank), 1))) = Section(ServerName, l2)
  BY <1>2, <1>3
<1>5. HandleLine(On(One(l), 1), LineOf(PortKey, v)) = On(One(l2), 1)
  BY <1>2, <1>4, KeysAreRead, ServerPairHandled
<1> QED
  BY <1>1, <1>5 DEF IpRead, PortRead, v, l, l2

\* The password, when there is one and it fits.
LEMMA PasswordHandled ==
    ASSUME NEW f \in Fields, f.pwd # <<>>, Fits(f.pwd), NEW i, NEW p
    PROVE  HandleLine(On(PortRead(i, p), 1), LineOf(PwdKey, f.pwd)) =
             On(One(ServerPairs(i, p, OrNull(ValueOf(Append(f.pwd, Blank))),
                                OrNull(CommentFrom(Append(f.pwd, Blank), 1)))), 1)
<1> DEFINE v == f.pwd
           w == OrNull(ValueOf(Append(v, Blank)))
           c == OrNull(CommentFrom(Append(v, Blank), 1))
           q1 == Pair(IpKey, i, Null)
           q2 == Pair(PortKey, p, Null)
           l == <<q1, q2>>
           l2 == <<q1, q2, Pair(PwdKey, w, c)>>
<1>1. PICK S : v \in Seq(S)
  BY FieldValues
<1>2. InsertPair(Section(ServerName, l), <<PwdKey>>, w, c) = Section(ServerName, l2)
  <2>1. q1.key = <<IpKey>> /\ q2.key = <<PortKey>>
    BY PairKeys
  <2> HIDE DEF q1, q2, w, c
  <2> QED
    BY <2>1, KeysDiffer, Insert2New
<1> HIDE DEF l, l2, v
<1>3. v # <<>> /\ Fits(v)
  BY DEF v
<1>4. HandleLine(On(One(l), 1), LineOf(PwdKey, v)) = On(One(l2), 1)
  BY <1>1, <1>2, <1>3, KeysAreRead, ServerPairHandled
<1> QED
  BY <1>4 DEF PortRead, ServerPairs, v, l, l2

\* The two flags: this one
LEMMA AutoHandled ==
    ASSUME NEW b, NEW l
    PROVE  HandleLine(On(Two(l, <<>>), 2), LineOf(AutoKey, Flag(b))) =
             On(Two(l, <<Pair(AutoKey, Flag(b), Null)>>), 2)
<1> DEFINE v == Flag(b)
           m == <<>>
           m2 == <<Pair(AutoKey, v, Null)>>
<1>2. /\ \E S : v \in Seq(S)
      /\ v # <<>> /\ Fits(v)
      /\ OrNull(ValueOf(Append(v, Blank))) = v
      /\ OrNull(CommentFrom(Append(v, Blank), 1)) = Null
  BY FlagRead
<1>3. InsertPair(Section(MiscName, m), <<AutoKey>>, v, Null) = Section(MiscName, m2)
  BY FirstPair
<1> HIDE DEF v, m, m2
<1>4. InsertPair(Section(MiscName, m), <<AutoKey>>, OrNull(ValueOf(Append(v, Blank))),
                 OrNull(CommentFrom(Append(v, Blank), 1))) = Section(MiscName, m2)
  BY <1>2, <1>3
<1>5. HandleLine(On(Two(l, m), 2), LineOf(AutoKey, v)) = On(Two(l, m2), 2)
  <2>1. PICK S : v \in Seq(S)
    BY <1>2
  <2>2. v # <<>> /\ Fits(v)
    BY <1>2
  <2>3. AutoKey \notin {Blank, Tag, "["}
    BY KeysAreRead
  <2> QED
    BY <1>4, <2>1, <2>2, <2>3, MiscPairHandled
<1> QED
  BY <1>5 DEF v, m, m2

\* and this.
LEMMA ManualHandled ==
    ASSUME NEW b, NEW l, NEW a
    PROVE  HandleLine(On(Two(l, <<Pair(AutoKey, a, Null)>>), 2), LineOf(ManualKey, Flag(b))) =
             On(Two(l, MiscPairs(a, Flag(b))), 2)
<1> DEFINE v == Flag(b)
           q == Pair(AutoKey, a, Null)
           m == <<q>>
           m2 == <<q, Pair(ManualKey, v, Null)>>
<1>2. /\ \E S : v \in Seq(S)
      /\ v # <<>> /\ Fits(v)
      /\ OrNull(ValueOf(Append(v, Blank))) = v
      /\ OrNull(CommentFrom(Append(v, Blank), 1)) = Null
  BY FlagRead
<1>3. InsertPair(Section(MiscName, m), <<ManualKey>>, v, Null) = Section(MiscName, m2)
  <2>1. q.key = <<AutoKey>>
    BY PairKeys
  <2> HIDE DEF q, v
  <2> QED
    BY <2>1, KeysDiffer, Insert1New
<1> HIDE DEF v, m, m2
<1>4. InsertPair(Section(MiscName, m), <<ManualKey>>, OrNull(ValueOf(Append(v, Blank))),
                 OrNull(CommentFrom(Append(v, Blank), 1))) = Section(MiscName, m2)
  BY <1>2, <1>3
<1>5. HandleLine(On(Two(l, m), 2), LineOf(ManualKey, v)) = On(Two(l, m2), 2)
  <2>1. PICK S : v \in Seq(S)
    BY <1>2
  <2>2. v # <<>> /\ Fits(v)
    BY <1>2
  <2>3. ManualKey \notin {Blank, Tag, "["}
    BY KeysAreRead
  <2> QED
    BY <1>4, <2>1, <2>2, <2>3, MiscPairHandled
<1> QED
  BY <1>5 DEF MiscPairs, v, m, m2

(* An empty setting is a line the loader does not take, and so is a setting   *)
(* too long for a line.                                                      *)
\* A value that is empty or too long ends the load.
LEMMA RefusedHandled ==
    ASSUME NEW obj, NEW last, NEW S, NEW v \in Seq(S), v = <<>> \/ ~Fits(v),
           NEW k, k \notin {Blank, Tag, "["}
    PROVE  HandleLine(On(obj, last), LineOf(k, v)) = Off(obj, last)
<1>1. ParseLine(LineOf(k, v)) = InvalidLine
  <2>1. CASE v = <<>>
    BY <2>1, EmptyIsRefused DEF LineOf
  <2>2. CASE v # <<>>
    BY <2>2, SettingIsRead DEF LineOf
  <2> QED
    BY <2>1, <2>2
<1> QED
  BY <1>1, InvalidHandled

-----------------------------------------------------------------------------
(* What a saved file is loaded as, and what is read of it.                  *)

\* The nine lines are loaded as LoadedOf says.
LEMMA Loaded ==
    ASSUME NEW f \in Fields, NEW t, LinesOf(t, f)
    PROVE  LoadObjectFromString(t) = LoadedOf(f)
<1> DEFINE i == <<f.ip>>
           p == <<f.port>>
           w == OrNull(ValueOf(Append(f.pwd, Blank)))
           c == OrNull(CommentFrom(Append(f.pwd, Blank), 1))
           a == Flag(f.autorun)
           m == Flag(f.manual)
           sp == ServerPairs(i, p, w, c)
<1>3. DOMAIN t = 1 .. 9 /\ 9 \in Nat
  BY DEF LinesOf
<1> HIDE DEF i, p, w, c, a, m, sp
<1>4. PICK h : /\ h[0] = On(<<>>, 0)
               /\ \A k \in 1 .. 9 : h[k] = HandleLine(h[k - 1], t[k])
               /\ LoadObjectFromString(t) = h[9].obj
  BY <1>3, HandleLines
<1>5. /\ h[1] = HandleLine(h[0], t[1]) /\ h[2] = HandleLine(h[1], t[2]) /\ h[3] = HandleLine(h[2], t[3])
      /\ h[4] = HandleLine(h[3], t[4]) /\ h[5] = HandleLine(h[4], t[5]) /\ h[6] = HandleLine(h[5], t[6])
      /\ h[7] = HandleLine(h[6], t[7]) /\ h[8] = HandleLine(h[7], t[8]) /\ h[9] = HandleLine(h[8], t[9])
  <2>1. /\ 1 \in 1 .. 9 /\ 2 \in 1 .. 9 /\ 3 \in 1 .. 9 /\ 4 \in 1 .. 9 /\ 5 \in 1 .. 9
        /\ 6 \in 1 .. 9 /\ 7 \in 1 .. 9 /\ 8 \in 1 .. 9 /\ 9 \in 1 .. 9
        /\ 1 - 1 = 0 /\ 2 - 1 = 1 /\ 3 - 1 = 2 /\ 4 - 1 = 3 /\ 5 - 1 = 4 /\ 6 - 1 = 5
        /\ 7 - 1 = 6 /\ 8 - 1 = 7 /\ 9 - 1 = 8
    OBVIOUS
  <2> QED
    BY <1>4, <2>1
<1>6. h[1] = On(One(<<>>), 1)
  BY <1>4, <1>5, ServerHeaderHandled DEF LinesOf
<1>7. h[2] = On(IpRead(i), 1)
  BY <1>5, <1>6, IpHandled DEF LinesOf, i
<1>8. \A obj, last : \A s : HandleLine(Off(obj, last), s) = Off(obj, last)
  BY OffStaysOff
<1>9. \A obj, last : On(obj, last).obj = obj /\ Off(obj, last).obj = obj
  BY DEF On, Off
<1>10. CASE f.port = NoText
  <2>1. LineOf(PortKey, <<>>) = t[3]
    BY <1>10 DEF LinesOf, PortString
  <2>2. HandleLine(On(IpRead(i), 1), LineOf(PortKey, <<>>)) = Off(IpRead(i), 1)
    <3>1. <<>> \in Seq({}) /\ PortKey \notin {Blank, Tag, "["}
      BY KeysAreRead
    <3> QED
      BY <3>1, RefusedHandled
  <2>3. h[3] = Off(IpRead(i), 1)
    BY <1>5, <1>7, <2>1, <2>2
  <2>4. h[9] = Off(IpRead(i), 1)
    BY <1>5, <1>8, <2>3
  <2> QED
    BY <1>4, <1>9, <1>10, <2>4 DEF LoadedOf, i
<1>11. CASE f.port # NoText
  <2>1. h[3] = On(PortRead(i, p), 1)
    BY <1>5, <1>7, <1>11, PortHandled DEF LinesOf, i, p
  <2>2. CASE f.pwd = <<>> \/ ~Fits(f.pwd)
    <3>1. HandleLine(On(PortRead(i, p), 1), LineOf(PwdKey, f.pwd)) = Off(PortRead(i, p), 1)
      <4>1. PwdKey \notin {Blank, Tag, "["}
        BY KeysAreRead
      <4>2. PICK S : f.pwd \in Seq(S)
        BY FieldValues
      <4> QED
        BY <2>2, <4>1, <4>2, RefusedHandled
    <3>2. h[4] = Off(PortRead(i, p), 1)
      BY <1>5, <2>1, <3>1 DEF LinesOf
    <3>3. h[9] = Off(PortRead(i, p), 1)
      BY <1>5, <1>8, <3>2
    <3> QED
      BY <1>4, <1>9, <1>11, <2>2, <3>3 DEF LoadedOf, i, p
  <2>3. CASE f.pwd # <<>> /\ Fits(f.pwd)
    <3>1. h[4] = On(One(sp), 1)
      BY <1>5, <2>1, <2>3, PasswordHandled DEF LinesOf, sp, w, c
    <3>2. h[5] = On(One(sp), 1)
      BY <1>5, <3>1, EmptyHandled DEF LinesOf
    <3>3. h[6] = On(Two(sp, <<>>), 2)
      BY <1>5, <3>2, MiscHeaderHandled DEF LinesOf
    <3>4. h[7] = On(Two(sp, <<Pair(AutoKey, a, Null)>>), 2)
      BY <1>5, <3>3, AutoHandled DEF LinesOf, a
    <3>5. h[8] = On(Two(sp, MiscPairs(a, m)), 2)
      BY <1>5, <3>4, ManualHandled DEF LinesOf, m
    <3>6. h[9] = On(Two(sp, MiscPairs(a, m)), 2)
      BY <1>5, <3>5, EmptyHandled DEF LinesOf
    <3>7. LoadedOf(f) = AllRead(i, p, w, c, a, m)
      BY <1>11, <2>3 DEF LoadedOf, i, p, w, c, a, m
    <3> QED
      BY <1>4, <1>9, <3>6, <3>7 DEF AllRead, sp
  <2> QED
    BY <2>2, <2>3
<1> QED
  BY <1>10, <1>11

(* What is found in what was read.                                           *)
\* A section that is not there has no strings.
LEMMA NoStringWithoutSection ==
    ASSUME NEW S, NEW obj \in Seq(S), NEW c, \A i \in 1 .. Len(obj) : obj[i].name # <<c>>, NEW key
    PROVE  GetString(obj, <<c>>, key) = Null
  BY SectionIsMissing DEF GetString

\* A pair's value.
LEMMA PairValue ==
    ASSUME NEW k, NEW v, NEW w
    PROVE  Pair(k, v, w).val = v
  BY DEF Pair

\* An empty object has no strings.
LEMMA ReadOfNothing ==
    ASSUME NEW key
    PROVE  GetString(<<>>, ServerSect, key) = Null /\ GetString(<<>>, MiscSect, key) = Null
<1> DEFINE obj == <<>>
<1>1. obj \in Seq({}) /\ Len(obj) = 0 /\ \A c : \A i \in 1 .. Len(obj) : obj[i].name # <<c>>
  OBVIOUS
<1> HIDE DEF obj
<1>2. \A c : GetString(obj, <<c>>, key) = Null
  BY <1>1, NoStringWithoutSection
<1> QED
  BY <1>2, Keys DEF obj

\* The strings of the one section: the first pair with the key.
LEMMA ReadOfOne ==
    ASSUME NEW T, NEW l \in Seq(T), NEW key
    PROVE  /\ GetString(One(l), MiscSect, key) = Null
           /\ \A n \in 1 .. Len(l) :
                l[n].key = key /\ (\A i \in 1 .. n - 1 : l[i].key # key)
                  => GetString(One(l), ServerSect, key) = l[n].val
           /\ (\A i \in 1 .. Len(l) : l[i].key # key) => GetString(One(l), ServerSect, key) = Null
<1> DEFINE sec == Section(ServerName, l)
           obj == <<sec>>
<1>1. sec.name = <<ServerName>> /\ sec.pairs = l
  BY DEF Section
<1> HIDE DEF sec
<1>2. obj \in Seq({sec}) /\ Len(obj) = 1 /\ obj[1] = sec
  OBVIOUS
<1> HIDE DEF obj
<1>3. 1 \in 1 .. Len(obj) /\ obj[1].name = <<ServerName>> /\ obj[1].pairs = l
      /\ \A i \in 1 .. 1 - 1 : obj[i].name # <<ServerName>>
  BY <1>1, <1>2
<1>4. \A i \in 1 .. Len(obj) : obj[i].name # <<MiscName>>
  BY <1>1, <1>2, KeysDiffer
<1>5. GetString(obj, <<MiscName>>, key) = Null
  BY <1>2, <1>4, NoStringWithoutSection
<1>6. ASSUME NEW n \in 1 .. Len(l), l[n].key = key, \A i \in 1 .. n - 1 : l[i].key # key
      PROVE  GetString(obj, <<ServerName>>, key) = l[n].val
  <2>1. n # 0 /\ n \in 1 .. Len(l) /\ l[n].key = key /\ \A i \in 1 .. n - 1 : l[i].key # key
    BY <1>6
  <2>2. FindKey(sec, key) = n
    <3>1. sec.pairs = l
      BY <1>1
    <3> QED
      BY <2>1, <3>1, KeyIsFound
  <2>3. FindSection(obj, <<ServerName>>) = 1 /\ 1 # 0
    BY <1>2, <1>3, SectionIsFound
  <2>4. GetString(obj, <<ServerName>>, key) = l[n].val
    BY <1>1, <1>2, <2>1, <2>2, <2>3 DEF GetString
  <2> QED
    BY <2>4
<1>7. ASSUME \A i \in 1 .. Len(l) : l[i].key # key
      PROVE  GetString(obj, <<ServerName>>, key) = Null
  <2>1. \A i \in 1 .. Len(l) : l[i].key # key
    BY <1>7
  <2>2. FindKey(sec, key) = 0
    BY <1>1, <2>1, KeyIsMissing
  <2>3. FindSection(obj, <<ServerName>>) = 1 /\ 1 # 0
    BY <1>2, <1>3, SectionIsFound
  <2>4. GetString(obj, <<ServerName>>, key) = Null
    BY <1>2, <2>2, <2>3 DEF GetString
  <2> QED
    BY <2>4
<1>8. One(l) = obj
  BY DEF One, obj, sec
<1> QED
  BY <1>5, <1>6, <1>7, <1>8, Keys

\* Those of the first of two,
LEMMA ReadOfServer ==
    ASSUME NEW T, NEW l \in Seq(T), NEW m \in Seq(T), NEW key
    PROVE  \A n \in 1 .. Len(l) :
             l[n].key = key /\ (\A i \in 1 .. n - 1 : l[i].key # key)
               => GetString(Two(l, m), ServerSect, key) = l[n].val
<1> DEFINE sec == Section(ServerName, l)
           misc == Section(MiscName, m)
           obj == <<sec, misc>>
<1>1. sec.name = <<ServerName>> /\ sec.pairs = l /\ misc.name = <<MiscName>> /\ misc.pairs = m
  BY DEF Section
<1> HIDE DEF sec, misc
<1>2. obj \in Seq({sec, misc}) /\ Len(obj) = 2 /\ obj[1] = sec /\ obj[2] = misc
  OBVIOUS
<1> HIDE DEF obj
<1>3. 1 \in 1 .. Len(obj) /\ obj[1].name = <<ServerName>> /\ obj[1].pairs = l
      /\ \A i \in 1 .. 1 - 1 : obj[i].name # <<ServerName>>
  BY <1>1, <1>2
<1>6. ASSUME NEW n \in 1 .. Len(l), l[n].key = key, \A i \in 1 .. n - 1 : l[i].key # key
      PROVE  GetString(obj, <<ServerName>>, key) = l[n].val
  <2>1. n # 0 /\ n \in 1 .. Len(l) /\ l[n].key = key /\ \A i \in 1 .. n - 1 : l[i].key # key
    BY <1>6
  <2>2. FindKey(sec, key) = n
    <3>1. sec.pairs = l
      BY <1>1
    <3> QED
      BY <2>1, <3>1, KeyIsFound
  <2>3. FindSection(obj, <<ServerName>>) = 1 /\ 1 # 0
    BY <1>2, <1>3, SectionIsFound
  <2>4. GetString(obj, <<ServerName>>, key) = l[n].val
    BY <1>1, <1>2, <2>1, <2>2, <2>3 DEF GetString
  <2> QED
    BY <2>4
<1>8. Two(l, m) = obj
  BY DEF Two, obj, sec, misc
<1> QED
  BY <1>6, <1>8, Keys

\* and of the second.
LEMMA ReadOfMisc ==
    ASSUME NEW T, NEW l \in Seq(T), NEW m \in Seq(T), NEW key
    PROVE  \A n \in 1 .. Len(m) :
             m[n].key = key /\ (\A i \in 1 .. n - 1 : m[i].key # key)
               => GetString(Two(l, m), MiscSect, key) = m[n].val
<1> DEFINE sec == Section(ServerName, l)
           misc == Section(MiscName, m)
           obj == <<sec, misc>>
<1>1. sec.name = <<ServerName>> /\ sec.pairs = l /\ misc.name = <<MiscName>> /\ misc.pairs = m
  BY DEF Section
<1> HIDE DEF sec, misc
<1>2. obj \in Seq({sec, misc}) /\ Len(obj) = 2 /\ obj[1] = sec /\ obj[2] = misc
  OBVIOUS
<1> HIDE DEF obj
<1>4. 2 \in 1 .. Len(obj) /\ obj[2].name = <<MiscName>> /\ obj[2].pairs = m
      /\ \A i \in 1 .. 2 - 1 : obj[i].name # <<MiscName>>
  <2>1. \A i \in 1 .. 2 - 1 : i = 1
    OBVIOUS
  <2> QED
    BY <1>1, <1>2, <2>1, KeysDiffer
<1>7. ASSUME NEW n \in 1 .. Len(m), m[n].key = key, \A i \in 1 .. n - 1 : m[i].key # key
      PROVE  GetString(obj, <<MiscName>>, key) = m[n].val
  <2>1. n # 0 /\ n \in 1 .. Len(m) /\ m[n].key = key /\ \A i \in 1 .. n - 1 : m[i].key # key
    BY <1>7
  <2>2. FindKey(misc, key) = n
    <3>1. misc.pairs = m
      BY <1>1
    <3> QED
      BY <2>1, <3>1, KeyIsFound
  <2>3. FindSection(obj, <<MiscName>>) = 2 /\ 2 # 0
    BY <1>2, <1>4, SectionIsFound
  <2>4. GetString(obj, <<MiscName>>, key) = m[n].val
    BY <1>1, <1>2, <2>1, <2>2, <2>3 DEF GetString
  <2> QED
    BY <2>4
<1>8. Two(l, m) = obj
  BY DEF Two, obj, sec, misc
<1> QED
  BY <1>7, <1>8, Keys

-----------------------------------------------------------------------------
(* What init_dlg_items shows of each object that can be loaded.             *)

\* The fields shown of an object, one by one.
LEMMA FieldsParts ==
    ASSUME NEW obj
    PROVE  LET g == FieldsOf(obj)
               ip == GetString(obj, ServerSect, <<IpKey>>)
           IN  /\ g = [ip |-> g.ip, port |-> g.port, pwd |-> g.pwd, autorun |-> g.autorun, manual |-> g.manual]
               /\ g.ip = IF ip = Null THEN AnyIp ELSE ip[1]
               /\ g.port = GetPort(obj)
               /\ g.pwd = Written(GetString(obj, ServerSect, <<PwdKey>>))
               /\ g.autorun = GetFlag(obj, <<AutoKey>>)
               /\ g.manual = GetFlag(obj, <<ManualKey>>)
  BY DEF FieldsOf, IpKey, PwdKey, AutoKey, ManualKey

\* The port shown is a text the field can hold.
LEMMA PortsAreShown ==
    /\ DefaultPort \in PortText
    /\ \A t \in PortText : t # NoText => PortShown[t] \in PortText
  BY DialogAssumption

\* The boxes are always on or off.
LEMMA InFields ==
    ASSUME NEW obj, FieldsOf(obj).ip \in IpText, FieldsOf(obj).port \in PortText,
           FieldsOf(obj).pwd \in Password
    PROVE  FieldsOf(obj) \in Fields
<1> DEFINE g == FieldsOf(obj)
<1>1. g = [ip |-> g.ip, port |-> g.port, pwd |-> g.pwd, autorun |-> g.autorun, manual |-> g.manual]
  BY FieldsParts
<1>2. g.autorun \in BOOLEAN /\ g.manual \in BOOLEAN
  BY FieldsParts DEF GetFlag
<1>3. g.ip \in IpText /\ g.port \in PortText /\ g.pwd \in Password
  OBVIOUS
<1> HIDE DEF g
<1>4. g \in Fields
  BY <1>1, <1>2, <1>3 DEF Fields
<1> QED
  BY <1>4 DEF g

\* They are off without a section "Misc".
LEMMA NoFlags ==
    ASSUME NEW obj, \A key : GetString(obj, MiscSect, key) = Null
    PROVE  FieldsOf(obj).autorun = FALSE /\ FieldsOf(obj).manual = FALSE
<1>1. GetFlag(obj, <<AutoKey>>) = FALSE /\ GetFlag(obj, <<ManualKey>>) = FALSE
  BY DEF GetFlag
<1> QED
  BY <1>1, FieldsParts

\* What is shown of an empty object is what the controls can hold.
LEMMA ReadOfDefaults == FieldsOf(<<>>) \in Fields
<1> DEFINE obj == <<>>
<1>1. /\ GetString(obj, ServerSect, <<IpKey>>) = Null /\ GetString(obj, ServerSect, <<PortKey>>) = Null
      /\ GetString(obj, ServerSect, <<PwdKey>>) = Null
  BY ReadOfNothing
<1> HIDE DEF obj
<1>2. GetPort(obj) = DefaultPort
  BY <1>1 DEF GetPort, PortKey
<1>3. FieldsOf(obj).ip = AnyIp /\ FieldsOf(obj).port = DefaultPort /\ FieldsOf(obj).pwd = <<>>
  BY <1>1, <1>2, FieldsParts DEF Written
<1>4. FieldsOf(obj).ip \in IpText /\ FieldsOf(obj).port \in PortText /\ FieldsOf(obj).pwd \in Password
  BY <1>3, PortsAreShown, DialogAssumption
<1> QED
  BY <1>4, InFields DEF obj

\* What is shown of each of the others.
LEMMA ReadOfIp ==
    ASSUME NEW f \in Fields
    PROVE  LET g == FieldsOf(IpRead(<<f.ip>>))
           IN  /\ g.ip = f.ip /\ g.port = DefaultPort /\ g.pwd = <<>>
               /\ g.autorun = FALSE /\ g.manual = FALSE
<1> DEFINE i == <<f.ip>>
           q == Pair(IpKey, i, Null)
           l == <<q>>
           obj == IpRead(i)
<1>1. i # Null /\ i[1] = f.ip
  BY FieldValues
<1>2. q.key = <<IpKey>> /\ q.val = i
  BY PairKeys, PairValue
<1>3. obj = One(l)
  BY DEF IpRead
<1> HIDE DEF i, q
<1>4. l \in Seq({q}) /\ Len(l) = 1 /\ l[1] = q
  OBVIOUS
<1> HIDE DEF l, obj
<1>5. GetString(obj, ServerSect, <<IpKey>>) = i
  <2>1. 1 \in 1 .. Len(l) /\ l[1].key = <<IpKey>> /\ \A j \in 1 .. 1 - 1 : l[j].key # <<IpKey>>
    BY <1>2, <1>4
  <2>2. GetString(One(l), ServerSect, <<IpKey>>) = l[1].val
    BY <1>4, <2>1, ReadOfOne
  <2> QED
    BY <1>2, <1>3, <1>4, <2>2
<1>6. GetString(obj, ServerSect, <<PortKey>>) = Null
  <2>1. \A j \in 1 .. Len(l) : l[j].key # <<PortKey>>
    BY <1>2, <1>4, KeysDiffer
  <2> QED
    BY <1>3, <1>4, <2>1, ReadOfOne
<1>7. GetString(obj, ServerSect, <<PwdKey>>) = Null
  <2>1. \A j \in 1 .. Len(l) : l[j].key # <<PwdKey>>
    BY <1>2, <1>4, KeysDiffer
  <2> QED
    BY <1>3, <1>4, <2>1, ReadOfOne
<1>8. \A key : GetString(obj, MiscSect, key) = Null
  BY <1>3, <1>4, ReadOfOne
<1>9. GetPort(obj) = DefaultPort
  BY <1>6 DEF GetPort, PortKey
<1> QED
  <2>1. FieldsOf(obj).ip = f.ip /\ FieldsOf(obj).port = DefaultPort /\ FieldsOf(obj).pwd = <<>>
    BY <1>1, <1>5, <1>7, <1>9, FieldsParts DEF Written
  <2>2. FieldsOf(obj).autorun = FALSE /\ FieldsOf(obj).manual = FALSE
    BY <1>8, NoFlags
  <2> QED
    BY <2>1, <2>2 DEF obj, i

LEMMA ReadOfPort ==
    ASSUME NEW f \in Fields, f.port # NoText
    PROVE  LET g == FieldsOf(PortRead(<<f.ip>>, <<f.port>>))
           IN  /\ g.ip = f.ip /\ g.port = PortShown[f.port] /\ g.pwd = <<>>
               /\ g.autorun = FALSE /\ g.manual = FALSE
<1> DEFINE i == <<f.ip>>
           p == <<f.port>>
           q == Pair(IpKey, i, Null)
           r == Pair(PortKey, p, Null)
           l == <<q, r>>
           obj == PortRead(i, p)
<1>1. i # Null /\ i[1] = f.ip /\ p # Null /\ p[1] = f.port /\ p # <<>>
  <2>1. PortString(f.port) = p
    BY DEF PortString
  <2> QED
    BY <2>1, FieldValues
<1>2. q.key = <<IpKey>> /\ q.val = i /\ r.key = <<PortKey>> /\ r.val = p
  BY PairKeys, PairValue
<1>3. obj = One(l)
  BY DEF PortRead
<1> HIDE DEF i, p, q, r
<1>4. l \in Seq({q, r}) /\ Len(l) = 2 /\ l[1] = q /\ l[2] = r /\ \A j \in 1 .. 2 : j = 1 \/ j = 2
  OBVIOUS
<1> HIDE DEF l, obj
<1>5. GetString(obj, ServerSect, <<IpKey>>) = i
  <2>1. 1 \in 1 .. Len(l) /\ l[1].key = <<IpKey>> /\ \A j \in 1 .. 1 - 1 : l[j].key # <<IpKey>>
    BY <1>2, <1>4
  <2>2. GetString(One(l), ServerSect, <<IpKey>>) = l[1].val
    BY <1>4, <2>1, ReadOfOne
  <2> QED
    BY <1>2, <1>3, <1>4, <2>2
<1>6. GetString(obj, ServerSect, <<PortKey>>) = p
  <2>1. 2 \in 1 .. Len(l) /\ l[2].key = <<PortKey>> /\ \A j \in 1 .. 2 - 1 : l[j].key # <<PortKey>>
    <3>1. \A j \in 1 .. 2 - 1 : j = 1
      OBVIOUS
    <3> QED
      BY <1>2, <1>4, <3>1, KeysDiffer
  <2>2. GetString(One(l), ServerSect, <<PortKey>>) = l[2].val
    BY <1>4, <2>1, ReadOfOne
  <2> QED
    BY <1>2, <1>3, <1>4, <2>2
<1>7. GetString(obj, ServerSect, <<PwdKey>>) = Null
  <2>1. \A j \in 1 .. Len(l) : l[j].key # <<PwdKey>>
    BY <1>2, <1>4, KeysDiffer
  <2> QED
    BY <1>3, <1>4, <2>1, ReadOfOne
<1>8. \A key : GetString(obj, MiscSect, key) = Null
  BY <1>3, <1>4, ReadOfOne
<1>9. GetPort(obj) = PortShown[f.port]
  BY <1>1, <1>6 DEF GetPort, PortKey
<1> QED
  <2>1. FieldsOf(obj).ip = f.ip /\ FieldsOf(obj).port = PortShown[f.port] /\ FieldsOf(obj).pwd = <<>>
    BY <1>1, <1>5, <1>7, <1>9, FieldsParts DEF Written
  <2>2. FieldsOf(obj).autorun = FALSE /\ FieldsOf(obj).manual = FALSE
    BY <1>8, NoFlags
  <2> QED
    BY <2>1, <2>2 DEF obj, i, p

\* A flag is read back as it was written.
LEMMA FlagIs ==
    ASSUME NEW obj, NEW key, NEW b \in BOOLEAN, GetString(obj, MiscSect, key) = Flag(b)
    PROVE  GetFlag(obj, key) = b
<1>1. Null # <<"1">> /\ <<"1">> # <<"0">> /\ <<"1">> # <<>>
  BY TextAssumption
<1>2. CASE b = TRUE
  BY <1>1, <1>2 DEF GetFlag, Flag
<1>3. CASE b = FALSE
  BY <1>3 DEF GetFlag, Flag
<1> QED
  BY <1>2, <1>3

\* An object that was loaded whole shows all the fields, the password as it was
\* read.
LEMMA ReadOfAll ==
    ASSUME NEW f \in Fields, f.port # NoText, NEW w, NEW c
    PROVE  LET g == FieldsOf(AllRead(<<f.ip>>, <<f.port>>, w, c, Flag(f.autorun), Flag(f.manual)))
           IN  /\ g.ip = f.ip /\ g.port = PortShown[f.port] /\ g.pwd = Written(w)
               /\ g.autorun = f.autorun /\ g.manual = f.manual
<1> DEFINE i == <<f.ip>>
           p == <<f.port>>
           x == Flag(f.autorun)
           y == Flag(f.manual)
           q == Pair(IpKey, i, Null)
           r == Pair(PortKey, p, Null)
           s == Pair(PwdKey, w, c)
           u == Pair(AutoKey, x, Null)
           v == Pair(ManualKey, y, Null)
           l == <<q, r, s>>
           m == <<u, v>>
           T == {q, r, s, u, v}
           obj == AllRead(i, p, w, c, x, y)
<1>1. i # Null /\ i[1] = f.ip /\ p # Null /\ p[1] = f.port /\ p # <<>>
  <2>1. PortString(f.port) = p
    BY DEF PortString
  <2> QED
    BY <2>1, FieldValues
<1>2. /\ q.key = <<IpKey>> /\ q.val = i /\ r.key = <<PortKey>> /\ r.val = p
      /\ s.key = <<PwdKey>> /\ s.val = w /\ u.key = <<AutoKey>> /\ u.val = x
      /\ v.key = <<ManualKey>> /\ v.val = y
  BY PairKeys, PairValue
<1>3. obj = Two(l, m)
  BY DEF AllRead, ServerPairs, MiscPairs
<1> HIDE DEF i, p, q, r, s, u, v, x, y
<1>4. /\ l \in Seq(T) /\ Len(l) = 3 /\ l[1] = q /\ l[2] = r /\ l[3] = s
      /\ m \in Seq(T) /\ Len(m) = 2 /\ m[1] = u /\ m[2] = v
  OBVIOUS
<1> HIDE DEF l, m, T, obj
<1>12. l \in Seq(T) /\ m \in Seq(T)
  BY <1>4
<1>13. \A key : \A n \in 1 .. Len(l) :
             l[n].key = key /\ (\A j \in 1 .. n - 1 : l[j].key # key)
               => GetString(Two(l, m), ServerSect, key) = l[n].val
  BY <1>12, ReadOfServer, SMTT(30)
<1>14. \A key : \A n \in 1 .. Len(m) :
             m[n].key = key /\ (\A j \in 1 .. n - 1 : m[j].key # key)
               => GetString(Two(l, m), MiscSect, key) = m[n].val
  BY <1>12, ReadOfMisc, SMTT(30)
<1>5. GetString(obj, ServerSect, <<IpKey>>) = i
  <2>1. 1 \in 1 .. Len(l) /\ l[1].key = <<IpKey>> /\ \A j \in 1 .. 1 - 1 : l[j].key # <<IpKey>>
    BY <1>2, <1>4
  <2>3. GetString(Two(l, m), ServerSect, <<IpKey>>) = l[1].val
    BY <1>13, <2>1
  <2> QED
    BY <1>2, <1>3, <1>4, <2>3
<1>6. GetString(obj, ServerSect, <<PortKey>>) = p
  <2>1. 2 \in 1 .. Len(l) /\ l[2].key = <<PortKey>> /\ \A j \in 1 .. 2 - 1 : l[j].key # <<PortKey>>
    <3>1. \A j \in 1 .. 2 - 1 : j = 1
      OBVIOUS
    <3> QED
      BY <1>2, <1>4, <3>1, KeysDiffer
  <2>3. GetString(Two(l, m), ServerSect, <<PortKey>>) = l[2].val
    BY <1>13, <2>1
  <2> QED
    BY <1>2, <1>3, <1>4, <2>3
<1>7. GetString(obj, ServerSect, <<PwdKey>>) = w
  <2>1. 3 \in 1 .. Len(l) /\ l[3].key = <<PwdKey>> /\ \A j \in 1 .. 3 - 1 : l[j].key # <<PwdKey>>
    <3>1. \A j \in 1 .. 3 - 1 : j = 1 \/ j = 2
      OBVIOUS
    <3> QED
      BY <1>2, <1>4, <3>1, KeysDiffer
  <2>3. GetString(Two(l, m), ServerSect, <<PwdKey>>) = l[3].val
    BY <1>13, <2>1
  <2> QED
    BY <1>2, <1>3, <1>4, <2>3
<1>8. GetString(obj, MiscSect, <<AutoKey>>) = x
  <2>1. 1 \in 1 .. Len(m) /\ m[1].key = <<AutoKey>> /\ \A j \in 1 .. 1 - 1 : m[j].key # <<AutoKey>>
    BY <1>2, <1>4
  <2>3. GetString(Two(l, m), MiscSect, <<AutoKey>>) = m[1].val
    BY <1>14, <2>1
  <2> QED
    BY <1>2, <1>3, <1>4, <2>3
<1>9. GetString(obj, MiscSect, <<ManualKey>>) = y
  <2>1. 2 \in 1 .. Len(m) /\ m[2].key = <<ManualKey>> /\ \A j \in 1 .. 2 - 1 : m[j].key # <<ManualKey>>
    <3>1. \A j \in 1 .. 2 - 1 : j = 1
      OBVIOUS
    <3> QED
      BY <1>2, <1>4, <3>1, KeysDiffer
  <2>3. GetString(Two(l, m), MiscSect, <<ManualKey>>) = m[2].val
    BY <1>14, <2>1
  <2> QED
    BY <1>2, <1>3, <1>4, <2>3
<1>10. GetPort(obj) = PortShown[f.port]
  BY <1>1, <1>6 DEF GetPort, PortKey
<1>11. GetFlag(obj, <<AutoKey>>) = f.autorun /\ GetFlag(obj, <<ManualKey>>) = f.manual
  <2>1. f.autorun \in BOOLEAN /\ f.manual \in BOOLEAN
    BY DEF Fields
  <2> QED
    BY <1>8, <1>9, <2>1, FlagIs DEF x, y
<1> QED
  <2>1. FieldsOf(obj).ip = f.ip /\ FieldsOf(obj).port = PortShown[f.port] /\ FieldsOf(obj).pwd = Written(w)
    BY <1>1, <1>5, <1>7, <1>10, FieldsParts
  <2>2. FieldsOf(obj).autorun = f.autorun /\ FieldsOf(obj).manual = f.manual
    BY <1>11, FieldsParts
  <2> QED
    BY <2>1, <2>2 DEF obj, i, p, x, y

-----------------------------------------------------------------------------
(* What was saved is shown again.                                           *)

\* What is read of a password is shown as it is.
LEMMA PasswordRead ==
    ASSUME NEW p \in Password
    PROVE  LET v == ValueOf(Append(p, Blank))
           IN  Written(OrNull(v)) = v /\ v \in Password
<1> DEFINE v == ValueOf(Append(p, Blank))
<1>1. v \in Password /\ Null \notin Password
  BY TextAssumption
<1> HIDE DEF v
<1>2. v # Null
  BY <1>1
<1>3. Written(OrNull(v)) = v
  BY <1>2 DEF Written, OrNull
<1> QED
  BY <1>1, <1>3 DEF v

\* The line of no password fits.
LEMMA EmptyFits == Fits(<<>>)
<1>1. Len(<<>>) = 0 /\ MaxLine \in Nat /\ MaxLine > 4
  BY TextAssumption
<1> QED
  BY <1>1 DEF Fits

\* What is loaded of a file of the fields f shows of them what ComesBack says.
LEMMA ShownAgain ==
    ASSUME NEW f \in Fields
    PROVE  FieldsOf(LoadedOf(f)) \in Fields /\ ComesBack(f, FieldsOf(LoadedOf(f)))
<1> DEFINE g == FieldsOf(LoadedOf(f))
<1>1. f.ip \in IpText /\ f.port \in PortText /\ f.pwd \in Password /\ <<>> \in Password
      /\ f.autorun \in BOOLEAN /\ f.manual \in BOOLEAN
  BY DialogAssumption DEF Fields
<1>2. CASE f.port = NoText
  <2>1. LoadedOf(f) = IpRead(<<f.ip>>)
    BY <1>2 DEF LoadedOf
  <2>2. g.ip = f.ip /\ g.port = DefaultPort /\ g.pwd = <<>> /\ g.autorun = FALSE /\ g.manual = FALSE
    BY <2>1, ReadOfIp
  <2>3. g.ip \in IpText /\ g.port \in PortText /\ g.pwd \in Password
    BY <1>1, <2>2, PortsAreShown
  <2>4. g \in Fields
    BY <2>3, InFields
  <2> HIDE DEF g
  <2>5. ComesBack(f, g)
    BY <1>2, <2>2 DEF ComesBack
  <2> QED
    BY <2>4, <2>5 DEF g
<1>3. CASE f.port # NoText /\ (f.pwd = <<>> \/ ~Fits(f.pwd))
  <2>1. LoadedOf(f) = PortRead(<<f.ip>>, <<f.port>>)
    BY <1>3 DEF LoadedOf
  <2>2. g.ip = f.ip /\ g.port = PortShown[f.port] /\ g.pwd = <<>> /\ g.autorun = FALSE /\ g.manual = FALSE
    BY <1>3, <2>1, ReadOfPort
  <2>3. g.ip \in IpText /\ g.port \in PortText /\ g.pwd \in Password
    BY <1>1, <1>3, <2>2, PortsAreShown
  <2>4. g \in Fields
    BY <2>3, InFields
  <2>5. f.pwd = <<>> => Fits(f.pwd) /\ Remembered(f.pwd)
    BY EmptyFits DEF Remembered
  <2> HIDE DEF g
  <2>6. ComesBack(f, g)
    BY <1>3, <2>2, <2>5 DEF ComesBack
  <2> QED
    BY <2>4, <2>6 DEF g
<1>4. CASE f.port # NoText /\ f.pwd # <<>> /\ Fits(f.pwd)
  <2> DEFINE v == ValueOf(Append(f.pwd, Blank))
  <2>1. LoadedOf(f) = AllRead(<<f.ip>>, <<f.port>>, OrNull(v), OrNull(CommentFrom(Append(f.pwd, Blank), 1)),
                              Flag(f.autorun), Flag(f.manual))
    BY <1>4 DEF LoadedOf
  <2>2. v \in Password /\ Written(OrNull(v)) = v
    BY <1>1, PasswordRead
  <2>3. PICK S : f.pwd \in Seq(S)
    BY <1>1, TextAssumption
  <2>4. v = f.pwd <=> Remembered(f.pwd)
    BY <1>4, <2>3, PasswordComesBack
  <2> HIDE DEF v
  <2>5. g.ip = f.ip /\ g.port = PortShown[f.port] /\ g.pwd = v
        /\ g.autorun = f.autorun /\ g.manual = f.manual
    BY <1>4, <2>1, <2>2, ReadOfAll
  <2>6. g.ip \in IpText /\ g.port \in PortText /\ g.pwd \in Password
    BY <1>1, <1>4, <2>2, <2>5, PortsAreShown
  <2>7. g \in Fields
    BY <2>6, InFields
  <2> HIDE DEF g
  <2>8. ComesBack(f, g)
    BY <1>1, <1>4, <2>4, <2>5 DEF ComesBack
  <2> QED
    BY <2>7, <2>8 DEF g
<1> QED
  BY <1>2, <1>3, <1>4

\* And it is loaded of the text of the fields.
LEMMA TextIsLines ==
    ASSUME NEW f \in Fields
    PROVE  LoadObjectFromString(TextOf(f)) = LoadedOf(f) /\ TextOf(f) # <<>>
<1>2. LinesOf(TextOf(f), f)
  BY TextLines
<1>3. DOMAIN TextOf(f) = 1 .. 9
  BY <1>2 DEF LinesOf
<1>4. TextOf(f) # <<>>
  <2>1. 1 \in 1 .. 9 /\ DOMAIN <<>> = {}
    OBVIOUS
  <2> QED
    BY <1>3, <2>1
<1> QED
  BY <1>2, <1>4, Loaded

\* An empty file is an empty object.
LEMMA NothingLoaded == LoadObjectFromString(<<>>) = <<>>
<1> DEFINE t == <<>>
<1>1. DOMAIN t = 1 .. 0 /\ 0 \in Nat
  OBVIOUS
<1> HIDE DEF t
<1>2. PICK h : h[0] = On(<<>>, 0) /\ LoadObjectFromString(t) = h[0].obj
  BY <1>1, HandleLines
<1>3. \A obj, last : On(obj, last).obj = obj
  BY DEF On
<1> QED
  BY <1>2, <1>3 DEF t

\* Fields as they are saved: with an address inet_addr reads.
LEMMA KeptFields ==
    ASSUME NEW f \in Fields
    PROVE  /\ Kept(f) \in Fields /\ Kept(f).ip # NoneIp
           /\ f.ip # NoneIp => Kept(f) = f
           /\ f.ip = NoneIp => Kept(f) = [f EXCEPT !.ip = AnyIp]
<1>1. AnyIp \in IpText /\ AnyIp # NoneIp
  BY DialogAssumption
<1> QED
  BY <1>1 DEF Kept, Fields

\* save_config on an empty object.
LEMMA ConfiguredEmpty ==
    ASSUME NEW f
    PROVE  Configured(<<>>, f) = ObjOf(Kept(f))
  BY SettingsEmpty DEF Configured

\* On what was loaded, or was configured before, it makes what it makes of an
\* empty one.
LEMMA ConfiguredAgain ==
    ASSUME NEW f \in Fields, NEW g
    PROVE  Configured(LoadedOf(f), g) = ObjOf(Kept(g)) /\ Configured(ObjOf(f), g) = ObjOf(Kept(g))
<1>1. Configured(LoadedOf(f), g) = ObjOf(Kept(g))
  BY SettingsIp, SettingsPort, SettingsAll DEF LoadedOf, Configured
<1>2. ObjOf(f) = AllRead(<<f.ip>>, PortString(f.port), f.pwd, Null, Flag(f.autorun), Flag(f.manual))
  BY DEF ObjOf, AllRead
<1> QED
  BY <1>1, <1>2, SettingsAll DEF Configured

-----------------------------------------------------------------------------
(* The controls and the server.                                             *)

\* An address field that takes input while the server runs was enabled by the
\* box, and a stopped server leaves nothing behind.
SinceStart ==
    /\ started /\ enabled.ip => toggled
    /\ ~started => srv = NoServer

\* Without the tray nothing is served and nobody quits.
NoServerWithoutTray == process \in {"dead", "lost"} => ~started /\ quitting = "no"

\* The server was stopped before the file was opened.
QuitHasStopped == quitting # "no" => process \in {"init", "loop", "over"} /\ ~started

\* What holds of the controls and the server in every state.
DialogInv ==
    /\ TypeOK
    /\ ShowsWhatIsServed
    /\ SinceStart
    /\ NoServerWithoutTray
    /\ QuitHasStopped

\* The types of what the dialog shows and serves.
ControlsOK ==
    /\ fields \in Fields
    /\ enabled \in [ip : BOOLEAN, port : BOOLEAN, pwd : BOOLEAN, start : BOOLEAN, stop : BOOLEAN]
    /\ started \in BOOLEAN
    /\ srv \in [open : BOOLEAN, ip : IpText, port : 0 .. UShort - 1, pwd : Password]
    /\ toggled \in BOOLEAN

\* The types of the fields.
LEMMA FieldsTypes ==
    ASSUME NEW f \in Fields
    PROVE  /\ f.ip \in IpText /\ f.port \in PortText /\ f.pwd \in Password
           /\ f.manual \in BOOLEAN /\ f.autorun \in BOOLEAN
  BY DEF Fields

\* A server is bound to what the fields show.
LEMMA BoundType ==
    ASSUME NEW f \in Fields
    PROVE  /\ Bound(f) \in [open : BOOLEAN, ip : IpText, port : 0 .. UShort - 1, pwd : Password]
           /\ Bound(f).open = TRUE /\ Bound(f).pwd = f.pwd /\ Bound(f).port = Number[f.port] % UShort
           /\ Bound(f).ip = IF f.manual THEN f.ip ELSE AnyIp
<1>1. f.ip \in IpText /\ f.port \in PortText /\ f.pwd \in Password /\ f.manual \in BOOLEAN
  BY FieldsTypes
<1>2. AnyIp \in IpText /\ Number[f.port] \in Int
  BY <1>1, DialogAssumption
<1>3. Number[f.port] % UShort \in 0 .. UShort - 1
  <2>1. UShort \in Nat /\ UShort > 0
    BY DEF UShort
  <2> QED
    BY <1>2, <2>1
<1> QED
  BY <1>1, <1>2, <1>3 DEF Bound

\* No server is a server's type.
LEMMA NoServerType == NoServer \in [open : BOOLEAN, ip : IpText, port : 0 .. UShort - 1, pwd : Password]
<1>1. AnyIp \in IpText /\ <<>> \in Password
  BY DialogAssumption
<1>2. 0 \in 0 .. UShort - 1
  BY DEF UShort
<1> QED
  BY <1>1, <1>2 DEF NoServer

\* The controls of a window that is new.
LEMMA EnabledAtFirstType ==
    ASSUME NEW f \in Fields
    PROVE  LET e == EnabledAtFirst(f)
           IN  /\ e \in [ip : BOOLEAN, port : BOOLEAN, pwd : BOOLEAN, start : BOOLEAN, stop : BOOLEAN]
               /\ e.ip = f.manual /\ e.port = TRUE /\ e.pwd = TRUE /\ e.start = TRUE /\ e.stop = FALSE
<1>1. f.manual \in BOOLEAN
  BY FieldsTypes
<1> QED
  BY <1>1 DEF EnabledAtFirst

\* A start that succeeds shows what is served.
LEMMA StartedShows ==
    ASSUME NEW f \in Fields, NEW e, fields' = f, StartSucceeds(f, e),
           e \in [ip : BOOLEAN, port : BOOLEAN, pwd : BOOLEAN, start : BOOLEAN, stop : BOOLEAN]
    PROVE  ControlsOK' /\ ShowsWhatIsServed' /\ SinceStart'
<1>1. srv' = Bound(f) /\ started' = TRUE /\ toggled' = FALSE
  BY DEF StartSucceeds
<1>2. /\ enabled' \in [ip : BOOLEAN, port : BOOLEAN, pwd : BOOLEAN, start : BOOLEAN, stop : BOOLEAN]
      /\ enabled'.ip = FALSE /\ enabled'.port = FALSE /\ enabled'.pwd = FALSE
      /\ enabled'.start = FALSE /\ enabled'.stop = TRUE
  BY DEF StartSucceeds
<1>3. ControlsOK'
  BY <1>1, <1>2, BoundType DEF ControlsOK
<1> QED
  BY <1>1, <1>2, <1>3, BoundType DEF ShowsWhatIsServed, SinceStart

\* A window that is new shows that nothing is.
LEMMA IdleShows ==
    ASSUME fields' \in Fields, enabled' = EnabledAtFirst(fields'), started' = FALSE, srv' = NoServer,
           toggled' \in BOOLEAN
    PROVE  ControlsOK' /\ ShowsWhatIsServed' /\ SinceStart'
<1>1. fields'.manual \in BOOLEAN
  BY FieldsTypes
<1>2. srv'.open = FALSE
  BY DEF NoServer
<1>3. ControlsOK'
  BY EnabledAtFirstType, NoServerType DEF ControlsOK
<1> QED
  BY <1>1, <1>2, <1>3, EnabledAtFirstType DEF ShowsWhatIsServed, SinceStart

\* A stop shows it too, whether it stopped anything or not.
LEMMA StoppedShows ==
    ASSUME ControlsOK, ShowsWhatIsServed, SinceStart, Stop, UNCHANGED fields
    PROVE  ControlsOK' /\ ShowsWhatIsServed' /\ SinceStart' /\ started' = FALSE
<1>1. CASE ~started
  <2>1. UNCHANGED <<srv, started, toggled, enabled, fields>>
    BY <1>1 DEF Stop, serverVars
  <2> QED
    BY <1>1, <2>1 DEF ControlsOK, ShowsWhatIsServed, SinceStart
<1>2. CASE started
  <2>1. srv' = NoServer /\ started' = FALSE /\ enabled' = Stopped(enabled) /\ toggled' = toggled
    BY <1>2 DEF Stop
  <2>2. fields.manual \in BOOLEAN /\ enabled.ip \in BOOLEAN /\ (enabled.ip => fields.manual)
    BY FieldsTypes DEF ControlsOK, ShowsWhatIsServed
  <2>3. /\ enabled' \in [ip : BOOLEAN, port : BOOLEAN, pwd : BOOLEAN, start : BOOLEAN, stop : BOOLEAN]
        /\ enabled'.ip = (enabled.ip \/ fields.manual) /\ enabled'.port = TRUE /\ enabled'.pwd = TRUE
        /\ enabled'.start = TRUE /\ enabled'.stop = FALSE
    BY <2>1, <2>2 DEF ControlsOK, Stopped
  <2>4. enabled'.ip = fields'.manual
    BY <2>2, <2>3
  <2>5. srv'.open = FALSE
    BY <2>1 DEF NoServer
  <2>6. ControlsOK'
    BY <2>1, <2>3, NoServerType DEF ControlsOK
  <2> QED
    BY <2>1, <2>3, <2>4, <2>5, <2>6 DEF ShowsWhatIsServed, SinceStart
<1> QED
  BY <1>1, <1>2

\* A step that touches none of it changes nothing.
LEMMA SameShows ==
    ASSUME ControlsOK, ShowsWhatIsServed, SinceStart, UNCHANGED <<fields, enabled, serverVars>>
    PROVE  ControlsOK' /\ ShowsWhatIsServed' /\ SinceStart'
  BY DEF ControlsOK, ShowsWhatIsServed, SinceStart, serverVars

\* A start does, whether it succeeds, fails, or finds the server started.
LEMMA StartShows ==
    ASSUME ControlsOK, ShowsWhatIsServed, SinceStart, Start, UNCHANGED fields
    PROVE  ControlsOK' /\ ShowsWhatIsServed' /\ SinceStart'
<1>1. CASE UNCHANGED <<fields, enabled, serverVars>>
  BY <1>1, SameShows
<1>2. CASE StartSucceeds(fields, enabled)
  BY <1>2, StartedShows DEF ControlsOK
<1> QED
  BY <1>1, <1>2 DEF Start, StartFails

\* The rest of what DialogInv says.
RestOK ==
    /\ process \in {"dead", "init", "loop", "over", "lost"}
    /\ quitting \in {"no", "opened", "not opened"}
    /\ boxes \in Seq({"failed", "about"})
    /\ window \in [hide : BOOLEAN, visible : BOOLEAN]
    /\ link \in BOOLEAN
    /\ edits \in 0 .. MaxEdits
    /\ NoServerWithoutTray
    /\ QuitHasStopped

\* The invariant, in the two parts that a step disturbs.
LEMMA InvParts == DialogInv <=> ControlsOK /\ ShowsWhatIsServed /\ SinceStart /\ RestOK
  BY DEF DialogInv, TypeOK, ControlsOK, RestOK

\* The end of the process sets everything to what it was at first.
LEMMA GoneKeeps ==
    ASSUME Gone, UNCHANGED link, link \in BOOLEAN
    PROVE  DialogInv'
<1>1. Blank0 \in Fields
  BY ReadOfDefaults DEF Blank0
<1>2. ControlsOK' /\ ShowsWhatIsServed' /\ SinceStart'
  BY <1>1, IdleShows DEF Gone
<1>3. 0 \in 0 .. MaxEdits
  BY DialogAssumption
<1>4. NoWindow \in [hide : BOOLEAN, visible : BOOLEAN] /\ <<>> \in Seq({"failed", "about"})
  BY DEF NoWindow
<1>5. RestOK'
  BY <1>3, <1>4 DEF Gone, RestOK, NoServerWithoutTray, QuitHasStopped
<1> QED
  BY <1>2, <1>5, InvParts DEF DialogInv, TypeOK, ControlsOK, RestOK

-----------------------------------------------------------------------------
(* The settings, and what a step does to the controls and the server.       *)

\* The file is not there, is empty, or is a file save_config wrote.
FileIsSaved == file \in {NoFile, <<>>} \cup {TextOf(f) : f \in {g \in Fields : g.ip # NoneIp}}

\* Whatever m_cfg holds, save_config replaces all of it.
ConfigIsReplaced == \A f \in Fields : Configured(cfg, f) = Configured(<<>>, f)

\* From the opening of the file to its writing, m_cfg is what is shown.
ConfigIsShown == quitting # "no" => cfg = Configured(<<>>, fields)

\* What holds of the settings in every state.
SettingsInv == FileIsSaved /\ ConfigIsReplaced /\ ConfigIsShown

\* The inductive invariant.
ProgramInv == DialogInv /\ SettingsInv

\* A launch shows the fields of the file, and what it loads will be replaced.
LEMMA LaunchReads ==
    ASSUME FileIsSaved, Launch
    PROVE  /\ fields' \in Fields
           /\ \A f \in Fields : Configured(cfg', f) = Configured(<<>>, f)
           /\ IF file \in {NoFile, <<>>} THEN fields' = FieldsOf(<<>>)
              ELSE \E f \in Fields : f.ip # NoneIp /\ file = TextOf(f) /\ ComesBack(f, fields')
<1>1. cfg' = LoadConfig /\ fields' = FieldsOf(cfg')
  BY DEF Launch
<1>2. CASE file \in {NoFile, <<>>}
  <2>1. cfg' = <<>>
    BY <1>1, <1>2, NothingLoaded DEF LoadConfig
  <2>2. fields' = FieldsOf(<<>>)
    BY <1>1, <2>1
  <2>3. fields' \in Fields
    BY <2>2, ReadOfDefaults
  <2> QED
    BY <1>2, <2>1, <2>2, <2>3
<1>3. CASE file \notin {NoFile, <<>>}
  <2>1. PICK f \in Fields : f.ip # NoneIp /\ file = TextOf(f)
    BY <1>3 DEF FileIsSaved
  <2>2. cfg' = LoadedOf(f)
    BY <1>1, <1>3, <2>1, TextIsLines DEF LoadConfig
  <2>3. fields' \in Fields /\ ComesBack(f, fields')
    BY <1>1, <2>2, ShownAgain
  <2>4. \A g \in Fields : Configured(cfg', g) = Configured(<<>>, g)
    BY <2>2, ConfiguredAgain, ConfiguredEmpty
  <2> QED
    BY <1>3, <2>1, <2>3, <2>4
<1> QED
  BY <1>2, <1>3

\* The two parts make the invariant again.
LEMMA ProgramParts ==
    ASSUME ControlsOK', ShowsWhatIsServed', SinceStart', RestOK'
    PROVE  DialogInv'
  BY DEF DialogInv, TypeOK, ControlsOK, RestOK

\* What every edit leaves as it is.
LEMMA EditKeeps ==
    ASSUME RestOK, Edit, link' \in BOOLEAN
    PROVE  RestOK'
<1>1. /\ UNCHANGED <<process, quitting, boxes, window, started>>
      /\ edits < MaxEdits /\ edits' = edits + 1 /\ process = "loop" /\ quitting = "no"
  BY DEF Edit, WindowWorks
<1>2. edits' \in 0 .. MaxEdits
  BY <1>1, DialogAssumption DEF RestOK
<1> QED
  BY <1>1, <1>2 DEF RestOK, NoServerWithoutTray, QuitHasStopped

\* One more box.
LEMMA BoxShown ==
    ASSUME NEW b \in Seq({"failed", "about"})
    PROVE  Append(b, "failed") \in Seq({"failed", "about"})
<1> DEFINE S == {"failed", "about"}
           x == "failed"
<1>1. x \in S /\ b \in Seq(S)
  OBVIOUS
<1> HIDE DEF S, x
<1>2. Append(b, x) \in Seq(S)
  BY <1>1
<1> QED
  BY <1>2 DEF S, x

\* A launch keeps the invariant of the controls, the server started or not.
LEMMA LaunchKeeps ==
    ASSUME ProgramInv, Launch
    PROVE  DialogInv'
<1>1. fields' \in Fields
  BY LaunchReads DEF ProgramInv, SettingsInv
<1>2. ControlsOK /\ ShowsWhatIsServed /\ SinceStart /\ RestOK
  BY InvParts DEF ProgramInv
<1>3. Hidden \in [hide : BOOLEAN, visible : BOOLEAN] /\ NoWindow \in [hide : BOOLEAN, visible : BOOLEAN]
  BY DEF Hidden, NoWindow
<1>4. process = "dead" /\ ~started /\ quitting = "no" /\ UNCHANGED <<quitting, file, link, edits>>
  BY <1>2 DEF Launch, RestOK, NoServerWithoutTray
<1>5. CASE StartSucceeds(fields', EnabledAtFirst(fields')) /\ process' = "loop" /\ window' = Hidden
  <2>1. ControlsOK' /\ ShowsWhatIsServed' /\ SinceStart'
    BY <1>1, <1>5, EnabledAtFirstType, StartedShows
  <2>2. boxes' = boxes
    BY <1>5 DEF StartSucceeds
  <2>3. RestOK'
    BY <1>2, <1>3, <1>4, <1>5, <2>2 DEF RestOK, NoServerWithoutTray, QuitHasStopped
  <2> QED
    BY <2>1, <2>3, ProgramParts
<1>6. CASE StartFails(EnabledAtFirst(fields')) /\ process' = "init" /\ window' = NoWindow
  <2>1. enabled' = EnabledAtFirst(fields') /\ boxes' = Append(boxes, "failed") /\ UNCHANGED <<started, srv, toggled>>
    BY <1>6 DEF StartFails, serverVars
  <2>2. started' = FALSE /\ srv'.open = FALSE /\ ControlsOK'
    <3>1. ControlsOK'
      BY <1>1, <1>2, <2>1, EnabledAtFirstType DEF ControlsOK
    <3> QED
      BY <1>2, <1>4, <2>1, <3>1 DEF ControlsOK, ShowsWhatIsServed
  <2>3. ShowsWhatIsServed' /\ SinceStart'
    <3>1. fields'.manual \in BOOLEAN
      BY <1>1, FieldsTypes
    <3> QED
      BY <1>1, <1>2, <1>4, <2>1, <2>2, <3>1, EnabledAtFirstType DEF ShowsWhatIsServed, SinceStart
  <2>4. RestOK'
    <3>1. boxes' \in Seq({"failed", "about"})
      BY <1>2, <2>1, BoxShown DEF RestOK
    <3> QED
      BY <1>2, <1>3, <1>4, <1>6, <2>2, <3>1 DEF RestOK, NoServerWithoutTray, QuitHasStopped
  <2> QED
    BY <2>2, <2>3, <2>4, ProgramParts
<1> QED
  BY <1>5, <1>6 DEF Launch

\* The tray's menu keeps it, under a box or not.
LEMMA TrayKeeps ==
    ASSUME DialogInv, Tray
    PROVE  DialogInv'
<1>1. ControlsOK /\ ShowsWhatIsServed /\ SinceStart /\ RestOK
  BY InvParts
<1>2. Hidden \in [hide : BOOLEAN, visible : BOOLEAN] /\ [hide |-> FALSE, visible |-> TRUE] \in [hide : BOOLEAN, visible : BOOLEAN]
  BY DEF Hidden
<1>3. CASE TrayStart
  <2>1. Start /\ TrayWorks /\ UNCHANGED <<process, quitting, window, fields, link, edits>>
    BY <1>3 DEF TrayStart
  <2>2. ControlsOK' /\ ShowsWhatIsServed' /\ SinceStart'
    BY <1>1, <2>1, StartShows
  <2>3. boxes' \in Seq({"failed", "about"})
    <3>1. boxes' = boxes \/ boxes' = Append(boxes, "failed")
      BY <2>1 DEF Start, StartSucceeds, StartFails
    <3> QED
      BY <1>1, <3>1, BoxShown DEF RestOK
  <2>4. RestOK'
    BY <1>1, <2>1, <2>3 DEF RestOK, NoServerWithoutTray, QuitHasStopped, TrayWorks
  <2> QED
    BY <2>2, <2>4, ProgramParts
<1>4. CASE TrayStop
  <2>1. Stop /\ TrayWorks /\ UNCHANGED <<process, quitting, boxes, window, fields, link, edits>>
    BY <1>4 DEF TrayStop
  <2>2. ControlsOK' /\ ShowsWhatIsServed' /\ SinceStart'
    BY <1>1, <2>1, StoppedShows
  <2>3. RestOK'
    BY <1>1, <2>1 DEF RestOK, NoServerWithoutTray, QuitHasStopped, TrayWorks
  <2> QED
    BY <2>2, <2>3, ProgramParts
<1>5. CASE ShowDlg \/ HideDlg
  <2>1. UNCHANGED <<process, quitting, boxes, fields, enabled, serverVars, link, edits>>
    BY <1>5 DEF ShowDlg, HideDlg
  <2>2. ControlsOK' /\ ShowsWhatIsServed' /\ SinceStart'
    BY <1>1, <2>1, SameShows
  <2>3. window' \in [hide : BOOLEAN, visible : BOOLEAN]
    BY <1>2, <1>5 DEF ShowDlg, HideDlg
  <2>4. RestOK'
    BY <1>1, <2>1, <2>3 DEF RestOK, NoServerWithoutTray, QuitHasStopped, serverVars
  <2> QED
    BY <2>2, <2>4, ProgramParts
<1>6. CASE OnQuit
  <2>1. Stop /\ TrayWorks /\ quitting' \in {"opened", "not opened"} /\ UNCHANGED <<process, boxes, window, fields, link, edits>>
    BY <1>6 DEF OnQuit
  <2>2. ControlsOK' /\ ShowsWhatIsServed' /\ SinceStart' /\ started' = FALSE
    BY <1>1, <2>1, StoppedShows
  <2>3. RestOK'
    BY <1>1, <2>1, <2>2 DEF RestOK, NoServerWithoutTray, QuitHasStopped, TrayWorks
  <2> QED
    BY <2>2, <2>3, ProgramParts
<1>7. CASE FinishQuit
  <2>1. EndDialog /\ quitting # "no" /\ link' = link
    BY <1>7 DEF FinishQuit
  <2>2. CASE process = "loop" /\ boxes = <<>>
    BY <1>1, <2>1, <2>2, GoneKeeps DEF EndDialog, RestOK
  <2>3. CASE ~(process = "loop" /\ boxes = <<>>)
    <3>1. /\ process' = (IF process = "loop" THEN "over" ELSE process)
          /\ window' = [window EXCEPT !.visible = FALSE] /\ quitting' = "no"
          /\ UNCHANGED <<boxes, fields, enabled, serverVars, edits>>
      BY <2>1, <2>3 DEF EndDialog
    <3>2. ControlsOK' /\ ShowsWhatIsServed' /\ SinceStart'
      BY <1>1, <3>1, SameShows
    <3>3. window' \in [hide : BOOLEAN, visible : BOOLEAN]
      BY <1>1, <3>1 DEF RestOK
    <3>4. process \in {"init", "loop", "over"}
      BY <1>1, <2>1 DEF RestOK, QuitHasStopped
    <3>5. RestOK'
      BY <1>1, <2>1, <3>1, <3>3, <3>4 DEF RestOK, NoServerWithoutTray, QuitHasStopped
    <3> QED
      BY <3>2, <3>5, ProgramParts
  <2> QED
    BY <2>2, <2>3
<1> QED
  BY <1>3, <1>4, <1>5, <1>6, <1>7 DEF Tray

\* The window keeps it.
LEMMA WindowKeeps ==
    ASSUME DialogInv, Window
    PROVE  DialogInv'
<1>1. ControlsOK /\ ShowsWhatIsServed /\ SinceStart /\ RestOK
  BY InvParts
<1>2. CASE OnButtonStart \/ OnButtonStop \/ OnOk
  BY <1>2, TrayKeeps DEF OnButtonStart, OnButtonStop, OnOk, Tray
<1>3. CASE Escape
  BY <1>1, <1>3, GoneKeeps DEF Escape, RestOK
<1>4. CASE OnAbout
  <2>1. boxes' = <<"about">> /\ UNCHANGED <<process, quitting, window, fields, enabled, serverVars, link, edits>>
    BY <1>4 DEF OnAbout
  <2>2. ControlsOK' /\ ShowsWhatIsServed' /\ SinceStart'
    BY <1>1, <2>1, SameShows
  <2>3. boxes' \in Seq({"failed", "about"})
    BY <2>1
  <2>4. RestOK'
    BY <1>1, <2>1, <2>3 DEF RestOK, NoServerWithoutTray, QuitHasStopped, serverVars
  <2> QED
    BY <2>2, <2>4, ProgramParts
<1>5. CASE EditText
  <2>1. /\ UNCHANGED <<enabled, started, srv, toggled>>
        /\ \/ enabled.ip /\ \E t \in IpText : fields' = [fields EXCEPT !.ip = t]
           \/ enabled.port /\ \E t \in TypedPort : fields' = [fields EXCEPT !.port = t]
           \/ enabled.pwd /\ \E t \in Password : fields' = [fields EXCEPT !.pwd = t]
    BY <1>5 DEF EditText, Edit
  <2>2. fields' \in Fields /\ fields'.manual = fields.manual
    BY <1>1, <2>1, DialogAssumption DEF ControlsOK, Fields
  <2>3. ControlsOK' /\ SinceStart'
    BY <1>1, <2>1, <2>2 DEF ControlsOK, SinceStart
  <2>4. started => /\ fields'.pwd = fields.pwd /\ fields'.port = fields.port
                   /\ toggled \/ fields'.ip = fields.ip
    <3> SUFFICES ASSUME started PROVE fields'.pwd = fields.pwd /\ fields'.port = fields.port
                                      /\ (toggled \/ fields'.ip = fields.ip)
      OBVIOUS
    <3>1. enabled.port = FALSE /\ enabled.pwd = FALSE /\ (enabled.ip => toggled)
      BY <1>1 DEF ControlsOK, ShowsWhatIsServed, SinceStart
    <3>2. enabled.ip /\ \E t \in IpText : fields' = [fields EXCEPT !.ip = t]
      BY <2>1, <3>1
    <3> QED
      BY <1>1, <3>1, <3>2 DEF ControlsOK, Fields
  <2>5. ShowsWhatIsServed'
    BY <1>1, <2>1, <2>2, <2>4 DEF ShowsWhatIsServed
  <2>6. RestOK'
    <3>1. Edit /\ link' \in BOOLEAN
      BY <1>1, <1>5 DEF EditText, RestOK
    <3> QED
      BY <1>1, <3>1, EditKeeps
  <2> QED
    BY <2>3, <2>5, <2>6, ProgramParts
<1>6. CASE OnCheckManualIp
  <2>1. /\ UNCHANGED <<started, srv>> /\ toggled' = started
        /\ fields' = [fields EXCEPT !.manual = ~@] /\ enabled' = [enabled EXCEPT !.ip = fields'.manual]
    BY <1>6 DEF OnCheckManualIp, Edit
  <2>2. /\ fields' \in Fields /\ fields'.pwd = fields.pwd /\ fields'.port = fields.port
        /\ fields'.manual \in BOOLEAN
    BY <1>1, <2>1 DEF ControlsOK, Fields
  <2>3. /\ enabled' \in [ip : BOOLEAN, port : BOOLEAN, pwd : BOOLEAN, start : BOOLEAN, stop : BOOLEAN]
        /\ enabled'.ip = fields'.manual /\ enabled'.port = enabled.port /\ enabled'.pwd = enabled.pwd
        /\ enabled'.start = enabled.start /\ enabled'.stop = enabled.stop
    <3> DEFINE b == fields'.manual
    <3>1. b \in BOOLEAN /\ enabled' = [enabled EXCEPT !.ip = b]
      BY <2>1, <2>2
    <3> HIDE DEF b
    <3>2. /\ enabled' \in [ip : BOOLEAN, port : BOOLEAN, pwd : BOOLEAN, start : BOOLEAN, stop : BOOLEAN]
          /\ enabled'.ip = b /\ enabled'.port = enabled.port /\ enabled'.pwd = enabled.pwd
          /\ enabled'.start = enabled.start /\ enabled'.stop = enabled.stop
      BY <1>1, <3>1 DEF ControlsOK
    <3> QED
      BY <3>2 DEF b
  <2>4. ControlsOK' /\ SinceStart'
    BY <1>1, <2>1, <2>2, <2>3 DEF ControlsOK, SinceStart
  <2>5. ShowsWhatIsServed'
    BY <1>1, <2>1, <2>2, <2>3 DEF ShowsWhatIsServed
  <2>6. RestOK'
    <3>1. Edit /\ link' \in BOOLEAN
      BY <1>1, <1>6 DEF OnCheckManualIp, RestOK
    <3> QED
      BY <1>1, <3>1, EditKeeps
  <2> QED
    BY <2>4, <2>5, <2>6, ProgramParts
<1>7. CASE OnCheckAutorun
  <2>1. UNCHANGED <<started, srv, enabled, toggled>> /\ fields' = [fields EXCEPT !.autorun = ~@]
    BY <1>7 DEF OnCheckAutorun, Edit
  <2>2. /\ fields' \in Fields /\ fields'.pwd = fields.pwd /\ fields'.port = fields.port
        /\ fields'.manual = fields.manual /\ fields'.ip = fields.ip /\ fields'.autorun \in BOOLEAN
    BY <1>1, <2>1 DEF ControlsOK, Fields
  <2>3. ControlsOK' /\ SinceStart'
    BY <1>1, <2>1, <2>2 DEF ControlsOK, SinceStart
  <2>4. ShowsWhatIsServed'
    BY <1>1, <2>1, <2>2 DEF ShowsWhatIsServed
  <2>5. link' \in BOOLEAN
    BY <1>1, <1>7, <2>2 DEF OnCheckAutorun, RestOK
  <2>6. RestOK'
    BY <1>1, <1>7, <2>5, EditKeeps DEF OnCheckAutorun
  <2> QED
    BY <2>3, <2>4, <2>6, ProgramParts
<1> QED
  BY <1>2, <1>3, <1>4, <1>5, <1>6, <1>7 DEF Window

\* And so does the end of a box.
LEMMA BoxKeeps ==
    ASSUME DialogInv, DismissBox
    PROVE  DialogInv'
<1>1. ControlsOK /\ ShowsWhatIsServed /\ SinceStart /\ RestOK
  BY InvParts
<1>2. boxes # <<>> /\ quitting = "no" /\ UNCHANGED <<file, link>>
  BY DEF DismissBox
<1>3. CASE Len(boxes) = 1 /\ process = "over"
  BY <1>1, <1>2, <1>3, GoneKeeps DEF DismissBox, RestOK
<1>4. CASE ~(Len(boxes) = 1 /\ process = "over")
  <2>1. boxes' \in Seq({"failed", "about"})
    <3>1. boxes' = SubSeq(boxes, 1, Len(boxes) - 1)
      BY <1>4 DEF DismissBox, Front
    <3> QED
      BY <1>1, <1>2, <3>1 DEF RestOK
  <2>2. \/ ReturnFromInit /\ process = "init"
        \/ UNCHANGED <<process, quitting, window, fields, enabled, serverVars, cfg, edits>>
    BY <1>4 DEF DismissBox
  <2>3. UNCHANGED <<quitting, fields, enabled, serverVars, edits>>
    BY <2>2 DEF ReturnFromInit
  <2>4. ControlsOK' /\ ShowsWhatIsServed' /\ SinceStart'
    BY <1>1, <2>3, SameShows
  <2>5. window' \in [hide : BOOLEAN, visible : BOOLEAN]
    <3> DEFINE b == window.hide
    <3>1. b \in BOOLEAN
      BY <1>1 DEF RestOK
    <3>2. window' = window \/ window' = Hidden \/ window' = [hide |-> TRUE, visible |-> b]
      BY <2>2 DEF ReturnFromInit
    <3> HIDE DEF b
    <3>3. CASE window' = [hide |-> TRUE, visible |-> b]
      BY <3>1, <3>3
    <3>4. window \in [hide : BOOLEAN, visible : BOOLEAN] /\ Hidden \in [hide : BOOLEAN, visible : BOOLEAN]
      BY <1>1 DEF Hidden, RestOK
    <3> QED
      BY <3>2, <3>3, <3>4
  <2>6. process' = process \/ (process = "init" /\ process' = "loop")
    BY <2>2 DEF ReturnFromInit
  <2>7. RestOK'
    BY <1>1, <1>2, <2>1, <2>3, <2>5, <2>6 DEF RestOK, NoServerWithoutTray, QuitHasStopped, serverVars
  <2> QED
    BY <2>4, <2>7, ProgramParts
<1> QED
  BY <1>3, <1>4

-----------------------------------------------------------------------------
(* The invariant, and what follows from it.                                 *)

\* A quit saves the settings shown, in place of what is in the object.
LEMMA QuitSaves ==
    ASSUME ProgramInv, OnQuit
    PROVE  SettingsInv'
<1>1. /\ fields \in Fields /\ fields' = fields
      /\ cfg' = Configured(cfg, fields) /\ file' \in {<<>>, file}
  BY DEF ProgramInv, DialogInv, TypeOK, OnQuit
<1>2. cfg' = Configured(<<>>, fields) /\ cfg' = ObjOf(Kept(fields)) /\ Kept(fields) \in Fields
  BY <1>1, ConfiguredEmpty, KeptFields DEF ProgramInv, SettingsInv, ConfigIsReplaced
<1>3. \A f \in Fields : Configured(cfg', f) = Configured(<<>>, f)
  BY <1>1, <1>2, ConfiguredAgain, ConfiguredEmpty
<1>4. FileIsSaved'
  BY <1>1 DEF ProgramInv, SettingsInv, FileIsSaved
<1> QED
  BY <1>1, <1>2, <1>3, <1>4 DEF SettingsInv, ConfigIsReplaced, ConfigIsShown

\* The end of a quit writes what is shown, or leaves the file.
LEMMA FinishWrites ==
    ASSUME ProgramInv, FinishQuit
    PROVE  file' \in {file, <<>>, TextOf(Kept(fields))}
<1>1. cfg = Configured(<<>>, fields)
  BY DEF ProgramInv, SettingsInv, ConfigIsShown, FinishQuit
<1>2. file' \in {file, <<>>, SaveObjectToString(cfg)}
  BY DEF FinishQuit
<1>3. fields \in Fields /\ Kept(fields) \in Fields
  BY KeptFields DEF ProgramInv, DialogInv, TypeOK
<1> QED
  BY <1>1, <1>2, <1>3, ConfiguredEmpty, SavedLines

\* A step that leaves object and file keeps the invariant of the settings.
LEMMA OtherSteps ==
    ASSUME SettingsInv, UNCHANGED <<cfg, file>>, quitting' = "no" \/ UNCHANGED <<quitting, fields>>
    PROVE  SettingsInv'
  BY DEF SettingsInv, FileIsSaved, ConfigIsReplaced, ConfigIsShown

\* The end of the process keeps it.
LEMMA GoneForgets ==
    ASSUME Gone, FileIsSaved'
    PROVE  SettingsInv'
  BY DEF Gone, SettingsInv, ConfigIsReplaced, ConfigIsShown

\* Whatever the step, what it leaves in the file is empty or what was shown.
LEMMA FileSteps ==
    ASSUME ProgramInv, Next
    PROVE  file' \in {file, <<>>, TextOf(Kept(fields))}
<1>1. CASE FinishQuit
  BY <1>1, FinishWrites
<1>2. CASE OnQuit
  BY <1>2 DEF OnQuit
<1>3. CASE Launch \/ LaunchWithoutTray \/ Crash \/ DismissBox
  BY <1>3 DEF Launch, LaunchWithoutTray, Crash, DismissBox
<1>4. CASE TrayStart \/ TrayStop \/ ShowDlg \/ HideDlg
  BY <1>4 DEF TrayStart, TrayStop, ShowDlg, HideDlg
<1>5. CASE Window
  BY <1>5 DEF Window, OnButtonStart, OnButtonStop, OnOk, TrayStart, TrayStop, HideDlg, Escape, OnAbout,
              EditText, OnCheckManualIp, OnCheckAutorun, Edit
<1> QED
  BY <1>1, <1>2, <1>3, <1>4, <1>5 DEF Next, Tray

\* Every step keeps the invariant of the settings.
LEMMA SettingsKept ==
    ASSUME ProgramInv, Next
    PROVE  SettingsInv'
<1>1. SettingsInv /\ FileIsSaved /\ fields \in Fields
  BY DEF ProgramInv, SettingsInv, DialogInv, TypeOK
<1>2. FileIsSaved'
  BY <1>1, FileSteps, KeptFields DEF FileIsSaved
<1>3. CASE Launch
  <2>1. \A f \in Fields : Configured(cfg', f) = Configured(<<>>, f)
    BY <1>1, <1>3, LaunchReads
  <2>2. quitting' = "no"
    BY <1>3 DEF Launch, ProgramInv, DialogInv, NoServerWithoutTray
  <2> QED
    BY <1>2, <2>1, <2>2 DEF SettingsInv, ConfigIsReplaced, ConfigIsShown
<1>4. CASE LaunchWithoutTray
  BY <1>1, <1>4, OtherSteps DEF LaunchWithoutTray, windowVars
<1>5. CASE Crash \/ Escape
  BY <1>2, <1>5, GoneForgets DEF Crash, Escape
<1>6. CASE TrayStart \/ TrayStop \/ ShowDlg \/ HideDlg
  BY <1>1, <1>6, OtherSteps DEF TrayStart, TrayStop, ShowDlg, HideDlg
<1>7. CASE OnQuit
  BY <1>7, QuitSaves
<1>8. CASE FinishQuit
  <2>1. CASE Gone
    BY <1>2, <2>1, GoneForgets
  <2>2. CASE quitting' = "no" /\ cfg' = cfg
    BY <1>1, <1>2, <2>2 DEF SettingsInv, ConfigIsReplaced, ConfigIsShown
  <2> QED
    BY <1>8, <2>1, <2>2 DEF FinishQuit, EndDialog
<1>9. CASE OnButtonStart \/ OnButtonStop \/ OnOk
  BY <1>1, <1>9, OtherSteps DEF OnButtonStart, OnButtonStop, OnOk, TrayStart, TrayStop, HideDlg
<1>10. CASE OnAbout
  BY <1>1, <1>10, OtherSteps DEF OnAbout
<1>11. CASE EditText \/ OnCheckManualIp \/ OnCheckAutorun
  <2>1. UNCHANGED <<cfg, file>> /\ quitting' = "no"
    BY <1>11 DEF EditText, OnCheckManualIp, OnCheckAutorun, Edit, WindowWorks
  <2> QED
    BY <1>1, <2>1, OtherSteps
<1>12. CASE DismissBox
  <2>1. CASE Gone
    BY <1>2, <2>1, GoneForgets
  <2>2. CASE UNCHANGED <<quitting, cfg>> /\ quitting = "no"
    BY <1>1, <1>2, <2>2 DEF SettingsInv, ConfigIsReplaced, ConfigIsShown
  <2> QED
    BY <1>12, <2>1, <2>2 DEF DismissBox, ReturnFromInit
<1> QED
  BY <1>3, <1>4, <1>5, <1>6, <1>7, <1>8, <1>9, <1>10, <1>11, <1>12 DEF Next, Tray, Window

\* Every step keeps that of the controls.
LEMMA DialogKept ==
    ASSUME ProgramInv, Next
    PROVE  DialogInv'
<1>1. DialogInv
  BY DEF ProgramInv
<1>2. CASE LaunchWithoutTray
  <2>1. process = "dead" /\ process' = "lost" /\ UNCHANGED <<quitting, windowVars, serverVars, link, edits>>
    BY <1>2 DEF LaunchWithoutTray
  <2>2. ControlsOK /\ ShowsWhatIsServed /\ SinceStart /\ RestOK
    BY <1>1, InvParts
  <2>3. ControlsOK' /\ ShowsWhatIsServed' /\ SinceStart'
    BY <2>1, <2>2, SameShows DEF windowVars
  <2>4. RestOK'
    BY <2>1, <2>2 DEF RestOK, NoServerWithoutTray, QuitHasStopped, windowVars, serverVars
  <2> QED
    BY <2>3, <2>4, ProgramParts
<1>3. CASE Crash
  BY <1>1, <1>3, GoneKeeps DEF Crash, DialogInv, TypeOK
<1> QED
  BY <1>1, <1>2, <1>3, LaunchKeeps, TrayKeeps, WindowKeeps, BoxKeeps DEF Next

\* A step of others changes nothing.
LEMMA StutterKeeps ==
    ASSUME ProgramInv, UNCHANGED dialogVars
    PROVE  ProgramInv'
<1>1. UNCHANGED <<process, quitting, boxes, window, link, edits>> /\ UNCHANGED <<fields, enabled, serverVars>>
      /\ UNCHANGED <<cfg, file>>
  BY DEF dialogVars, windowVars, serverVars
<1>2. ControlsOK /\ ShowsWhatIsServed /\ SinceStart /\ RestOK /\ SettingsInv
  BY InvParts DEF ProgramInv
<1>3. ControlsOK' /\ ShowsWhatIsServed' /\ SinceStart'
  BY <1>1, <1>2, SameShows
<1>4. RestOK'
  BY <1>1, <1>2 DEF RestOK, NoServerWithoutTray, QuitHasStopped, serverVars
<1>5. SettingsInv'
  BY <1>1, <1>2, OtherSteps
<1> QED
  BY <1>3, <1>4, <1>5, ProgramParts DEF ProgramInv

\* It holds at first.
LEMMA StartsSound == Init => ProgramInv
<1> SUFFICES ASSUME Init PROVE ProgramInv
  OBVIOUS
<1>1. Blank0 \in Fields
  BY ReadOfDefaults DEF Blank0
<1>2. 0 \in 0 .. MaxEdits
  BY DialogAssumption
<1>3. NoWindow \in [hide : BOOLEAN, visible : BOOLEAN] /\ <<>> \in Seq({"failed", "about"})
  BY DEF NoWindow
<1>4. srv.open = FALSE
  BY DEF Init, NoServer
<1>5. TypeOK
  BY <1>1, <1>2, <1>3, EnabledAtFirstType, NoServerType DEF Init, TypeOK
<1>6. ShowsWhatIsServed
  <2>1. fields.manual \in BOOLEAN
    BY <1>5, FieldsTypes DEF TypeOK
  <2>2. enabled = EnabledAtFirst(fields) /\ fields \in Fields /\ started = FALSE
    BY <1>1 DEF Init
  <2> QED
    BY <1>4, <2>1, <2>2, EnabledAtFirstType DEF ShowsWhatIsServed
<1>7. SinceStart /\ NoServerWithoutTray /\ QuitHasStopped
  BY DEF Init, SinceStart, NoServerWithoutTray, QuitHasStopped
<1>8. SettingsInv
  BY DEF Init, SettingsInv, FileIsSaved, ConfigIsReplaced, ConfigIsShown
<1> QED
  BY <1>5, <1>6, <1>7, <1>8 DEF ProgramInv, DialogInv

\* It holds in every state the program reaches.
LEMMA ProgramInvariant == Spec => []ProgramInv
<1>1. ProgramInv /\ [Next]_dialogVars => ProgramInv'
  <2>1. CASE Next
    BY <2>1, DialogKept, SettingsKept DEF ProgramInv
  <2>2. CASE UNCHANGED dialogVars
    BY <2>2, StutterKeeps
  <2> QED
    BY <2>1, <2>2
<1> QED
  BY <1>1, StartsSound, PTL DEF Spec

\* TypeOK for all addresses, ports and passwords, however many boxes and edits: a
\* launch shows only what the controls can hold, whatever file it reads.
THEOREM DialogTypes == Spec => []TypeOK
<1>1. ProgramInv => TypeOK
  BY DEF ProgramInv, DialogInv
<1> QED
  BY <1>1, ProgramInvariant, PTL

\* The buttons and fields tell the truth of the server (OnBnClickedButtonStart,
\* OnBnClickedButtonStop, the manual-IP box), under boxes and across failed starts.
THEOREM WindowTruthful == Spec => []ShowsWhatIsServed
<1>1. ProgramInv => ShowsWhatIsServed
  BY DEF ProgramInv, DialogInv
<1> QED
  BY <1>1, ProgramInvariant, PTL

\* save_config writes what the window shows, 0.0.0.0 for an address inet_addr does
\* not read: nothing that an earlier file held and a load read, and no edit between
\* the object and the file, gets into it.
THEOREM SavesWhatIsShown == Spec => SavedAsShown
<1>1. ProgramInv /\ [Next]_dialogVars =>
        [file' # file =>
            \/ file' = <<>>
            \/ fields.ip # NoneIp /\ file' = TextOf(fields)
            \/ fields.ip = NoneIp /\ file' = TextOf([fields EXCEPT !.ip = AnyIp])]_dialogVars
  <2> SUFFICES ASSUME ProgramInv, Next, file' # file
               PROVE  \/ file' = <<>>
                      \/ fields.ip # NoneIp /\ file' = TextOf(fields)
                      \/ fields.ip = NoneIp /\ file' = TextOf([fields EXCEPT !.ip = AnyIp])
    OBVIOUS
  <2>1. fields \in Fields
    BY DEF ProgramInv, DialogInv, TypeOK
  <2>2. file' \in {<<>>, TextOf(Kept(fields))}
    BY FileSteps
  <2> QED
    BY <2>1, <2>2, KeptFields
<1> QED
  BY <1>1, ProgramInvariant, PTL DEF Spec, SavedAsShown

\* For every file a quit wrote: a launch shows of it exactly what ComesBack says,
\* for all passwords, with tags, blanks and of any length.  The writer
\* (Ini_SaveObjectToString), the line parser and the loader are run on the text.
THEOREM RemembersSettings == Spec => SettingsComeBack
<1>1. ProgramInv /\ [Next]_dialogVars =>
        [process = "dead" /\ process' \in {"init", "loop"} =>
            IF file \in {NoFile, <<>>} THEN fields' = FieldsOf(<<>>)
            ELSE \E f \in Fields : f.ip # NoneIp /\ file = TextOf(f) /\ ComesBack(f, fields')]_dialogVars
  <2> SUFFICES ASSUME ProgramInv, Next, process = "dead", process' \in {"init", "loop"}
               PROVE  IF file \in {NoFile, <<>>} THEN fields' = FieldsOf(<<>>)
                      ELSE \E f \in Fields : f.ip # NoneIp /\ file = TextOf(f) /\ ComesBack(f, fields')
    OBVIOUS
  <2>1. Launch
    <3>1. quitting = "no"
      BY DEF ProgramInv, DialogInv, NoServerWithoutTray
    <3>2. ~LaunchWithoutTray /\ ~Crash
      BY DEF LaunchWithoutTray, Crash
    <3>3. ~Tray
      BY <3>1 DEF Tray, TrayStart, TrayStop, ShowDlg, HideDlg, OnQuit, FinishQuit, TrayWorks
    <3>4. ~Window
      BY DEF Window, OnButtonStart, OnButtonStop, OnOk, Escape, OnAbout, EditText, OnCheckManualIp,
             OnCheckAutorun, Edit, WindowWorks
    <3>5. ~DismissBox
      BY DEF DismissBox
    <3> QED
      BY <3>2, <3>3, <3>4, <3>5 DEF Next
  <2> QED
    BY <2>1, LaunchReads DEF ProgramInv, SettingsInv
<1> QED
  BY <1>1, ProgramInvariant, PTL DEF Spec, SettingsComeBack

-----------------------------------------------------------------------------
(* The end of a program, and its server.                                    *)

\* A quit ends the program, at once or when the boxes over it are closed, unless
\* it was given while the first start was failing; what is over stays over.
THEOREM QuitEnds == Spec => QuitEndsProgram
<1>1. ProgramInv /\ [Next]_dialogVars =>
        [ /\ quitting # "no" /\ quitting' = "no" => process' \in {"dead", "over"} \/ process = "init"
          /\ process = "over" => process' \in {"dead", "over"}]_dialogVars
  <2> SUFFICES ASSUME ProgramInv, Next
               PROVE  /\ quitting # "no" /\ quitting' = "no" => process' \in {"dead", "over"} \/ process = "init"
                      /\ process = "over" => process' \in {"dead", "over"}
    OBVIOUS
  <2>1. quitting # "no" => process \in {"init", "loop", "over"}
    BY DEF ProgramInv, DialogInv, QuitHasStopped
  <2>2. CASE Crash \/ Escape
    BY <2>2 DEF Crash, Escape, Gone
  <2>3. CASE Launch \/ LaunchWithoutTray
    <3>1. process = "dead" /\ quitting = "no"
      BY <2>3 DEF Launch, LaunchWithoutTray, ProgramInv, DialogInv, NoServerWithoutTray
    <3> QED
      BY <3>1
  <2>4. CASE TrayStart \/ TrayStop \/ ShowDlg \/ HideDlg \/ OnQuit
    BY <2>4 DEF TrayStart, TrayStop, ShowDlg, HideDlg, OnQuit, TrayWorks
  <2>5. CASE FinishQuit
    BY <2>1, <2>5 DEF FinishQuit, EndDialog, Gone
  <2>6. CASE OnButtonStart \/ OnButtonStop \/ OnOk \/ OnAbout \/ EditText \/ OnCheckManualIp \/ OnCheckAutorun
    BY <2>6 DEF OnButtonStart, OnButtonStop, OnOk, TrayStart, TrayStop, HideDlg, OnAbout, EditText,
               OnCheckManualIp, OnCheckAutorun, Edit, WindowWorks
  <2>7. CASE DismissBox
    BY <2>7 DEF DismissBox, Gone, ReturnFromInit
  <2> QED
    BY <2>2, <2>3, <2>4, <2>5, <2>6, <2>7 DEF Next, Tray, Window
<1> QED
  BY <1>1, ProgramInvariant, PTL DEF Spec, QuitEndsProgram

\* What becomes of the server in a step of the dialog.
LEMMA ServerSteps ==
    ASSUME ProgramInv, Next
    PROVE  \/ srv' = srv
           \/ srv.open = FALSE /\ srv'.open = TRUE /\ srv'.pwd \in Password
           \/ srv.open = TRUE /\ srv' = NoServer
<1>1. /\ started = srv.open /\ started \in BOOLEAN /\ (~started => srv = NoServer)
      /\ fields \in Fields /\ NoServer.open = FALSE
  BY DEF ProgramInv, DialogInv, TypeOK, ShowsWhatIsServed, SinceStart, NoServer
<1>2. Stop => srv' = srv \/ (srv.open = TRUE /\ srv' = NoServer)
  BY <1>1 DEF Stop, serverVars
<1>3. Gone => srv' = srv \/ (srv.open = TRUE /\ srv' = NoServer)
  BY <1>1 DEF Gone
<1>4. \A f \in Fields : \A e : ~started /\ StartSucceeds(f, e) => srv.open = FALSE /\ srv'.open = TRUE /\ srv'.pwd \in Password
  <2> SUFFICES ASSUME NEW f \in Fields, NEW e, ~started, StartSucceeds(f, e)
               PROVE  srv.open = FALSE /\ srv'.open = TRUE /\ srv'.pwd \in Password
    OBVIOUS
  <2>1. srv' = Bound(f) /\ f.pwd \in Password
    BY FieldsTypes DEF StartSucceeds
  <2> QED
    BY <1>1, <2>1, BoundType
<1>5. Start => \/ srv' = srv
               \/ srv.open = FALSE /\ srv'.open = TRUE /\ srv'.pwd \in Password
  BY <1>1, <1>4 DEF Start, StartFails, serverVars
<1>6. CASE Launch
  <2>1. fields' \in Fields /\ ~started
    BY <1>6, LaunchReads DEF ProgramInv, SettingsInv, Launch, DialogInv, NoServerWithoutTray
  <2>2. StartSucceeds(fields', EnabledAtFirst(fields')) \/ StartFails(EnabledAtFirst(fields'))
    BY <1>6 DEF Launch
  <2> QED
    BY <1>4, <2>1, <2>2 DEF StartFails, serverVars
<1>7. CASE LaunchWithoutTray
  BY <1>7 DEF LaunchWithoutTray, serverVars
<1>8. CASE Crash \/ Escape
  BY <1>3, <1>8 DEF Crash, Escape
<1>9. CASE TrayStart \/ OnButtonStart
  BY <1>5, <1>9 DEF TrayStart, OnButtonStart
<1>10. CASE TrayStop \/ OnButtonStop \/ OnQuit
  BY <1>2, <1>10 DEF TrayStop, OnButtonStop, OnQuit
<1>11. CASE FinishQuit
  BY <1>3, <1>11 DEF FinishQuit, EndDialog, serverVars
<1>12. CASE ShowDlg \/ HideDlg \/ OnOk \/ OnAbout \/ EditText \/ OnCheckManualIp \/ OnCheckAutorun
  BY <1>12 DEF ShowDlg, HideDlg, OnOk, OnAbout, EditText, OnCheckManualIp, OnCheckAutorun, Edit, serverVars
<1>13. CASE DismissBox
  BY <1>3, <1>13 DEF DismissBox, ReturnFromInit, serverVars
<1> QED
  BY <1>6, <1>7, <1>8, <1>9, <1>10, <1>11, <1>12, <1>13 DEF Next, Tray, Window

\* The dialog is a user of CServerService as ServerService takes it: every step of
\* the dialog is a Create while there is no server, a Close while there is one, or
\* none of its business.
THEOREM UsesServerAsServed == Spec => ServerLifecycle
<1>1. Init => Service!ServerInit
  <2> SUFFICES ASSUME Init PROVE Service!ServerInit
    OBVIOUS
  <2>1. srv.open = FALSE /\ srv.pwd = <<>>
    BY DEF Init, NoServer
  <2>2. <<>> = [p \in {} |-> 0]
    OBVIOUS
  <2> QED
    BY <2>1, <2>2 DEF Service!ServerInit, Service!Closed
<1>2. ProgramInv /\ [Next]_dialogVars => [Service!ServerNext]_(Service!serverVars)
  <2>1. CASE ProgramInv /\ Next
    <3>1. CASE srv' = srv
      BY <3>1 DEF Service!serverVars
    <3>2. CASE srv.open = FALSE /\ srv'.open = TRUE /\ srv'.pwd \in Password
      <4>1. Service!Create(srv'.pwd)
        <5> DEFINE p == srv'.pwd
                   seen == [open |-> srv.open, pwd |-> srv.pwd, output |-> <<>>, notices |-> 0]
        <5>1. ~seen.open
          BY <3>2
        <5>2. [Service!Closed EXCEPT !.open = TRUE, !.pwd = p] = [open |-> TRUE, pwd |-> p, output |-> <<>>, notices |-> 0]
          <6> DEFINE r == [Service!Closed EXCEPT !.open = TRUE, !.pwd = p]
          <6>1. r \in [open : BOOLEAN, pwd : {p}, output : {<<>>}, notices : {0}] /\ r.open = TRUE
            BY DEF Service!Closed
          <6> HIDE DEF r
          <6>2. r = [open |-> TRUE, pwd |-> p, output |-> <<>>, notices |-> 0]
            BY <6>1
          <6> QED
            BY <6>2 DEF r
        <5>3. seen' = [open |-> TRUE, pwd |-> p, output |-> <<>>, notices |-> 0]
          BY <3>2
        <5> QED
          BY <5>1, <5>2, <5>3 DEF Service!Create
      <4> QED
        BY <3>2, <4>1 DEF Service!ServerNext, Service!Lifecycle
    <3>3. CASE srv.open = TRUE /\ srv' = NoServer
      <4>1. Service!Close
        BY <3>3 DEF Service!Close, Service!Closed, NoServer
      <4> QED
        BY <4>1 DEF Service!ServerNext, Service!Lifecycle
    <3> QED
      BY <2>1, <3>1, <3>2, <3>3, ServerSteps
  <2>2. CASE UNCHANGED dialogVars
    BY <2>2 DEF dialogVars, serverVars, Service!serverVars
  <2> QED
    BY <2>1, <2>2
<1> QED
  BY <1>1, <1>2, ProgramInvariant, PTL DEF Spec, ServerLifecycle, Service!ServerSpec
=============================================================================
