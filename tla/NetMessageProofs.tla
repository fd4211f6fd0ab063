--------------------------- MODULE NetMessageProofs --------------------------
(* What the serializer puts for a message is read back as that message, cut  *)
(* short it is read as none, and so a datagram gives the event it was made   *)
(* for or none, for every event, password and allocation that fails.         *)
EXTENDS NetMessage, ArBufferProofs, WellFoundedInduction

-----------------------------------------------------------------------------
(* Induction for sets of numbers, and sequences.                             *)

\* A set of numbers has a smallest one.
LEMMA SmallestOf ==
    ASSUME NEW T \in SUBSET Nat, T # {}
    PROVE  \E k \in T : \A j \in T : k <= j
<1>1. IsWellFoundedOn(OpToRel(<, Nat), Nat)
  BY NatLessThanWellFounded
<1>2. PICK k \in T : \A j \in T : ~(<<j, k>> \in OpToRel(<, Nat))
  BY <1>1, WFMin
<1>3. \A j \in T : ~(j < k)
  BY <1>2 DEF OpToRel
<1>4. ASSUME NEW j \in T PROVE k <= j
  <2>1. k \in Int /\ j \in Int /\ ~(j < k)
    BY <1>3
  <2> QED
    BY <2>1
<1> QED
  BY <1>2, <1>4

\* Induction over the numbers up to n.
LEMMA UpTo ==
    ASSUME NEW n \in Nat, NEW T, 0 \in T, \A k \in 0 .. n : k # n /\ k \in T => k + 1 \in T
    PROVE  \A k \in 0 .. n : k \in T
<1> DEFINE Rest == {k \in 0 .. n : k \notin T}
<1> SUFFICES ASSUME Rest # {} PROVE FALSE
  OBVIOUS
<1>1. Rest \in SUBSET Nat
  OBVIOUS
<1>2. PICK k \in Rest : \A j \in Rest : k <= j
  <2> HIDE DEF Rest
  <2> QED
    BY <1>1, SmallestOf
<1>3. k # 0 /\ k - 1 \in 0 .. n /\ k - 1 # n
  OBVIOUS
<1>4. k - 1 \in T
  BY <1>2, <1>3
<1> QED
  BY <1>3, <1>4

\* The same downwards.
LEMMA DownFrom ==
    ASSUME NEW n \in Nat, NEW T, n \in T, \A k \in 0 .. n : k # 0 /\ k \in T => k - 1 \in T
    PROVE  \A k \in 0 .. n : k \in T
<1> DEFINE U == {k \in 0 .. n : n - k \in T}
<1>1. 0 \in U
  OBVIOUS
<1>2. \A k \in 0 .. n : k # n /\ k \in U => k + 1 \in U
  <2> SUFFICES ASSUME NEW k \in 0 .. n, k # n, n - k \in T PROVE n - (k + 1) \in T
    OBVIOUS
  <2>1. n - k \in 0 .. n /\ n - k # 0 /\ (n - k) - 1 = n - (k + 1)
    OBVIOUS
  <2>2. (n - k) - 1 \in T
    BY <2>1
  <2> QED
    BY <2>1, <2>2
<1>3. \A k \in 0 .. n : k \in U
  <2> HIDE DEF U
  <2> QED
    BY <1>1, <1>2, UpTo
<1>4. ASSUME NEW k \in 0 .. n PROVE k \in T
  <2>1. n - k \in 0 .. n
    OBVIOUS
  <2>2. n - k \in U
    BY <1>3, <2>1
  <2>3. n - (n - k) = k
    OBVIOUS
  <2> QED
    BY <2>2, <2>3
<1> QED
  BY <1>4

\* A sequence made of what a function says.
LEMMA MakeSeq ==
    ASSUME NEW X, NEW n \in Nat, NEW f, DOMAIN f = 1 .. n, f = [k \in 1 .. n |-> f[k]],
           \A k \in 1 .. n : f[k] \in X
    PROVE  f \in Seq(X) /\ Len(f) = n
<1>1. f \in [1 .. n -> X]
  OBVIOUS
<1> QED
  BY <1>1, FunSeq

\* Two sequences put together.
LEMMA Catenated ==
    ASSUME NEW X, NEW s \in Seq(X), NEW t \in Seq(X)
    PROVE  /\ s \o t \in Seq(X)
           /\ Len(s \o t) = Len(s) + Len(t)
           /\ \A k \in 1 .. Len(s) : (s \o t)[k] = s[k]
           /\ \A k \in 1 .. Len(t) : (s \o t)[Len(s) + k] = t[k]
<1>1. Len(s) \in Nat /\ Len(t) \in Nat
  BY LenProperties
<1>2. s \o t \in Seq(X) /\ Len(s \o t) = Len(s) + Len(t)
  BY ConcatProperties
<1>3. \A k \in 1 .. Len(s) + Len(t) :
         (s \o t)[k] = IF k <= Len(s) THEN s[k] ELSE t[k - Len(s)]
  BY ConcatProperties
<1>4. ASSUME NEW k \in 1 .. Len(s) PROVE (s \o t)[k] = s[k]
  BY <1>1, <1>3
<1>5. ASSUME NEW k \in 1 .. Len(t) PROVE (s \o t)[Len(s) + k] = t[k]
  <2>1. Len(s) + k \in 1 .. Len(s) + Len(t) /\ ~(Len(s) + k <= Len(s)) /\ (Len(s) + k) - Len(s) = k
    BY <1>1
  <2> QED
    BY <1>3, <2>1
<1> QED
  BY <1>2, <1>4, <1>5

\* The same as a fact about what they make.
Joined(X, s, t, e) ==
    /\ e \in Seq(X)
    /\ Len(e) = Len(s) + Len(t)
    /\ \A k \in 1 .. Len(s) : e[k] = s[k]
    /\ \A k \in 1 .. Len(t) : e[Len(s) + k] = t[k]

LEMMA Joining ==
    ASSUME NEW X, NEW s \in Seq(X), NEW t \in Seq(X)
    PROVE  Joined(X, s, t, s \o t)
BY Catenated DEF Joined

\* A part of a sequence.
LEMMA Part ==
    ASSUME NEW X, NEW s \in Seq(X), NEW a \in Nat, NEW b \in Nat, a <= b, b <= Len(s)
    PROVE  /\ SubSeq(s, a + 1, b) \in Seq(X)
           /\ Len(SubSeq(s, a + 1, b)) = b - a
           /\ \A k \in 1 .. b - a : SubSeq(s, a + 1, b)[k] = s[a + k]
<1>1. Len(s) \in Nat /\ DOMAIN s = 1 .. Len(s)
  BY LenProperties
<1> DEFINE f == [k \in 1 .. b - a |-> s[a + k]]
<1>2. SubSeq(s, a + 1, b) = f
  <2>1. SubSeq(s, a + 1, b) = [k \in 1 .. b - (a + 1) + 1 |-> s[a + 1 + k - 1]]
    BY <1>1, SubSeqProperties
  <2> QED
    BY <2>1
<1>3. \A k \in 1 .. b - a : s[a + k] \in X
  <2> TAKE k \in 1 .. b - a
  <2>1. a + k \in 1 .. Len(s)
    BY <1>1
  <2> QED
    BY <2>1, ElementOfSeq
<1>4. f \in [1 .. b - a -> X]
  BY <1>3
<1>5. b - a \in Nat
  OBVIOUS
<1>6. f \in Seq(X) /\ Len(f) = b - a
  <2> HIDE DEF f
  <2> QED
    BY <1>4, <1>5, FunSeq
<1> QED
  BY <1>2, <1>6

-----------------------------------------------------------------------------
(* Sequences put together from pieces: F[k] is what the first k make.        *)

Table(ss, F) ==
    /\ F[0] = <<>>
    /\ \A k \in 1 .. Len(ss) : F[k] = F[k - 1] \o ss[k]

\* There is such a table.
LEMMA TableExists ==
    ASSUME NEW X, NEW ss \in Seq(Seq(X))
    PROVE  \E F \in [0 .. Len(ss) -> Seq(X)] : Table(ss, F)
<1> DEFINE T == {n \in 0 .. Len(ss) :
                   \E F \in [0 .. n -> Seq(X)] :
                      F[0] = <<>> /\ \A k \in 1 .. n : F[k] = F[k - 1] \o ss[k]}
<1>1. Len(ss) \in Nat /\ \A k \in 1 .. Len(ss) : ss[k] \in Seq(X)
  BY LenProperties, ElementOfSeq
<1>2. 0 \in T
  <2>1. <<>> \in Seq(X)
    BY EmptySeq
  <2> DEFINE F == [k \in 0 .. 0 |-> <<>>]
  <2>2. F \in [0 .. 0 -> Seq(X)] /\ F[0] = <<>>
    BY <2>1
  <2>3. \A k \in 1 .. 0 : F[k] = F[k - 1] \o ss[k]
    OBVIOUS
  <2>4. 0 \in 0 .. Len(ss)
    BY <1>1
  <2> HIDE DEF F
  <2> QED
    BY <2>2, <2>3, <2>4
<1>3. \A n \in 0 .. Len(ss) : n # Len(ss) /\ n \in T => n + 1 \in T
  <2> SUFFICES ASSUME NEW n \in 0 .. Len(ss), n # Len(ss), n \in T PROVE n + 1 \in T
    OBVIOUS
  <2>1. PICK F \in [0 .. n -> Seq(X)] :
           F[0] = <<>> /\ \A k \in 1 .. n : F[k] = F[k - 1] \o ss[k]
    OBVIOUS
  <2>2. n + 1 \in 1 .. Len(ss) /\ n \in Nat
    BY <1>1
  <2> DEFINE G == [k \in 0 .. n + 1 |-> IF k <= n THEN F[k] ELSE F[n] \o ss[n + 1]]
  <2>3. F[n] \o ss[n + 1] \in Seq(X)
    BY <1>1, <2>2, ConcatProperties
  <2>4. G \in [0 .. n + 1 -> Seq(X)]
    BY <2>3
  <2>5. G[0] = <<>>
    BY <2>1, <2>2
  <2>6. ASSUME NEW k \in 1 .. n + 1 PROVE G[k] = G[k - 1] \o ss[k]
    <3>1. CASE k <= n
      <4>1. k \in 0 .. n + 1 /\ k - 1 \in 0 .. n + 1 /\ k - 1 <= n /\ k \in 1 .. n
        BY <2>2, <3>1
      <4>2. G[k] = F[k] /\ G[k - 1] = F[k - 1]
        BY <3>1, <4>1
      <4> HIDE DEF G
      <4> QED
        BY <2>1, <4>1, <4>2
    <3>2. CASE ~(k <= n)
      <4>1. k = n + 1
        BY <2>2, <3>2
      <4>2. G[k - 1] = F[n] /\ G[k] = F[n] \o ss[n + 1]
        BY <2>2, <4>1
      <4> QED
        BY <4>1, <4>2
    <3> QED
      BY <3>1, <3>2
  <2>7. n + 1 \in 0 .. Len(ss)
    BY <2>2
  <2> HIDE DEF G
  <2> QED
    BY <2>4, <2>5, <2>6, <2>7
<1>4. Len(ss) \in T
  <2> HIDE DEF T
  <2>1. Len(ss) \in Nat /\ Len(ss) \in 0 .. Len(ss)
    BY <1>1
  <2>2. \A k \in 0 .. Len(ss) : k \in T
    BY <1>2, <1>3, <2>1, UpTo
  <2> QED
    BY <2>1, <2>2
<1> QED
  BY <1>4 DEF Table

\* Any table tells what FlattenSeq makes.
LEMMA FlattenIs ==
    ASSUME NEW X, NEW ss \in Seq(Seq(X)), NEW F, Table(ss, F)
    PROVE  FlattenSeq(ss) = F[Len(ss)]
<1>1. Len(ss) \in Nat /\ \A k \in 1 .. Len(ss) : ss[k] \in Seq(X)
  BY LenProperties, ElementOfSeq
<1>2. CASE Len(ss) = 0
  <2>1. ss = <<>>
    BY <1>2, EmptySeq
  <2> QED
    BY <1>2, <2>1 DEF FlattenSeq, Table
<1>3. CASE Len(ss) # 0
  <2> DEFINE Is(f) == f = [k \in 1 .. Len(ss) |-> IF k = 1 THEN ss[k] ELSE f[k - 1] \o ss[k]]
             f0 == [k \in 1 .. Len(ss) |-> F[k]]
             f == CHOOSE f : Is(f)
  <2>1. Is(f0)
    <3>1. ASSUME NEW k \in 1 .. Len(ss)
          PROVE  F[k] = IF k = 1 THEN ss[k] ELSE f0[k - 1] \o ss[k]
      <4>1. CASE k = 1
        <5>1. F[k] = F[k - 1] \o ss[k]
          BY DEF Table
        <5>2. k - 1 = 0
          BY <4>1
        <5>3. F[k - 1] = <<>>
          BY <5>2, Zenon DEF Table
        <5>4. F[k] = <<>> \o ss[k]
          BY <5>1, <5>3, Zenon
        <5> QED
          BY <1>1, <4>1, <5>4, ConcatEmptySeq
      <4>2. CASE k # 1
        <5>1. k - 1 \in 1 .. Len(ss)
          BY <1>1, <4>2
        <5> QED
          BY <4>2, <5>1 DEF Table
      <4> QED
        BY <4>1, <4>2
    <3> QED
      BY <3>1
  <2>2. Is(f)
    BY <2>1
  <2>3. \A k \in 1 .. Len(ss) : f[k] = IF k = 1 THEN ss[k] ELSE f[k - 1] \o ss[k]
    BY <2>2
  <2>4. FlattenSeq(ss) = f[Len(ss)]
    BY <1>3 DEF FlattenSeq
  <2> HIDE DEF f
  <2> DEFINE T == {k \in 0 .. Len(ss) : k = 0 \/ f[k] = F[k]}
  <2>5. 0 \in T
    BY <1>1
  <2>6. ASSUME NEW k \in 0 .. Len(ss), k # Len(ss), k \in T PROVE k + 1 \in T
    <3>1. k + 1 \in 1 .. Len(ss) /\ (k + 1) - 1 = k
      BY <1>1, <2>6
    <3>2. F[k + 1] = F[k] \o ss[k + 1]
      BY <3>1 DEF Table
    <3>3. CASE k = 0
      <4>1. f[1] = ss[1]
        BY <2>3, <3>1, <3>3
      <4>2. F[k] = <<>>
        BY <3>3, Zenon DEF Table
      <4>3. F[k + 1] = <<>> \o ss[k + 1]
        BY <3>2, <4>2, Zenon
      <4>4. F[k + 1] = ss[k + 1]
        BY <1>1, <3>1, <4>3, ConcatEmptySeq
      <4>5. k + 1 = 1
        BY <3>3
      <4> QED
        BY <3>1, <4>1, <4>4, <4>5
    <3>4. CASE k # 0
      <4>1. k + 1 # 1
        BY <3>4
      <4>2. f[k + 1] = f[k] \o ss[k + 1]
        BY <2>3, <3>1, <4>1
      <4>3. f[k] = F[k]
        BY <2>6, <3>4
      <4>4. f[k + 1] = F[k + 1]
        BY <3>2, <4>2, <4>3, Zenon
      <4> QED
        BY <3>1, <4>4
    <3> QED
      BY <3>3, <3>4
  <2>7. \A k \in 0 .. Len(ss) : k # Len(ss) /\ k \in T => k + 1 \in T
    BY <2>6
  <2>8. Len(ss) \in T
    <3> HIDE DEF T
    <3>1. Len(ss) \in Nat /\ Len(ss) \in 0 .. Len(ss)
      BY <1>1
    <3>2. \A k \in 0 .. Len(ss) : k \in T
      BY <2>5, <2>7, <3>1, UpTo
    <3> QED
      BY <3>1, <3>2
  <2> QED
    BY <1>3, <2>4, <2>8
<1> QED
  BY <1>2, <1>3

\* The table of the first pieces is a part of the table of all.
LEMMA FlattenFirst ==
    ASSUME NEW X, NEW ss \in Seq(Seq(X)), NEW F, Table(ss, F), NEW n \in 0 .. Len(ss)
    PROVE  FlattenSeq(SubSeq(ss, 1, n)) = F[n]
<1>1. /\ SubSeq(ss, 0 + 1, n) \in Seq(Seq(X))
      /\ Len(SubSeq(ss, 0 + 1, n)) = n - 0
      /\ \A k \in 1 .. n - 0 : SubSeq(ss, 0 + 1, n)[k] = ss[0 + k]
  <2>1. Len(ss) \in Nat
    BY LenProperties
  <2> QED
    BY <2>1, Part
<1> DEFINE part == SubSeq(ss, 1, n)
<1>2. part \in Seq(Seq(X)) /\ Len(part) = n /\ \A k \in 1 .. n : part[k] = ss[k]
  BY <1>1
<1>3. Table(part, F)
  <2>1. \A k \in 1 .. n : k \in 1 .. Len(ss)
    BY LenProperties
  <2> HIDE DEF part
  <2> QED
    BY <1>2, <2>1 DEF Table
<1> HIDE DEF part
<1>4. FlattenSeq(part) = F[n]
  BY <1>2, <1>3, FlattenIs
<1> QED
  BY <1>4 DEF part

\* What is at n in some data.
At(data, n, s) ==
    /\ n + Len(s) <= Len(data)
    /\ \A k \in 1 .. Len(s) : data[n + k] = s[k]

\* Data that goes on where other data ends.
Longer(a, b) ==
    /\ Len(a) \in Nat /\ Len(b) \in Nat /\ Len(a) <= Len(b)
    /\ \A k \in 1 .. Len(a) : b[k] = a[k]

LEMMA LongerStill ==
    ASSUME NEW a, NEW b, NEW c, Longer(a, b), Longer(b, c)
    PROVE  Longer(a, c)
<1>1. \A k \in 1 .. Len(a) : k \in 1 .. Len(b)
  BY DEF Longer
<1> QED
  BY <1>1 DEF Longer

LEMMA AtInLonger ==
    ASSUME NEW a, NEW b, Longer(a, b), NEW n \in Nat, NEW s, Len(s) \in Nat, At(a, n, s)
    PROVE  At(b, n, s)
<1>1. ASSUME NEW k \in 1 .. Len(s) PROVE n + k \in 1 .. Len(a)
  BY DEF At, Longer
<1> QED
  BY <1>1 DEF At, Longer

LEMMA PutBehind ==
    ASSUME NEW X, NEW s \in Seq(X), NEW t \in Seq(X)
    PROVE  /\ Longer(s, s \o t)
           /\ At(s \o t, Len(s), t)
           /\ Len(t) \in Nat
           /\ Len(s \o t) = Len(s) + Len(t)
<1>1. Len(s) \in Nat /\ Len(t) \in Nat
  BY LenProperties
<1>2. /\ Len(s \o t) = Len(s) + Len(t)
      /\ \A k \in 1 .. Len(s) : (s \o t)[k] = s[k]
      /\ \A k \in 1 .. Len(t) : (s \o t)[Len(s) + k] = t[k]
  BY Catenated
<1> QED
  BY <1>1, <1>2 DEF Longer, At

\* Every piece is where those before it end.
InPlace(n, ss, F) ==
    \A k \in 1 .. n : /\ Longer(F[k - 1], F[k])
                      /\ At(F[k], Len(F[k - 1]), ss[k])
                      /\ Len(ss[k]) \in Nat
                      /\ Len(F[k]) = Len(F[k - 1]) + Len(ss[k])

LEMMA StayInPlace ==
    ASSUME NEW n \in Nat, NEW ss, NEW F, InPlace(n, ss, F)
    PROVE  \A k \in 1 .. n : /\ Longer(F[k], F[n])
                             /\ At(F[n], Len(F[k - 1]), ss[k])
<1> DEFINE T == {m \in 0 .. n : \A k \in 1 .. m : /\ Longer(F[k], F[m])
                                                  /\ At(F[m], Len(F[k - 1]), ss[k])}
<1>1. 0 \in T
  OBVIOUS
<1>2. ASSUME NEW m \in 0 .. n, m # n, m \in T PROVE m + 1 \in T
  <2>1. m + 1 \in 0 .. n /\ m + 1 \in 1 .. n /\ (m + 1) - 1 = m
    BY <1>2
  <2>2. Longer(F[m], F[m + 1]) /\ At(F[m + 1], Len(F[m]), ss[m + 1])
    BY <2>1 DEF InPlace
  <2>3. ASSUME NEW k \in 1 .. m + 1
        PROVE  Longer(F[k], F[m + 1]) /\ At(F[m + 1], Len(F[k - 1]), ss[k])
    <3>1. CASE k = m + 1
      <4>1. Longer(F[m + 1], F[m + 1])
        BY <2>2 DEF Longer
      <4> QED
        BY <2>1, <2>2, <3>1, <4>1
    <3>2. CASE k # m + 1
      <4>1. k \in 1 .. m /\ k \in 1 .. n
        BY <3>2
      <4>2. Longer(F[k], F[m]) /\ At(F[m], Len(F[k - 1]), ss[k])
        BY <1>2, <4>1
      <4>3. Len(ss[k]) \in Nat /\ Len(F[k - 1]) \in Nat
        BY <4>1 DEF InPlace, Longer
      <4>4. Longer(F[k], F[m + 1])
        BY <2>2, <4>2, LongerStill
      <4>5. At(F[m + 1], Len(F[k - 1]), ss[k])
        BY <2>2, <4>2, <4>3, AtInLonger
      <4> QED
        BY <4>4, <4>5
    <3> QED
      BY <3>1, <3>2
  <2> QED
    BY <2>1, <2>3
<1>3. n \in T
  <2> HIDE DEF T
  <2>1. \A m \in 0 .. n : m # n /\ m \in T => m + 1 \in T
    BY <1>2
  <2>2. n \in 0 .. n
    OBVIOUS
  <2> QED
    BY <1>1, <2>1, <2>2, UpTo
<1> QED
  BY <1>3

LEMMA PiecesInPlace ==
    ASSUME NEW X, NEW ss \in Seq(Seq(X)), NEW F \in [0 .. Len(ss) -> Seq(X)], Table(ss, F)
    PROVE  Len(ss) \in Nat /\ \A n \in 0 .. Len(ss) : InPlace(n, ss, F)
<1>1. Len(ss) \in Nat /\ \A k \in 1 .. Len(ss) : ss[k] \in Seq(X)
  BY LenProperties, ElementOfSeq
<1>2. ASSUME NEW k \in 1 .. Len(ss)
      PROVE  /\ Longer(F[k - 1], F[k])
             /\ At(F[k], Len(F[k - 1]), ss[k])
             /\ Len(ss[k]) \in Nat
             /\ Len(F[k]) = Len(F[k - 1]) + Len(ss[k])
  <2>1. k - 1 \in 0 .. Len(ss)
    BY <1>1
  <2>2. PICK s, t : s = F[k - 1] /\ t = ss[k]
    OBVIOUS
  <2>3. s \in Seq(X) /\ t \in Seq(X)
    BY <1>1, <2>1, <2>2
  <2>4. F[k] = s \o t
    BY <2>2, Zenon DEF Table
  <2>5. Longer(s, s \o t) /\ At(s \o t, Len(s), t) /\ Len(t) \in Nat /\ Len(s \o t) = Len(s) + Len(t)
    BY <2>3, PutBehind
  <2> QED
    BY <2>2, <2>4, <2>5, Zenon
<1>3. ASSUME NEW n \in 0 .. Len(ss), NEW k \in 1 .. n PROVE k \in 1 .. Len(ss)
  BY <1>1
<1> QED
  BY <1>1, <1>2, <1>3, Zenon DEF InPlace

-----------------------------------------------------------------------------
(* Digits and numbers.                                                       *)

DigitSet == {"0", "1", "2", "3", "4", "5", "6", "7", "8", "9"}

LEMMA TenDigits ==
    /\ Len(Digits) = 10
    /\ ToSet(Digits) = DigitSet
    /\ \A k \in 1 .. 10 : Digits[k] \in DigitSet
    /\ \A k \in 1 .. 10 : DigitOf(Digits[k]) = k - 1
    /\ \A b \in DigitSet : DigitOf(b) \in 0 .. 9
<1>1. Len(Digits) = 10
  BY DEF Digits
<1>2. DOMAIN Digits = 1 .. 10
  BY DEF Digits
<1>3. \A k \in 1 .. 10 : \/ k = 1 \/ k = 2 \/ k = 3 \/ k = 4 \/ k = 5
                         \/ k = 6 \/ k = 7 \/ k = 8 \/ k = 9 \/ k = 10
  OBVIOUS
<1>4. /\ Digits[1] = "0" /\ Digits[2] = "1" /\ Digits[3] = "2" /\ Digits[4] = "3"
      /\ Digits[5] = "4" /\ Digits[6] = "5" /\ Digits[7] = "6" /\ Digits[8] = "7"
      /\ Digits[9] = "8" /\ Digits[10] = "9"
  BY DEF Digits
<1>5. \A k \in 1 .. 10 : Digits[k] \in DigitSet
  BY <1>3, <1>4 DEF DigitSet
<1>6. \A b \in DigitSet : \E k \in 1 .. 10 : Digits[k] = b
  BY <1>4 DEF DigitSet
<1>7. ToSet(Digits) = DigitSet
  BY <1>2, <1>5, <1>6 DEF ToSet
<1>8. \A j, k \in 1 .. 10 : Digits[j] = Digits[k] => j = k
  BY <1>3, <1>4
<1>9. ASSUME NEW k \in 1 .. 10 PROVE DigitOf(Digits[k]) = k - 1
  <2>1. (CHOOSE n \in 1 .. 10 : Digits[n] = Digits[k]) = k
    BY <1>8
  <2> QED
    BY <2>1 DEF DigitOf
<1>10. ASSUME NEW b \in DigitSet PROVE DigitOf(b) \in 0 .. 9
  <2>1. PICK k \in 1 .. 10 : Digits[k] = b
    BY <1>6
  <2>2. DigitOf(b) = k - 1
    BY <1>9, <2>1
  <2> QED
    BY <2>2
<1> QED
  BY <1>1, <1>5, <1>7, <1>9, <1>10

\* What NumberOf makes, from any function that counts as it does.
LEMMA NumberIs ==
    ASSUME NEW s, Len(s) \in Nat, NEW f, f[0] = 0,
           \A k \in 1 .. Len(s) : f[k] = f[k - 1] * 10 + DigitOf(s[k])
    PROVE  NumberOf(s) = f[Len(s)]
<1> DEFINE Is(g) == g = [k \in 0 .. Len(s) |->
                            IF k = 0 THEN 0 ELSE g[k - 1] * 10 + DigitOf(s[k])]
           f0 == [k \in 0 .. Len(s) |-> f[k]]
           g == CHOOSE g : Is(g)
<1>1. Is(f0)
  <2>1. ASSUME NEW k \in 0 .. Len(s)
        PROVE  f[k] = IF k = 0 THEN 0 ELSE f0[k - 1] * 10 + DigitOf(s[k])
    <3>1. CASE k # 0
      <4>1. k - 1 \in 0 .. Len(s) /\ k \in 1 .. Len(s)
        BY <3>1
      <4> QED
        BY <3>1, <4>1
    <3> QED
      BY <3>1
  <2> QED
    BY <2>1
<1>2. Is(g)
  BY <1>1
<1>3. \A k \in 0 .. Len(s) : g[k] = IF k = 0 THEN 0 ELSE g[k - 1] * 10 + DigitOf(s[k])
  BY <1>2
<1>4. NumberOf(s) = g[Len(s)]
  BY DEF NumberOf
<1> HIDE DEF g
<1> DEFINE T == {k \in 0 .. Len(s) : g[k] = f[k]}
<1>5. 0 \in T
  BY <1>3
<1>6. ASSUME NEW k \in 0 .. Len(s), k # Len(s), k \in T PROVE k + 1 \in T
  <2>1. k + 1 \in 1 .. Len(s) /\ k + 1 \in 0 .. Len(s) /\ (k + 1) - 1 = k /\ k + 1 # 0
    BY <1>6
  <2>2. g[k] = f[k]
    BY <1>6
  <2>3. g[k + 1] = g[k] * 10 + DigitOf(s[k + 1])
    BY <1>3, <2>1
  <2>4. f[k + 1] = f[k] * 10 + DigitOf(s[k + 1])
    BY <2>1
  <2> QED
    BY <2>1, <2>2, <2>3, <2>4
<1>7. Len(s) \in T
  <2> HIDE DEF T
  <2>1. \A k \in 0 .. Len(s) : k # Len(s) /\ k \in T => k + 1 \in T
    BY <1>6
  <2>2. Len(s) \in 0 .. Len(s)
    OBVIOUS
  <2> QED
    BY <1>5, <2>1, <2>2, UpTo
<1> QED
  BY <1>4, <1>7

\* Some function counts so.
LEMMA Counting ==
    ASSUME NEW s \in Seq(DigitSet)
    PROVE  \E f \in [0 .. Len(s) -> Nat] :
             f[0] = 0 /\ \A k \in 1 .. Len(s) : f[k] = f[k - 1] * 10 + DigitOf(s[k])
<1>1. Len(s) \in Nat
  BY LenProperties
<1>2. ASSUME NEW k \in 1 .. Len(s) PROVE DigitOf(s[k]) \in 0 .. 9
  <2>1. s[k] \in DigitSet
    BY ElementOfSeq
  <2> QED
    BY <2>1, TenDigits
<1> DEFINE T == {n \in 0 .. Len(s) : \E f \in [0 .. n -> Nat] :
                   f[0] = 0 /\ \A k \in 1 .. n : f[k] = f[k - 1] * 10 + DigitOf(s[k])}
<1>3. 0 \in T
  <2> DEFINE f == [k \in 0 .. 0 |-> 0]
  <2>1. f \in [0 .. 0 -> Nat] /\ f[0] = 0
    OBVIOUS
  <2>2. \A k \in 1 .. 0 : f[k] = f[k - 1] * 10 + DigitOf(s[k])
    OBVIOUS
  <2>3. 0 \in 0 .. Len(s)
    BY <1>1
  <2> HIDE DEF f
  <2> QED
    BY <2>1, <2>2, <2>3
<1>4. ASSUME NEW n \in 0 .. Len(s), n # Len(s), n \in T PROVE n + 1 \in T
  <2>1. PICK f \in [0 .. n -> Nat] :
           f[0] = 0 /\ \A k \in 1 .. n : f[k] = f[k - 1] * 10 + DigitOf(s[k])
    BY <1>4
  <2>2. n + 1 \in 1 .. Len(s) /\ n + 1 \in 0 .. Len(s) /\ n \in Nat
    BY <1>1, <1>4
  <2> DEFINE g == [k \in 0 .. n + 1 |-> IF k <= n THEN f[k] ELSE f[n] * 10 + DigitOf(s[n + 1])]
  <2>3. f[n] * 10 + DigitOf(s[n + 1]) \in Nat
    <3>1. f[n] \in Nat
      BY <2>2
    <3>2. DigitOf(s[n + 1]) \in 0 .. 9
      BY <1>2, <2>2
    <3> HIDE DEF T
    <3> QED
      BY <3>1, <3>2
  <2>4. g \in [0 .. n + 1 -> Nat] /\ g[0] = 0
    BY <2>1, <2>2, <2>3
  <2>5. ASSUME NEW k \in 1 .. n + 1 PROVE g[k] = g[k - 1] * 10 + DigitOf(s[k])
    <3>1. CASE k <= n
      <4>1. k \in 0 .. n + 1 /\ k - 1 \in 0 .. n + 1 /\ k - 1 <= n /\ k \in 1 .. n
        BY <2>2, <3>1
      <4>2. g[k] = f[k] /\ g[k - 1] = f[k - 1]
        BY <3>1, <4>1
      <4> HIDE DEF g
      <4> QED
        BY <2>1, <4>1, <4>2
    <3>2. CASE ~(k <= n)
      <4>1. k = n + 1
        BY <2>2, <3>2
      <4>2. g[k - 1] = f[n] /\ g[k] = f[n] * 10 + DigitOf(s[n + 1])
        BY <2>2, <4>1
      <4> QED
        BY <4>1, <4>2
    <3> QED
      BY <3>1, <3>2
  <2> HIDE DEF g
  <2> QED
    BY <2>2, <2>4, <2>5
<1>5. Len(s) \in T
  <2> HIDE DEF T
  <2>1. \A k \in 0 .. Len(s) : k # Len(s) /\ k \in T => k + 1 \in T
    BY <1>4
  <2>2. Len(s) \in 0 .. Len(s)
    BY <1>1
  <2> QED
    BY <1>1, <1>3, <2>1, <2>2, UpTo
<1> QED
  BY <1>5

\* The number of some digits is a natural number, and one digit more counts
\* the others ten times.
LEMMA NumberType ==
    ASSUME NEW s \in Seq(DigitSet)
    PROVE  NumberOf(s) \in Nat
<1>1. Len(s) \in Nat /\ Len(s) \in 0 .. Len(s)
  BY LenProperties
<1>2. PICK f \in [0 .. Len(s) -> Nat] :
         f[0] = 0 /\ \A k \in 1 .. Len(s) : f[k] = f[k - 1] * 10 + DigitOf(s[k])
  BY Counting
<1>3. NumberOf(s) = f[Len(s)]
  BY <1>1, <1>2, NumberIs
<1> QED
  BY <1>1, <1>2, <1>3

LEMMA NumberOfMore ==
    ASSUME NEW s \in Seq(DigitSet), NEW b \in DigitSet
    PROVE  /\ NumberOf(<<b>>) = DigitOf(b)
           /\ NumberOf(s \o <<b>>) = NumberOf(s) * 10 + DigitOf(b)
<1> DEFINE t == s \o <<b>>
<1>1. <<b>> \in Seq(DigitSet) /\ Len(<<b>>) = 1 /\ <<b>>[1] = b
  OBVIOUS
<1>2. Len(s) \in Nat
  BY LenProperties
<1>3. /\ t \in Seq(DigitSet) /\ Len(t) = Len(s) + 1
      /\ \A k \in 1 .. Len(s) : t[k] = s[k]
      /\ t[Len(s) + 1] = b
  <2>1. /\ s \o <<b>> \in Seq(DigitSet)
        /\ Len(s \o <<b>>) = Len(s) + Len(<<b>>)
        /\ \A k \in 1 .. Len(s) : (s \o <<b>>)[k] = s[k]
        /\ \A k \in 1 .. Len(<<b>>) : (s \o <<b>>)[Len(s) + k] = <<b>>[k]
    BY <1>1, Catenated
  <2> QED
    BY <1>1, <2>1
<1> HIDE DEF t
<1>4. PICK f \in [0 .. Len(t) -> Nat] :
         f[0] = 0 /\ \A k \in 1 .. Len(t) : f[k] = f[k - 1] * 10 + DigitOf(t[k])
  BY <1>3, Counting
<1>5. NumberOf(t) = f[Len(t)]
  <2>1. Len(t) \in Nat
    BY <1>2, <1>3
  <2> QED
    BY <1>4, <2>1, NumberIs
<1>6. NumberOf(s) = f[Len(s)]
  <2>1. ASSUME NEW k \in 1 .. Len(s) PROVE f[k] = f[k - 1] * 10 + DigitOf(s[k])
    BY <1>2, <1>3, <1>4
  <2> QED
    BY <1>2, <1>4, <2>1, NumberIs
<1>7. f[Len(t)] = f[Len(s)] * 10 + DigitOf(b)
  <2>1. Len(t) \in 1 .. Len(t) /\ Len(t) - 1 = Len(s)
    BY <1>2, <1>3
  <2>2. f[Len(t)] = f[Len(t) - 1] * 10 + DigitOf(t[Len(t)])
    BY <1>4, <2>1
  <2> QED
    BY <1>3, <2>1, <2>2
<1>8. NumberOf(<<b>>) = DigitOf(b)
  <2> DEFINE h == [k \in 0 .. 1 |-> IF k = 0 THEN 0 ELSE DigitOf(b)]
  <2>1. h[0] = 0 /\ h[1] = DigitOf(b)
    OBVIOUS
  <2>2. DigitOf(b) \in 0 .. 9
    BY TenDigits
  <2>3. ASSUME NEW k \in 1 .. Len(<<b>>) PROVE h[k] = h[k - 1] * 10 + DigitOf(<<b>>[k])
    <3>1. k = 1 /\ k - 1 = 0
      BY <1>1
    <3> HIDE DEF h
    <3> QED
      BY <1>1, <2>1, <2>2, <3>1
  <2> HIDE DEF h
  <2>4. NumberOf(<<b>>) = h[Len(<<b>>)]
    BY <1>1, <2>1, <2>3, NumberIs
  <2> QED
    BY <1>1, <2>1, <2>4
<1> QED
  BY <1>5, <1>6, <1>7, <1>8 DEF t

\* The digits of a number, from those of a tenth of it.
Numerals(n, d) ==
    \A k \in 0 .. n : d[k] = (IF k < 10 THEN <<>> ELSE d[k \div 10]) \o <<Digits[(k % 10) + 1]>>

LEMMA Tenth ==
    ASSUME NEW k \in Nat
    PROVE  /\ k \div 10 \in Nat /\ (k % 10) \in 0 .. 9 /\ k = (k \div 10) * 10 + (k % 10)
           /\ k >= 10 => k \div 10 < k
           /\ k < 10 => k % 10 = k
  OBVIOUS

LEMMA NumeralsExist ==
    ASSUME NEW n \in Nat
    PROVE  \E d \in [0 .. n -> Seq(DigitSet)] : Numerals(n, d)
<1> DEFINE Next1(d, k) == (IF k < 10 THEN <<>> ELSE d[k \div 10]) \o <<Digits[(k % 10) + 1]>>
           T == {m \in 0 .. n : \E d \in [0 .. m -> Seq(DigitSet)] :
                                   \A k \in 0 .. m : d[k] = Next1(d, k)}
<1>1. ASSUME NEW k \in Nat, NEW s \in Seq(DigitSet)
      PROVE  s \o <<Digits[(k % 10) + 1]>> \in Seq(DigitSet)
  <2>1. (k % 10) + 1 \in 1 .. 10
    BY Tenth
  <2>2. Digits[(k % 10) + 1] \in DigitSet
    BY <2>1, TenDigits
  <2>3. <<Digits[(k % 10) + 1]>> \in Seq(DigitSet)
    BY <2>2
  <2> QED
    BY <2>3, ConcatProperties
<1>2. <<>> \in Seq(DigitSet)
  BY EmptySeq
<1>3. 0 \in T
  <2> DEFINE d == [k \in 0 .. 0 |-> <<>> \o <<Digits[(k % 10) + 1]>>]
  <2>1. d \in [0 .. 0 -> Seq(DigitSet)]
    <3>1. ASSUME NEW k \in 0 .. 0 PROVE <<>> \o <<Digits[(k % 10) + 1]>> \in Seq(DigitSet)
      <4>1. k \in Nat
        OBVIOUS
      <4> QED
        BY <1>1, <1>2, <4>1
    <3> QED
      BY <3>1
  <2>2. \A k \in 0 .. 0 : d[k] = Next1(d, k)
    OBVIOUS
  <2>3. 0 \in 0 .. n
    OBVIOUS
  <2> HIDE DEF d, Next1
  <2> QED
    BY <2>1, <2>2, <2>3
<1>4. ASSUME NEW m \in 0 .. n, m # n, m \in T PROVE m + 1 \in T
  <2>1. PICK d \in [0 .. m -> Seq(DigitSet)] : \A k \in 0 .. m : d[k] = Next1(d, k)
    BY <1>4
  <2> DEFINE g == [k \in 0 .. m + 1 |-> IF k <= m THEN d[k] ELSE Next1(d, m + 1)]
  <2>2. m + 1 \in 0 .. n /\ m \in Nat /\ m + 1 \in Nat
    BY <1>4
  <2>3. Next1(d, m + 1) \in Seq(DigitSet)
    <3>1. CASE m + 1 < 10
      BY <1>1, <1>2, <2>2, <3>1
    <3>2. CASE ~(m + 1 < 10)
      <4>1. (m + 1) \div 10 \in 0 .. m
        BY <2>2, <3>2, Tenth
      <4>2. d[(m + 1) \div 10] \in Seq(DigitSet)
        BY <4>1
      <4> QED
        BY <1>1, <2>2, <3>2, <4>2
    <3> QED
      BY <3>1, <3>2
  <2>4. g \in [0 .. m + 1 -> Seq(DigitSet)]
    <3> HIDE DEF Next1
    <3> QED
      BY <2>2, <2>3
  <2>5. ASSUME NEW k \in 0 .. m + 1 PROVE g[k] = Next1(g, k)
    <3>1. g[k] = Next1(d, k)
      <4> HIDE DEF Next1
      <4>1. CASE k <= m
        BY <2>1, <2>2, <4>1
      <4>2. CASE ~(k <= m)
        <5>1. k = m + 1
          BY <2>2, <4>2
        <5> QED
          BY <2>2, <4>2, <5>1
      <4> QED
        BY <4>1, <4>2
    <3>2. CASE k < 10
      BY <3>1, <3>2
    <3>3. CASE ~(k < 10)
      <4>1. k \div 10 \in 0 .. m + 1 /\ k \div 10 <= m
        BY <2>2, <3>3, Tenth
      <4>2. g[k \div 10] = d[k \div 10]
        BY <4>1
      <4> HIDE DEF g
      <4> QED
        BY <3>1, <3>3, <4>2
    <3> QED
      BY <3>2, <3>3
  <2> HIDE DEF g, Next1
  <2> QED
    BY <2>2, <2>4, <2>5
<1>5. n \in T
  <2> HIDE DEF T
  <2>1. \A m \in 0 .. n : m # n /\ m \in T => m + 1 \in T
    BY <1>4
  <2>2. n \in 0 .. n
    OBVIOUS
  <2> QED
    BY <1>3, <2>1, <2>2, UpTo
<1> QED
  BY <1>5 DEF Numerals

\* From the digits that __put_int and __put_string (serializer.c) write of a
\* number, __get_int and __get_str read the same number, whatever it is.
THEOREM DecimalReadBack ==
    ASSUME NEW n \in Nat
    PROVE  /\ Decimal(n) \in Seq(DigitSet)
           /\ Len(Decimal(n)) \in Nat \ {0}
           /\ NumberOf(Decimal(n)) = n
<1> DEFINE Is(d) == d = [k \in 0 .. n |-> (IF k < 10 THEN <<>> ELSE d[k \div 10])
                                           \o <<Digits[(k % 10) + 1]>>]
           d == CHOOSE d : Is(d)
<1>1. \E f : Is(f)
  <2>1. PICK f \in [0 .. n -> Seq(DigitSet)] : Numerals(n, f)
    BY NumeralsExist
  <2>2. f = [k \in 0 .. n |-> f[k]]
    OBVIOUS
  <2>3. f = [k \in 0 .. n |-> (IF k < 10 THEN <<>> ELSE f[k \div 10]) \o <<Digits[(k % 10) + 1]>>]
    BY <2>1, <2>2 DEF Numerals
  <2> QED
    BY <2>3
<1>2. Is(d)
  BY <1>1
<1>3. \A k \in 0 .. n : d[k] = (IF k < 10 THEN <<>> ELSE d[k \div 10]) \o <<Digits[(k % 10) + 1]>>
  BY <1>2
<1>4. Decimal(n) = d[n]
  BY DEF Decimal
<1> HIDE DEF d
<1> DEFINE Good(k) == d[k] \in Seq(DigitSet) /\ Len(d[k]) \in Nat \ {0} /\ NumberOf(d[k]) = k
           Wrong == {k \in 0 .. n : ~Good(k)}
<1>5. Wrong = {}
  <2> SUFFICES ASSUME Wrong # {} PROVE FALSE
    OBVIOUS
  <2>1. Wrong \in SUBSET Nat
    OBVIOUS
  <2>2. PICK k \in Wrong : \A j \in Wrong : k <= j
    <3> HIDE DEF Wrong
    <3> QED
      BY <2>1, SmallestOf
  <2>3. k \in 0 .. n /\ k \in Nat
    OBVIOUS
  <2> DEFINE b == Digits[(k % 10) + 1]
  <2>4. b \in DigitSet /\ DigitOf(b) = k % 10
    <3>1. (k % 10) + 1 \in 1 .. 10 /\ ((k % 10) + 1) - 1 = k % 10
      BY <2>3, Tenth
    <3> QED
      BY <3>1, TenDigits
  <2>5. <<b>> \in Seq(DigitSet) /\ Len(<<b>>) = 1
    BY <2>4
  <2>6. CASE k < 10
    <3>1. d[k] = <<>> \o <<b>>
      BY <1>3, <2>3, <2>6
    <3>2. d[k] = <<b>>
      BY <2>5, <3>1, ConcatEmptySeq
    <3>3. NumberOf(<<b>>) = DigitOf(b)
      BY <2>4, NumberOfMore, EmptySeq
    <3>4. k % 10 = k
      BY <2>3, <2>6, Tenth
    <3> HIDE DEF b
    <3>5. NumberOf(d[k]) = k
      BY <2>4, <3>2, <3>3, <3>4
    <3>6. d[k] \in Seq(DigitSet) /\ Len(d[k]) = 1
      BY <2>5, <3>2
    <3>7. Good(k)
      BY <3>5, <3>6
    <3> QED
      BY <2>2, <3>7
  <2>7. CASE ~(k < 10)
    <3> DEFINE j == k \div 10
    <3>1. j \in 0 .. n /\ j < k /\ j \in Nat /\ k = j * 10 + (k % 10)
      BY <2>3, <2>7, Tenth
    <3> HIDE DEF j
    <3>2. Good(j)
      BY <2>2, <2>3, <3>1
    <3>3. d[k] = d[j] \o <<b>>
      BY <1>3, <2>3, <2>7 DEF j
    <3> HIDE DEF b
    <3>4. NumberOf(d[j] \o <<b>>) = NumberOf(d[j]) * 10 + DigitOf(b)
      BY <2>4, <3>2, NumberOfMore
    <3>5. d[j] \o <<b>> \in Seq(DigitSet) /\ Len(d[j] \o <<b>>) = Len(d[j]) + 1
      BY <2>5, <3>2, ConcatProperties
    <3>6. NumberOf(d[k]) = k
      BY <2>4, <3>1, <3>2, <3>3, <3>4
    <3>7. Len(d[k]) \in Nat \ {0}
      BY <3>2, <3>3, <3>5
    <3>8. Good(k)
      BY <3>3, <3>5, <3>6, <3>7
    <3> QED
      BY <2>2, <3>8
  <2> QED
    BY <2>6, <2>7
<1>6. Good(n)
  BY <1>5
<1> QED
  BY <1>4, <1>6

-----------------------------------------------------------------------------
(* Where digits stand in data, and what is read from them.                   *)

LEMMA DigitsEndIs ==
    ASSUME NEW data, Len(data) \in Nat, NEW n \in 0 .. Len(data)
    PROVE  /\ DigitsEnd(data, n) \in n .. Len(data)
           /\ \A j \in n + 1 .. DigitsEnd(data, n) : data[j] \in DigitSet
           /\ DigitsEnd(data, n) # Len(data) => data[DigitsEnd(data, n) + 1] \notin DigitSet
<1>1. \A b : IsDigit(b) <=> b \in DigitSet
  BY TenDigits DEF IsDigit
<1> DEFINE N == {k \in n + 1 .. Len(data) : ~IsDigit(data[k])}
           First(k) == ~IsDigit(data[k]) /\ \A j \in n + 1 .. k - 1 : IsDigit(data[j])
<1>2. CASE N = {}
  <2>1. DigitsEnd(data, n) = Len(data)
    BY <1>2 DEF DigitsEnd
  <2>2. \A j \in n + 1 .. Len(data) : data[j] \in DigitSet
    BY <1>1, <1>2
  <2> QED
    BY <2>1, <2>2
<1>3. CASE N # {}
  <2>1. N \in SUBSET Nat
    OBVIOUS
  <2>2. PICK m \in N : \A j \in N : m <= j
    <3> HIDE DEF N
    <3> QED
      BY <1>3, <2>1, SmallestOf
  <2>3. m \in n + 1 .. Len(data) /\ ~IsDigit(data[m])
    OBVIOUS
  <2>4. ASSUME NEW j \in n + 1 .. m - 1 PROVE IsDigit(data[j])
    <3>1. j \in n + 1 .. Len(data) /\ ~(m <= j)
      BY <2>3
    <3> QED
      BY <2>2, <3>1
  <2>5. \E k \in n + 1 .. Len(data) : First(k)
    BY <2>3, <2>4
  <2> DEFINE c == CHOOSE k \in n + 1 .. Len(data) : First(k)
  <2>6. c \in n + 1 .. Len(data) /\ First(c)
    <3> HIDE DEF First
    <3> QED
      BY <2>5
  <2>7. DigitsEnd(data, n) = c - 1
    BY <2>3 DEF DigitsEnd
  <2> HIDE DEF c
  <2>8. c - 1 \in n .. Len(data) /\ (c - 1) + 1 = c
    BY <2>6
  <2> QED
    BY <1>1, <2>6, <2>7, <2>8
<1> QED
  BY <1>2, <1>3

\* What is at a place is the part of the data from there.
LEMMA PartAt ==
    ASSUME NEW X, NEW data \in Seq(X), NEW n \in Nat, NEW s \in Seq(X), At(data, n, s)
    PROVE  SubSeq(data, n + 1, n + Len(s)) = s
<1>1. Len(s) \in Nat /\ Len(data) \in Nat
  BY LenProperties
<1>2. n + Len(s) \in Nat /\ n <= n + Len(s) /\ n + Len(s) <= Len(data) /\ (n + Len(s)) - n = Len(s)
  BY <1>1 DEF At
<1>3. /\ SubSeq(data, n + 1, n + Len(s)) \in Seq(X)
      /\ Len(SubSeq(data, n + 1, n + Len(s))) = (n + Len(s)) - n
      /\ \A k \in 1 .. (n + Len(s)) - n : SubSeq(data, n + 1, n + Len(s))[k] = data[n + k]
  BY <1>2, Part
<1>4. \A k \in 1 .. Len(s) : SubSeq(data, n + 1, n + Len(s))[k] = s[k]
  BY <1>2, <1>3 DEF At
<1> QED
  BY <1>2, <1>3, <1>4, SeqEqual

LEMMA AllDigits ==
    ASSUME NEW data \in Seq(Byte), NEW n \in 0 .. Len(data)
    PROVE  NumberOf(SubSeq(data, n + 1, DigitsEnd(data, n))) \in Nat
<1>1. Len(data) \in Nat
  BY LenProperties
<1> DEFINE m == DigitsEnd(data, n)
<1>2. m \in n .. Len(data) /\ \A j \in n + 1 .. m : data[j] \in DigitSet
  BY <1>1, DigitsEndIs
<1> HIDE DEF m
<1>3. \A j \in n + 1 .. m : data[j] \in DigitSet
  BY <1>2
<1>4. SubSeq(data, n + 1, m) \in Seq(DigitSet)
  BY <1>1, <1>2, <1>3, SubSeqProperties
<1> QED
  BY <1>4, NumberType DEF m

\* Digits that something else follows are read as they were written.
LEMMA DigitsAt ==
    ASSUME NEW data \in Seq(Byte), NEW n \in Nat, NEW s \in Seq(DigitSet), NEW b,
           b \notin DigitSet, At(data, n, s), n + Len(s) < Len(data), data[n + Len(s) + 1] = b
    PROVE  /\ DigitsEnd(data, n) = n + Len(s)
           /\ SubSeq(data, n + 1, n + Len(s)) = s
<1>1. Len(data) \in Nat /\ Len(s) \in Nat
  BY LenProperties
<1>2. n \in 0 .. Len(data)
  BY <1>1
<1> DEFINE m == DigitsEnd(data, n)
<1>3. /\ m \in n .. Len(data)
      /\ \A j \in n + 1 .. m : data[j] \in DigitSet
      /\ m # Len(data) => data[m + 1] \notin DigitSet
  BY <1>1, <1>2, DigitsEndIs
<1> HIDE DEF m
<1>4. ~(m > n + Len(s))
  <2> SUFFICES ASSUME m > n + Len(s) PROVE FALSE
    OBVIOUS
  <2>1. n + Len(s) + 1 \in n + 1 .. m
    BY <1>1, <1>3
  <2> QED
    BY <1>3, <2>1
<1>5. ~(m < n + Len(s))
  <2> SUFFICES ASSUME m < n + Len(s) PROVE FALSE
    OBVIOUS
  <2>1. (m + 1) - n \in 1 .. Len(s) /\ n + ((m + 1) - n) = m + 1 /\ m # Len(data)
    BY <1>1, <1>3
  <2>2. data[m + 1] = s[(m + 1) - n]
    BY <2>1 DEF At
  <2>3. s[(m + 1) - n] \in DigitSet
    BY <2>1, ElementOfSeq
  <2> QED
    BY <1>3, <2>1, <2>2, <2>3
<1>6. m = n + Len(s)
  BY <1>1, <1>3, <1>4, <1>5
<1>7. s \in Seq(Byte)
  <2>1. DigitSet \subseteq Byte
    BY MessageAssumption, TenDigits
  <2>2. \A k \in 1 .. Len(s) : s[k] \in Byte
    BY <2>1, ElementOfSeq
  <2>3. s = [k \in 1 .. Len(s) |-> s[k]]
    BY LenProperties, SeqDef
  <2> QED
    BY <1>1, <2>2, <2>3, MakeSeq
<1> QED
  BY <1>6, <1>7, PartAt DEF m

\* Two pieces are at a place when the second is behind the first.
LEMMA AtBoth ==
    ASSUME NEW data, NEW n \in Nat, NEW X, NEW s \in Seq(X), NEW t \in Seq(X), At(data, n, s \o t),
           Len(data) \in Nat
    PROVE  At(data, n, s) /\ At(data, n + Len(s), t)
<1>1. Len(s) \in Nat /\ Len(t) \in Nat
  BY LenProperties
<1>2. /\ Len(s \o t) = Len(s) + Len(t)
      /\ \A k \in 1 .. Len(s) : (s \o t)[k] = s[k]
      /\ \A k \in 1 .. Len(t) : (s \o t)[Len(s) + k] = t[k]
  BY Catenated
<1>3. n + (Len(s) + Len(t)) <= Len(data)
  BY <1>2 DEF At
<1>4. ASSUME NEW k \in 1 .. Len(s) PROVE data[n + k] = s[k]
  <2>1. k \in 1 .. Len(s \o t)
    BY <1>1, <1>2
  <2> QED
    BY <1>2, <2>1 DEF At
<1>5. ASSUME NEW k \in 1 .. Len(t) PROVE data[n + Len(s) + k] = t[k]
  <2>1. Len(s) + k \in 1 .. Len(s \o t) /\ n + (Len(s) + k) = n + Len(s) + k
    BY <1>1, <1>2
  <2>2. data[n + (Len(s) + k)] = (s \o t)[Len(s) + k]
    BY <2>1 DEF At
  <2> QED
    BY <1>2, <2>1, <2>2
<1> QED
  BY <1>1, <1>3, <1>4, <1>5 DEF At

LEMMA WireBytes ==
    /\ DigitSet \subseteq Byte
    /\ {"-", ":", "i", "d", "e"} \subseteq Byte
    /\ "-" \notin DigitSet /\ ":" \notin DigitSet /\ "i" \notin DigitSet
    /\ "d" \notin DigitSet /\ "l" \notin DigitSet /\ "e" \notin DigitSet
<1>1. DigitSet \subseteq Byte /\ {"-", ":", "i", "d", "e"} \subseteq Byte
  BY MessageAssumption, TenDigits
<1> QED
  BY <1>1 DEF DigitSet

LEMMA BytesOfDigits ==
    ASSUME NEW s \in Seq(DigitSet)
    PROVE  s \in Seq(Byte)
<1>1. \A k \in 1 .. Len(s) : s[k] \in Byte
  BY WireBytes, ElementOfSeq
<1>2. s = [k \in 1 .. Len(s) |-> s[k]] /\ Len(s) \in Nat
  BY LenProperties, SeqDef
<1> QED
  BY <1>1, <1>2, MakeSeq

\* The digits of a number with something behind them that is none.
LEMMA DecimalAt ==
    ASSUME NEW data \in Seq(Byte), NEW n \in Nat, NEW v \in Nat, NEW b \in Byte, b \notin DigitSet,
           At(data, n, Decimal(v) \o <<b>>)
    PROVE  /\ DigitsEnd(data, n) = n + Len(Decimal(v))
           /\ NumberOf(SubSeq(data, n + 1, n + Len(Decimal(v)))) = v
           /\ data[n + Len(Decimal(v)) + 1] = b
           /\ data[n + 1] \in DigitSet
           /\ n + Len(Decimal(v)) < Len(data)
           /\ Len(Decimal(v) \o <<b>>) = Len(Decimal(v)) + 1
           /\ Decimal(v) \o <<b>> \in Seq(Byte)
           /\ Len(Decimal(v)) \in Nat \ {0}
<1> DEFINE s == Decimal(v)
<1>1. s \in Seq(DigitSet) /\ s \in Seq(Byte) /\ Len(s) \in Nat \ {0} /\ NumberOf(s) = v
  BY DecimalReadBack, BytesOfDigits
<1>2. <<b>> \in Seq(Byte) /\ Len(<<b>>) = 1 /\ <<b>>[1] = b
  OBVIOUS
<1> HIDE DEF s
<1>3. Len(data) \in Nat
  BY LenProperties
<1>4. At(data, n, s) /\ At(data, n + Len(s), <<b>>)
  BY <1>1, <1>2, <1>3, AtBoth DEF s
<1>5. n + Len(s) < Len(data) /\ data[n + Len(s) + 1] = b
  BY <1>1, <1>2, <1>3, <1>4 DEF At
<1>6. DigitsEnd(data, n) = n + Len(s) /\ SubSeq(data, n + 1, n + Len(s)) = s
  BY <1>1, <1>4, <1>5, DigitsAt
<1>7. 1 \in 1 .. Len(s)
  BY <1>1
<1>8. data[n + 1] = s[1] /\ s[1] \in DigitSet
  BY <1>1, <1>4, <1>7, ElementOfSeq DEF At
<1>9. Len(s \o <<b>>) = Len(s) + 1 /\ s \o <<b>> \in Seq(Byte)
  BY <1>1, <1>2, ConcatProperties
<1> QED
  BY <1>1, <1>5, <1>6, <1>8, <1>9 DEF s

\* The length in front of a string, and its bytes when they are there.
Header(s) == Decimal(Len(s)) \o <<":">>

LEMMA HeaderType ==
    ASSUME NEW s \in Seq(Byte)
    PROVE  Header(s) \in Seq(Byte) /\ Len(Header(s)) \in Nat \ {0, 1}
<1>1. Len(s) \in Nat
  BY LenProperties
<1>2. Decimal(Len(s)) \in Seq(Byte) /\ Len(Decimal(Len(s))) \in Nat \ {0}
  BY <1>1, DecimalReadBack, BytesOfDigits
<1>3. <<":">> \in Seq(Byte) /\ Len(<<":">>) = 1
  BY WireBytes
<1>4. /\ Decimal(Len(s)) \o <<":">> \in Seq(Byte)
      /\ Len(Decimal(Len(s)) \o <<":">>) = Len(Decimal(Len(s))) + 1
  BY <1>2, <1>3, ConcatProperties
<1> QED
  BY <1>2, <1>4 DEF Header

\* A length that a size_t holds is read as it is.
LEMMA LengthsFit ==
    /\ \A l \in Nat : l % SizeLimit \in Nat
    /\ \A l \in Nat : l < SizeLimit => l % SizeLimit = l
<1> SizeLimit \in Nat /\ SizeLimit > 0
  BY SizeAssumption
<1>1. ASSUME NEW l \in Nat PROVE l % SizeLimit \in Nat
  OBVIOUS
<1>2. ASSUME NEW l \in Nat, l < SizeLimit PROVE l % SizeLimit = l
  BY <1>2
<1> QED
  BY <1>1, <1>2

LEMMA StringRead ==
    ASSUME NEW data \in Seq(Byte), NEW n \in Nat, NEW s \in Seq(Byte), s # <<>>,
           Len(s) < SizeLimit, At(data, n, Header(s))
    PROVE  /\ data[n + 1] \in DigitSet
           /\ At(data, n + Len(Header(s)), s) =>
                 GetStr(data, n) = Found(SnStr(s), n + Len(Header(s)) + Len(s))
           /\ Len(data) < n + Len(Header(s)) + Len(s) => ~GetStr(data, n).ok
<1>1. Len(s) \in Nat /\ Len(s) # 0 /\ Len(data) \in Nat
  BY LenProperties, EmptySeq
<1> DEFINE d == Len(Decimal(Len(s)))
<1>2. /\ DigitsEnd(data, n) = n + d
      /\ NumberOf(SubSeq(data, n + 1, n + d)) % SizeLimit = Len(s)
      /\ data[n + d + 1] = ":"
      /\ data[n + 1] \in DigitSet
      /\ n + d < Len(data)
      /\ Len(Header(s)) = d + 1
      /\ d \in Nat
  <2>1. /\ DigitsEnd(data, n) = n + d
        /\ NumberOf(SubSeq(data, n + 1, n + d)) = Len(s)
        /\ data[n + d + 1] = ":"
        /\ data[n + 1] \in DigitSet
        /\ n + d < Len(data)
        /\ Len(Header(s)) = d + 1
        /\ d \in Nat
    BY <1>1, WireBytes, DecimalAt DEF Header
  <2>2. Len(s) % SizeLimit = Len(s)
    BY <1>1, LengthsFit
  <2> QED
    BY <2>1, <2>2, Zenon
<1> HIDE DEF d
<1>3. ASSUME At(data, n + Len(Header(s)), s)
      PROVE  GetStr(data, n) = Found(SnStr(s), n + Len(Header(s)) + Len(s))
  <2>1. At(data, n + d + 1, s) /\ n + d + 1 \in Nat
    BY <1>2, <1>3
  <2>2. SubSeq(data, n + d + 2, n + d + 1 + Len(s)) = s
    <3>1. SubSeq(data, (n + d + 1) + 1, (n + d + 1) + Len(s)) = s
      BY <2>1, PartAt
    <3>2. (n + d + 1) + 1 = n + d + 2
      BY <1>2
    <3> QED
      BY <3>1, <3>2
  <2>3. ~(Len(data) < n + d + 1 + Len(s)) /\ n + d # Len(data)
    BY <1>1, <1>2, <2>1 DEF At
  <2>4. GetStr(data, n) = Found(SnStr(s), n + d + 1 + Len(s))
    BY <1>1, <1>2, <2>2, <2>3 DEF GetStr
  <2>5. n + d + 1 + Len(s) = n + Len(Header(s)) + Len(s)
    BY <1>1, <1>2
  <2> QED
    BY <2>4, <2>5
<1>4. ASSUME Len(data) < n + Len(Header(s)) + Len(s) PROVE ~GetStr(data, n).ok
  <2>1. Len(data) < n + d + 1 + Len(s)
    BY <1>1, <1>2, <1>4
  <2>2. GetStr(data, n) = Bad(n)
    BY <1>2, <2>1 DEF GetStr
  <2> QED
    BY <2>2 DEF Bad
<1> QED
  BY <1>2, <1>3, <1>4

\* What a piece of data is read as ends in the data.
Ends(r, n, data) == r.ok => r.erased \in n + 1 .. Len(data)

LEMMA StringEnds ==
    ASSUME NEW data \in Seq(Byte), NEW n \in 0 .. Len(data)
    PROVE  Ends(GetStr(data, n), n, data)
<1>1. Len(data) \in Nat
  BY LenProperties
<1> DEFINE m == DigitsEnd(data, n)
           l == NumberOf(SubSeq(data, n + 1, m)) % SizeLimit
<1>2. m \in n .. Len(data) /\ l \in Nat
  BY <1>1, DigitsEndIs, AllDigits, LengthsFit
<1>3. \/ GetStr(data, n) = Bad(n)
      \/ /\ GetStr(data, n) = Found(SnStr(SubSeq(data, m + 2, m + 1 + l)), m + 1 + l)
         /\ ~(Len(data) < m + 1 + l)
  BY DEF GetStr
<1> HIDE DEF m, l
<1>4. ASSUME ~(Len(data) < m + 1 + l) PROVE m + 1 + l \in n + 1 .. Len(data)
  BY <1>1, <1>2, <1>4
<1>5. CASE GetStr(data, n) = Bad(n)
  BY <1>5 DEF Ends, Bad
<1>6. CASE /\ GetStr(data, n) = Found(SnStr(SubSeq(data, m + 2, m + 1 + l)), m + 1 + l)
           /\ ~(Len(data) < m + 1 + l)
  <2>1. GetStr(data, n).erased = m + 1 + l
    BY <1>6 DEF Found
  <2> QED
    BY <1>4, <1>6, <2>1 DEF Ends
<1> QED
  BY <1>3, <1>5, <1>6

LEMMA IntEnds ==
    ASSUME NEW data \in Seq(Byte), NEW n \in 0 .. Len(data)
    PROVE  Ends(GetInt(data, n), n, data)
<1>1. Len(data) \in Nat
  BY LenProperties
<1> DEFINE neg == n < Len(data) /\ data[n + 1] = "-"
           first == IF neg THEN n + 1 ELSE n
           m == DigitsEnd(data, first)
           num == NumberOf(SubSeq(data, first + 1, m))
<1>2. first \in n .. Len(data) /\ first \in 0 .. Len(data)
  BY <1>1
<1>3. \/ GetInt(data, n) = Bad(n)
      \/ /\ GetInt(data, n) = Found(SnInt(IF neg THEN -num ELSE num), m + 1)
         /\ m # Len(data)
  BY DEF GetInt
<1> HIDE DEF first
<1>4. m \in first .. Len(data)
  BY <1>1, <1>2, DigitsEndIs
<1> HIDE DEF m, num, neg
<1>5. ASSUME m # Len(data) PROVE m + 1 \in n + 1 .. Len(data)
  BY <1>1, <1>2, <1>4, <1>5
<1>6. CASE GetInt(data, n) = Bad(n)
  BY <1>6 DEF Ends, Bad
<1>7. CASE /\ GetInt(data, n) = Found(SnInt(IF neg THEN -num ELSE num), m + 1)
           /\ m # Len(data)
  <2>1. GetInt(data, n).erased = m + 1
    BY <1>7 DEF Found
  <2> QED
    BY <1>5, <1>7, <2>1 DEF Ends
<1> QED
  BY <1>3, <1>6, <1>7

\* A number as __put_int writes it.
Written1(v) == <<"i">> \o (IF v < 0 THEN <<"-">> \o Decimal(-v) ELSE Decimal(v)) \o <<"e">>

LEMMA IntRead ==
    ASSUME NEW data \in Seq(Byte), NEW n \in Nat, NEW v \in Int, At(data, n, Written1(v))
    PROVE  /\ data[n + 1] = "i" /\ n + 1 <= Len(data)
           /\ GetInt(data, n + 1) = Found(SnInt(v), n + Len(Written1(v)))
<1>1. Len(data) \in Nat
  BY LenProperties
<1>2. /\ <<"i">> \in Seq(Byte) /\ <<"-">> \in Seq(Byte) /\ <<"e">> \in Seq(Byte)
      /\ Len(<<"i">>) = 1 /\ Len(<<"-">>) = 1 /\ Len(<<"e">>) = 1
  BY WireBytes
<1> DEFINE w == IF v < 0 THEN -v ELSE v
           sign == IF v < 0 THEN <<"i">> \o <<"-">> ELSE <<"i">>
           k == Len(sign)
<1>3. w \in Nat
  OBVIOUS
<1>4. Decimal(w) \in Seq(Byte) /\ Len(Decimal(w)) \in Nat \ {0}
  BY <1>3, DecimalReadBack, BytesOfDigits
<1>5. sign \in Seq(Byte) /\ k = IF v < 0 THEN 2 ELSE 1
  BY <1>2, ConcatProperties
<1>6. /\ Decimal(w) \o <<"e">> \in Seq(Byte)
      /\ Len(Decimal(w) \o <<"e">>) = Len(Decimal(w)) + 1
  BY <1>2, <1>4, ConcatProperties
<1>7. Written1(v) = sign \o (Decimal(w) \o <<"e">>)
  <2>1. CASE v < 0
    <3>1. Written1(v) = (<<"i">> \o (<<"-">> \o Decimal(w))) \o <<"e">>
      BY <2>1 DEF Written1
    <3>2. <<"i">> \o (<<"-">> \o Decimal(w)) = (<<"i">> \o <<"-">>) \o Decimal(w)
      BY <1>2, <1>4, ConcatAssociative
    <3>3. (sign \o Decimal(w)) \o <<"e">> = sign \o (Decimal(w) \o <<"e">>)
      BY <1>2, <1>4, <1>5, ConcatAssociative
    <3> QED
      BY <2>1, <3>1, <3>2, <3>3
  <2>2. CASE ~(v < 0)
    <3>1. Written1(v) = (sign \o Decimal(w)) \o <<"e">>
      BY <2>2 DEF Written1
    <3>2. (sign \o Decimal(w)) \o <<"e">> = sign \o (Decimal(w) \o <<"e">>)
      BY <1>2, <1>4, <1>5, ConcatAssociative
    <3> QED
      BY <3>1, <3>2
  <2> QED
    BY <2>1, <2>2
<1>8. Len(Written1(v)) = k + Len(Decimal(w)) + 1
  <2>1. Len(sign \o (Decimal(w) \o <<"e">>)) = k + Len(Decimal(w) \o <<"e">>)
    BY <1>5, <1>6, ConcatProperties
  <2> QED
    BY <1>4, <1>5, <1>6, <1>7, <2>1
<1>9. At(data, n, sign) /\ At(data, n + k, Decimal(w) \o <<"e">>)
  <2> HIDE DEF sign, w
  <2> QED
    BY <1>1, <1>5, <1>6, <1>7, AtBoth
<1>10. n + k \in Nat
  BY <1>5
<1>11. /\ DigitsEnd(data, n + k) = n + k + Len(Decimal(w))
       /\ NumberOf(SubSeq(data, n + k + 1, n + k + Len(Decimal(w)))) = w
       /\ data[n + k + Len(Decimal(w)) + 1] = "e"
       /\ data[n + k + 1] \in DigitSet
       /\ n + k + Len(Decimal(w)) < Len(data)
  <2>1. "e" \in Byte /\ "e" \notin DigitSet
    BY WireBytes
  <2> HIDE DEF sign, w, k
  <2> QED
    BY <1>3, <1>9, <1>10, <2>1, DecimalAt
<1>12. data[n + 1] = "i" /\ (v < 0 => data[n + 2] = "-")
  <2>1. /\ sign[1] = "i" /\ 1 \in 1 .. k
        /\ v < 0 => sign[2] = "-" /\ 2 \in 1 .. k
    <3>1. CASE v < 0
      <4>1. /\ \A j \in 1 .. Len(<<"i">>) : (<<"i">> \o <<"-">>)[j] = <<"i">>[j]
            /\ \A j \in 1 .. Len(<<"-">>) :
                 (<<"i">> \o <<"-">>)[Len(<<"i">>) + j] = <<"-">>[j]
        BY <1>2, Catenated
      <4>2. (<<"i">> \o <<"-">>)[1] = "i" /\ (<<"i">> \o <<"-">>)[1 + 1] = "-"
        BY <1>2, <4>1
      <4>3. sign = <<"i">> \o <<"-">> /\ k = 2
        BY <1>5, <3>1
      <4> HIDE DEF sign, k
      <4> QED
        BY <3>1, <4>2, <4>3
    <3>2. CASE ~(v < 0)
      BY <3>2
    <3> QED
      BY <3>1, <3>2
  <2> HIDE DEF sign
  <2> QED
    BY <1>9, <2>1 DEF At
<1> DEFINE L == Len(Decimal(w))
<1>13. L \in Nat
  BY <1>4
<1> HIDE DEF sign
<1>14. CASE v < 0
  <2>1. k = 2 /\ n + k = n + 1 + 1 /\ w = -v /\ -w = v
    BY <1>5, <1>14
  <2>2. n + 1 < Len(data) /\ data[n + 1 + 1] = "-"
    <3>1. n + 1 + 1 = n + 2
      OBVIOUS
    <3> QED
      BY <1>1, <1>11, <1>12, <1>13, <1>14, <2>1, <3>1
  <2> HIDE DEF w, k
  <2>3. n + k + L # Len(data)
    BY <1>1, <1>11, <1>13
  <2>4. GetInt(data, n + 1) = Found(SnInt(-w), n + k + L + 1)
    BY <1>11, <2>1, <2>2, <2>3 DEF GetInt
  <2>5. n + k + L + 1 = n + Len(Written1(v))
    BY <1>8, <1>13, <2>1
  <2> QED
    BY <1>1, <1>12, <2>1, <2>2, <2>4, <2>5
<1>15. CASE ~(v < 0)
  <2>1. k = 1 /\ n + k = n + 1 /\ w = v
    BY <1>5, <1>15
  <2>2. data[n + 1 + 1] # "-"
    BY <1>11, <2>1, WireBytes
  <2> HIDE DEF w, k
  <2>3. n + k + L # Len(data) /\ n + 1 <= Len(data)
    BY <1>1, <1>11, <1>13, <2>1
  <2>4. GetInt(data, n + 1) = Found(SnInt(w), n + k + L + 1)
    BY <1>11, <2>1, <2>2, <2>3 DEF GetInt
  <2>5. n + k + L + 1 = n + Len(Written1(v))
    BY <1>8, <1>13, <2>1
  <2> QED
    BY <1>12, <2>1, <2>3, <2>4, <2>5
<1> QED
  BY <1>14, <1>15

-----------------------------------------------------------------------------
(* Reading is defined for all data: what is read at an offset depends on     *)
(* what is read behind it, and an element on none before it.                 *)

Rank(data, kind, n) == 2 * (Len(data) - n) + (IF kind = "object" THEN 0 ELSE 1)

AgreeBelow(r1, r2, data, m) ==
    \A kind \in {"object", "list", "dict"}, n \in 0 .. Len(data) :
        Rank(data, kind, n) < m =>
            r1[<<kind, n>>] = r2[<<kind, n>>] /\ Ends(r1[<<kind, n>>], n, data)

LEMMA ObjectLocal ==
    ASSUME NEW data \in Seq(Byte), NEW n \in 0 .. Len(data), NEW r1, NEW r2,
           AgreeBelow(r1, r2, data, Rank(data, "object", n))
    PROVE  /\ GetObject(r1, data, n) = GetObject(r2, data, n)
           /\ Ends(GetObject(r1, data, n), n, data)
<1>1. Len(data) \in Nat
  BY LenProperties
<1>2. CASE n = Len(data)
  BY <1>2 DEF GetObject, Ends, Bad
<1>3. CASE n < Len(data)
  <2>1. n + 1 \in 0 .. Len(data)
    BY <1>1, <1>3
  <2>2. /\ Rank(data, "list", n + 1) < Rank(data, "object", n)
        /\ Rank(data, "dict", n + 1) < Rank(data, "object", n)
    BY <1>1 DEF Rank
  <2>3. /\ r1[<<"list", n + 1>>] = r2[<<"list", n + 1>>]
        /\ Ends(r1[<<"list", n + 1>>], n + 1, data)
        /\ r1[<<"dict", n + 1>>] = r2[<<"dict", n + 1>>]
        /\ Ends(r1[<<"dict", n + 1>>], n + 1, data)
    BY <2>1, <2>2 DEF AgreeBelow
  <2>4. \A r : Ends(r, n + 1, data) => Ends(r, n, data)
    BY <1>1 DEF Ends
  <2>10. ~IsDigit("i") /\ ~IsDigit("l") /\ ~IsDigit("d") /\ n # Len(data)
    BY <1>1, <1>3, WireBytes, TenDigits DEF IsDigit
  <2>5. CASE data[n + 1] = "i"
    <3>1. \A r : GetObject(r, data, n) = GetInt(data, n + 1)
      BY <1>3, <2>5, <2>10 DEF GetObject
    <3> QED
      BY <2>1, <2>4, <3>1, IntEnds
  <2>6. CASE data[n + 1] = "l"
    <3>1. \A r : GetObject(r, data, n) = r[<<"list", n + 1>>]
      BY <1>3, <2>6, <2>10 DEF GetObject
    <3> QED
      BY <2>3, <2>4, <3>1
  <2>7. CASE data[n + 1] = "d"
    <3>1. \A r : GetObject(r, data, n) =
             LET s == r[<<"dict", n + 1>>]
             IN  IF s.ok THEN Found(SnDict(Inserted(s.obj.v)), s.erased) ELSE s
      BY <1>3, <2>7, <2>10 DEF GetObject
    <3> DEFINE s1 == r1[<<"dict", n + 1>>]
    <3>2. GetObject(r1, data, n) = IF s1.ok THEN Found(SnDict(Inserted(s1.obj.v)), s1.erased) ELSE s1
      BY <3>1
    <3>3. GetObject(r2, data, n) = IF s1.ok THEN Found(SnDict(Inserted(s1.obj.v)), s1.erased) ELSE s1
      BY <2>3, <3>1
    <3>4. Ends(s1, n, data)
      BY <2>3, <2>4
    <3> HIDE DEF s1
    <3>5. Ends(GetObject(r1, data, n), n, data)
      <4>1. CASE s1.ok
        <5>1. GetObject(r1, data, n).erased = s1.erased
          BY <3>2, <4>1 DEF Found
        <5> QED
          BY <3>4, <4>1, <5>1 DEF Ends
      <4>2. CASE ~s1.ok
        BY <3>2, <3>4, <4>2
      <4> QED
        BY <4>1, <4>2
    <3> QED
      BY <3>2, <3>3, <3>5
  <2>8. CASE data[n + 1] \notin {"i", "l", "d"} /\ IsDigit(data[n + 1])
    <3>1. \A r : GetObject(r, data, n) = GetStr(data, n)
      BY <1>3, <2>8, <2>10 DEF GetObject
    <3> QED
      BY <3>1, StringEnds
  <2>9. CASE data[n + 1] \notin {"i", "l", "d"} /\ ~IsDigit(data[n + 1])
    <3>1. \A r : GetObject(r, data, n) = Bad(n)
      BY <1>3, <2>9, <2>10 DEF GetObject
    <3>2. GetObject(r1, data, n) = Bad(n) /\ GetObject(r2, data, n) = Bad(n)
      BY <3>1
    <3>3. ~Bad(n).ok
      BY DEF Bad
    <3> QED
      BY <3>2, <3>3 DEF Ends
  <2> QED
    BY <2>5, <2>6, <2>7, <2>8, <2>9
<1> QED
  BY <1>1, <1>2, <1>3

LEMMA ListLocal ==
    ASSUME NEW data \in Seq(Byte), NEW n \in 0 .. Len(data), NEW r1, NEW r2,
           AgreeBelow(r1, r2, data, Rank(data, "list", n))
    PROVE  /\ GetList(r1, data, n) = GetList(r2, data, n)
           /\ Ends(GetList(r1, data, n), n, data)
<1>1. Len(data) \in Nat
  BY LenProperties
<1>2. CASE n = Len(data)
  BY <1>2 DEF GetList, Ends, Bad
<1>3. CASE n # Len(data) /\ data[n + 1] = "e"
  <2>1. \A r : GetList(r, data, n) = Found(SnList(<<>>), n + 1)
    BY <1>3 DEF GetList
  <2>2. n + 1 \in n + 1 .. Len(data)
    BY <1>1, <1>3
  <2>3. /\ GetList(r1, data, n) = Found(SnList(<<>>), n + 1)
        /\ GetList(r2, data, n) = Found(SnList(<<>>), n + 1)
    BY <2>1
  <2>4. Found(SnList(<<>>), n + 1).erased = n + 1
    BY DEF Found
  <2> QED
    BY <2>2, <2>3, <2>4 DEF Ends
<1>4. CASE n # Len(data) /\ data[n + 1] # "e"
  <2>1. Rank(data, "object", n) < Rank(data, "list", n)
    BY <1>1 DEF Rank
  <2> DEFINE elt == r1[<<"object", n>>]
             p == elt.erased
             rest == r1[<<"list", p>>]
  <2>2. elt = r2[<<"object", n>>] /\ Ends(elt, n, data)
    BY <2>1 DEF AgreeBelow
  <2>3. /\ GetList(r1, data, n) = (IF ~elt.ok THEN elt ELSE IF ~rest.ok THEN rest
                                  ELSE Found(SnList(<<elt.obj>> \o rest.obj.v), rest.erased))
        /\ GetList(r2, data, n) = (IF ~elt.ok THEN elt
                                  ELSE IF ~r2[<<"list", p>>].ok THEN r2[<<"list", p>>]
                                  ELSE Found(SnList(<<elt.obj>> \o r2[<<"list", p>>].obj.v),
                                             r2[<<"list", p>>].erased))
    BY <1>4, <2>2 DEF GetList
  <2>4. CASE ~elt.ok
    BY <2>2, <2>3, <2>4
  <2>5. CASE elt.ok
    <3>1. p \in n + 1 .. Len(data) /\ p \in 0 .. Len(data)
      BY <1>1, <2>2, <2>5 DEF Ends
    <3>2. Rank(data, "list", p) < Rank(data, "list", n)
      BY <1>1, <3>1 DEF Rank
    <3>3. rest = r2[<<"list", p>>] /\ Ends(rest, p, data)
      BY <3>1, <3>2 DEF AgreeBelow
    <3>4. Ends(rest, n, data)
      BY <1>1, <3>1, <3>3 DEF Ends
    <3> HIDE DEF elt, p, rest
    <3>5. GetList(r1, data, n) = GetList(r2, data, n)
      BY <2>3, <2>5, <3>3
    <3>6. CASE ~rest.ok
      BY <2>3, <2>5, <3>4, <3>5, <3>6
    <3>7. CASE rest.ok
      <4>1. GetList(r1, data, n).erased = rest.erased
        BY <2>3, <2>5, <3>7 DEF Found
      <4> QED
        BY <3>4, <3>5, <3>7, <4>1 DEF Ends
    <3> QED
      BY <3>6, <3>7
  <2> QED
    BY <2>4, <2>5
<1> QED
  BY <1>2, <1>3, <1>4

LEMMA DictLocal ==
    ASSUME NEW data \in Seq(Byte), NEW n \in 0 .. Len(data), NEW r1, NEW r2,
           AgreeBelow(r1, r2, data, Rank(data, "dict", n))
    PROVE  /\ GetDict(r1, data, n) = GetDict(r2, data, n)
           /\ Ends(GetDict(r1, data, n), n, data)
<1>1. Len(data) \in Nat
  BY LenProperties
<1>2. CASE n = Len(data)
  BY <1>2 DEF GetDict, Ends, Bad
<1>3. CASE n # Len(data) /\ data[n + 1] = "e"
  <2>1. \A r : GetDict(r, data, n) = Found(SnDict(<<>>), n + 1)
    BY <1>3 DEF GetDict
  <2>2. n + 1 \in n + 1 .. Len(data)
    BY <1>1, <1>3
  <2>3. /\ GetDict(r1, data, n) = Found(SnDict(<<>>), n + 1)
        /\ GetDict(r2, data, n) = Found(SnDict(<<>>), n + 1)
    BY <2>1
  <2>4. Found(SnDict(<<>>), n + 1).erased = n + 1
    BY DEF Found
  <2> QED
    BY <2>2, <2>3, <2>4 DEF Ends
<1>4. CASE n # Len(data) /\ data[n + 1] # "e"
  <2> DEFINE key == GetStr(data, n)
             p == key.erased
             val == r1[<<"object", p>>]
             q == val.erased
             rest == r1[<<"dict", q>>]
             Made(v, r) == IF ~key.ok THEN key ELSE IF ~v.ok THEN v ELSE IF ~r.ok THEN r
                           ELSE Found(SnDict(<<Pair(key.obj.v, v.obj)>> \o r.obj.v), r.erased)
  <2>1. \A r : GetDict(r, data, n) = Made(r[<<"object", p>>], r[<<"dict", r[<<"object", p>>].erased>>])
    BY <1>4 DEF GetDict
  <2>2. Ends(key, n, data)
    BY StringEnds
  <2> HIDE DEF key
  <2>3. CASE ~key.ok
    <3>1. \A r : GetDict(r, data, n) = key
      BY <2>1, <2>3
    <3> QED
      BY <2>2, <3>1
  <2>4. CASE key.ok
    <3>1. p \in n + 1 .. Len(data) /\ p \in 0 .. Len(data)
      BY <1>1, <2>2, <2>4 DEF Ends
    <3> HIDE DEF p
    <3>2. Rank(data, "object", p) < Rank(data, "dict", n)
      BY <1>1, <3>1 DEF Rank
    <3>3. val = r2[<<"object", p>>] /\ Ends(val, p, data)
      BY <3>1, <3>2 DEF AgreeBelow
    <3>4. GetDict(r1, data, n) = Made(val, rest) /\ GetDict(r2, data, n) = Made(val, r2[<<"dict", q>>])
      <4> HIDE DEF Made
      <4> QED
        BY <2>1, <3>3
    <3> HIDE DEF val
    <3>5. CASE ~val.ok
      <4>1. Made(val, rest) = val /\ Made(val, r2[<<"dict", q>>]) = val
        BY <2>4, <3>5
      <4>2. Ends(val, n, data)
        BY <3>5 DEF Ends
      <4> HIDE DEF Made
      <4> QED
        BY <3>4, <4>1, <4>2
    <3>6. CASE val.ok
      <4>1. q \in p + 1 .. Len(data) /\ q \in 0 .. Len(data)
        BY <1>1, <3>1, <3>3, <3>6 DEF Ends
      <4> HIDE DEF q
      <4>2. Rank(data, "dict", q) < Rank(data, "dict", n)
        BY <1>1, <3>1, <4>1 DEF Rank
      <4>3. rest = r2[<<"dict", q>>] /\ Ends(rest, q, data)
        BY <4>1, <4>2 DEF AgreeBelow
      <4>4. Ends(rest, n, data)
        BY <1>1, <3>1, <4>1, <4>3 DEF Ends
      <4> HIDE DEF rest
      <4>5. GetDict(r1, data, n) = GetDict(r2, data, n)
        BY <3>4, <4>3
      <4>6. CASE ~rest.ok
        <5>1. Made(val, rest) = rest
          BY <2>4, <3>6, <4>6
        <5> HIDE DEF Made
        <5> QED
          BY <3>4, <4>4, <4>5, <5>1
      <4>7. CASE rest.ok
        <5>1. Made(val, rest).erased = rest.erased
          BY <2>4, <3>6, <4>7 DEF Found
        <5> HIDE DEF Made
        <5> QED
          BY <3>4, <4>4, <4>5, <4>7, <5>1 DEF Ends
      <4> QED
        BY <4>6, <4>7
    <3> QED
      BY <3>5, <3>6
  <2> QED
    BY <2>3, <2>4
<1> QED
  BY <1>2, <1>3, <1>4

LEMMA ReadLocal ==
    ASSUME NEW data \in Seq(Byte), NEW kind \in {"object", "list", "dict"},
           NEW n \in 0 .. Len(data), NEW r1, NEW r2,
           AgreeBelow(r1, r2, data, Rank(data, kind, n))
    PROVE  /\ ReadAt(r1, data, kind, n) = ReadAt(r2, data, kind, n)
           /\ Ends(ReadAt(r1, data, kind, n), n, data)
<1>1. CASE kind = "object"
  <2>1. \A r : ReadAt(r, data, kind, n) = GetObject(r, data, n)
    BY <1>1 DEF ReadAt
  <2> QED
    BY <1>1, <2>1, ObjectLocal
<1>2. CASE kind = "list"
  <2>1. \A r : ReadAt(r, data, kind, n) = GetList(r, data, n)
    BY <1>2 DEF ReadAt
  <2> QED
    BY <1>2, <2>1, ListLocal
<1>3. CASE kind = "dict"
  <2>1. \A r : ReadAt(r, data, kind, n) = GetDict(r, data, n)
    BY <1>3 DEF ReadAt
  <2> QED
    BY <1>3, <2>1, DictLocal
<1> QED
  BY <1>1, <1>2, <1>3

\* What is read of lesser ranks determines the rest, rank by rank.
ReadBelow(data, r, m) ==
    \A kind \in {"object", "list", "dict"}, n \in 0 .. Len(data) :
        Rank(data, kind, n) < m =>
            /\ r[<<kind, n>>] = ReadAt(r, data, kind, n)
            /\ Ends(r[<<kind, n>>], n, data)

LEMMA ReadMore ==
    ASSUME NEW data \in Seq(Byte), NEW m \in Nat, NEW r, ReadBelow(data, r, m)
    PROVE  \E s : ReadBelow(data, s, m + 1)
                  /\ s = [x \in Places(data) |-> ReadAt(r, data, x[1], x[2])]
<1>1. Len(data) \in Nat
  BY LenProperties
<1> DEFINE s == [x \in Places(data) |-> ReadAt(r, data, x[1], x[2])]
<1>2. ASSUME NEW kind \in {"object", "list", "dict"}, NEW n \in 0 .. Len(data)
      PROVE  s[<<kind, n>>] = ReadAt(r, data, kind, n)
  <2>1. <<kind, n>> \in Places(data) /\ <<kind, n>>[1] = kind /\ <<kind, n>>[2] = n
    BY DEF Places
  <2> QED
    BY <2>1
<1> HIDE DEF s
<1>3. ASSUME NEW kind \in {"object", "list", "dict"}, NEW n \in 0 .. Len(data),
             Rank(data, kind, n) < m + 1
      PROVE  /\ s[<<kind, n>>] = ReadAt(s, data, kind, n)
             /\ Ends(s[<<kind, n>>], n, data)
  <2>1. Rank(data, kind, n) \in Nat
    BY <1>1 DEF Rank
  <2>2. AgreeBelow(r, s, data, Rank(data, kind, n))
    <3> SUFFICES ASSUME NEW k \in {"object", "list", "dict"}, NEW j \in 0 .. Len(data),
                        Rank(data, k, j) < Rank(data, kind, n)
                 PROVE  r[<<k, j>>] = s[<<k, j>>] /\ Ends(r[<<k, j>>], j, data)
      BY DEF AgreeBelow
    <3>1. Rank(data, k, j) \in Nat
      BY <1>1 DEF Rank
    <3>2. Rank(data, k, j) < m
      BY <1>3, <2>1, <3>1
    <3> QED
      BY <1>2, <3>2 DEF ReadBelow
  <2>3. /\ ReadAt(r, data, kind, n) = ReadAt(s, data, kind, n)
        /\ Ends(ReadAt(r, data, kind, n), n, data)
    BY <2>2, ReadLocal
  <2> QED
    BY <1>2, <2>3
<1>4. ReadBelow(data, s, m + 1)
  BY <1>3 DEF ReadBelow
<1> QED
  BY <1>4 DEF s

LEMMA ReadingIs ==
    ASSUME NEW data \in Seq(Byte), NEW kind \in {"object", "list", "dict"}, NEW n \in 0 .. Len(data)
    PROVE  Reading(data)[<<kind, n>>] = ReadAt(Reading(data), data, kind, n)
<1>1. Len(data) \in Nat
  BY LenProperties
<1> DEFINE top == 2 * Len(data) + 2
           T == {m \in 0 .. top : \E r : ReadBelow(data, r, m)}
<1>2. top \in Nat
  BY <1>1
<1>3. 0 \in T
  <2>1. \A k \in {"object", "list", "dict"}, j \in 0 .. Len(data) : ~(Rank(data, k, j) < 0)
    BY <1>1 DEF Rank
  <2>2. \E r : ReadBelow(data, r, 0)
    BY <2>1 DEF ReadBelow
  <2> QED
    BY <1>2, <2>2
<1>4. ASSUME NEW m \in 0 .. top, m # top, m \in T PROVE m + 1 \in T
  <2>1. PICK r : ReadBelow(data, r, m)
    BY <1>4
  <2>2. m \in Nat /\ m + 1 \in 0 .. top
    BY <1>2, <1>4
  <2>3. \E s : ReadBelow(data, s, m + 1)
    BY <2>1, <2>2, ReadMore
  <2> QED
    BY <2>2, <2>3
<1>5. top \in T
  <2> HIDE DEF T, top
  <2>1. \A m \in 0 .. top : m # top /\ m \in T => m + 1 \in T
    BY <1>4
  <2>2. top \in 0 .. top
    BY <1>2
  <2> QED
    BY <1>2, <1>3, <2>1, <2>2, UpTo
<1>6. PICK r : ReadBelow(data, r, top)
  BY <1>5
<1> DEFINE Is(s) == s = [x \in Places(data) |-> ReadAt(s, data, x[1], x[2])]
           s0 == [x \in Places(data) |-> ReadAt(r, data, x[1], x[2])]
<1>7. ReadBelow(data, s0, top + 1)
  <2>1. \E s : ReadBelow(data, s, top + 1)
               /\ s = [x \in Places(data) |-> ReadAt(r, data, x[1], x[2])]
    <3> HIDE DEF top
    <3> QED
      BY <1>2, <1>6, ReadMore
  <2> QED
    BY <2>1
<1>8. Is(s0)
  <2>1. ASSUME NEW x \in Places(data)
        PROVE  s0[x] = ReadAt(s0, data, x[1], x[2])
    <3>1. x[1] \in {"object", "list", "dict"} /\ x[2] \in 0 .. Len(data) /\ x = <<x[1], x[2]>>
      BY DEF Places
    <3>2. Rank(data, x[1], x[2]) < top + 1
      BY <1>1, <3>1 DEF Rank
    <3> HIDE DEF s0, top
    <3> QED
      BY <1>7, <3>1, <3>2 DEF ReadBelow
  <2>2. \A x \in Places(data) : ReadAt(r, data, x[1], x[2]) = ReadAt(s0, data, x[1], x[2])
    BY <2>1
  <2>3. s0 = [x \in Places(data) |-> ReadAt(s0, data, x[1], x[2])]
    <3> DEFINE A(x) == ReadAt(r, data, x[1], x[2])
               B(x) == ReadAt(s0, data, x[1], x[2])
    <3>1. \A x \in Places(data) : A(x) = B(x)
      BY <2>2
    <3> HIDE DEF A, B
    <3>2. [x \in Places(data) |-> A(x)] = [x \in Places(data) |-> B(x)]
      BY <3>1
    <3> QED
      BY <3>2 DEF A, B
  <2> QED
    BY <2>3
<1> DEFINE read == CHOOSE s : Is(s)
<1>9. Is(read)
  <2> HIDE DEF s0
  <2> QED
    BY <1>8
<1>10. Reading(data) = read
  BY DEF Reading
<1> HIDE DEF read
<1>11. <<kind, n>> \in Places(data) /\ <<kind, n>>[1] = kind /\ <<kind, n>>[2] = n
  BY DEF Places
<1>12. read[<<kind, n>>] = ReadAt(read, data, <<kind, n>>[1], <<kind, n>>[2])
  BY <1>9, <1>11
<1> QED
  BY <1>10, <1>11, <1>12

-----------------------------------------------------------------------------
(* The pieces of a message.                                                  *)

Bytes1 == {s \in Seq(Byte) : s # <<>> /\ Len(s) < SizeLimit}

Leaf == {SnInt(v) : v \in Int} \cup {SnStr(s) : s \in Bytes1}
Field == {Pair(key, val) : key \in Bytes1, val \in Leaf}

FieldPieces(x) == PutString(x.key) \o PutLeaf(x.val)

LEMMA FieldIs ==
    ASSUME NEW x \in Field
    PROVE  /\ x.key \in Bytes1 /\ x.val \in Leaf /\ x = Pair(x.key, x.val)
           /\ \/ \E v \in Int : x.val = SnInt(v)
              \/ \E s \in Bytes1 : x.val = SnStr(s)
<1>1. PICK key \in Bytes1, val \in Leaf : x = Pair(key, val)
  BY DEF Field
<1>2. x.key = key /\ x.val = val
  BY <1>1 DEF Pair
<1> QED
  BY <1>1, <1>2 DEF Leaf

LEMMA IntBytes ==
    ASSUME NEW v \in Int
    PROVE  Written1(v) \in Seq(Byte)
<1>1. /\ <<"i">> \in Seq(Byte) /\ <<"-">> \in Seq(Byte) /\ <<"e">> \in Seq(Byte)
  BY WireBytes
<1>2. \A w \in Nat : Decimal(w) \in Seq(Byte)
  BY DecimalReadBack, BytesOfDigits
<1>3. (IF v < 0 THEN <<"-">> \o Decimal(-v) ELSE Decimal(v)) \in Seq(Byte)
  <2>1. CASE v < 0
    <3>1. Decimal(-v) \in Seq(Byte)
      BY <1>2, <2>1
    <3> QED
      BY <1>1, <2>1, <3>1, ConcatProperties
  <2>2. CASE ~(v < 0)
    BY <1>2, <2>2
  <2> QED
    BY <2>1, <2>2
<1>4. PICK w : w = (IF v < 0 THEN <<"-">> \o Decimal(-v) ELSE Decimal(v))
  OBVIOUS
<1>5. <<"i">> \o w \in Seq(Byte)
  BY <1>1, <1>3, <1>4, ConcatProperties
<1>6. (<<"i">> \o w) \o <<"e">> \in Seq(Byte)
  BY <1>1, <1>5, ConcatProperties
<1> QED
  BY <1>4, <1>6 DEF Written1

LEMMA FieldPiecesAre ==
    ASSUME NEW x \in Field
    PROVE  LET w == FieldPieces(x)
           IN  /\ w \in Seq(Seq(Byte)) /\ Len(w) \in {3, 4}
               /\ w[1] = Header(x.key) /\ w[2] = x.key
               /\ \/ /\ Len(w) = 3
                     /\ \E v \in Int : x.val = SnInt(v) /\ w[3] = Written1(v)
                  \/ /\ Len(w) = 4
                     /\ \E s \in Bytes1 : x.val = SnStr(s) /\ w[3] = Header(s) /\ w[4] = s
<1>1. x.key \in Bytes1 /\ x.val \in Leaf
  BY FieldIs
<1>2. \A s \in Bytes1 : PutString(s) = <<Header(s), s>> /\ Header(s) \in Seq(Byte) /\ s \in Seq(Byte)
  BY HeaderType DEF PutString, Header, Bytes1
<1>3. \A s \in Bytes1 : /\ <<Header(s), s>> \in Seq(Seq(Byte)) /\ Len(<<Header(s), s>>) = 2
                        /\ <<Header(s), s>>[1] = Header(s) /\ <<Header(s), s>>[2] = s
  BY <1>2
<1>4. PICK k : k = <<Header(x.key), x.key>>
  OBVIOUS
<1>5. /\ k \in Seq(Seq(Byte)) /\ Len(k) = 2 /\ k[1] = Header(x.key) /\ k[2] = x.key
      /\ PutString(x.key) = k
  BY <1>1, <1>2, <1>3, <1>4
<1>6. ASSUME NEW l \in Seq(Seq(Byte)), PutLeaf(x.val) = l
      PROVE  /\ FieldPieces(x) \in Seq(Seq(Byte)) /\ Len(FieldPieces(x)) = 2 + Len(l)
             /\ FieldPieces(x)[1] = k[1] /\ FieldPieces(x)[2] = k[2]
             /\ \A i \in 1 .. Len(l) : FieldPieces(x)[2 + i] = l[i]
  <2>1. FieldPieces(x) = k \o l
    BY <1>5, <1>6 DEF FieldPieces
  <2>2. Joined(Seq(Byte), k, l, k \o l)
    <3>1. k \in Seq(Seq(Byte)) /\ l \in Seq(Seq(Byte))
      BY <1>5, <1>6
    <3> QED
      BY <3>1, Joining
  <2>3. Joined(Seq(Byte), k, l, FieldPieces(x))
    BY <2>1, <2>2, Zenon
  <2> QED
    BY <1>5, <2>3 DEF Joined
<1>7. CASE \E v \in Int : x.val = SnInt(v)
  <2>1. PICK v \in Int : x.val = SnInt(v)
    BY <1>7
  <2>2. PutLeaf(x.val) = <<Written1(v)>>
    BY <2>1 DEF PutLeaf, PutInt, SnInt, Written1
  <2>3. Written1(v) \in Seq(Byte)
    BY IntBytes
  <2>4. PICK l : l = <<Written1(v)>>
    OBVIOUS
  <2>5. l \in Seq(Seq(Byte)) /\ Len(l) = 1 /\ l[1] = Written1(v)
    BY <2>3, <2>4
  <2>6. /\ FieldPieces(x) \in Seq(Seq(Byte)) /\ Len(FieldPieces(x)) = 2 + Len(l)
        /\ FieldPieces(x)[1] = k[1] /\ FieldPieces(x)[2] = k[2]
        /\ \A i \in 1 .. Len(l) : FieldPieces(x)[2 + i] = l[i]
    BY <1>6, <2>2, <2>4, <2>5
  <2>7. Len(FieldPieces(x)) = 3 /\ FieldPieces(x)[3] = Written1(v)
    BY <2>5, <2>6
  <2> QED
    BY <1>5, <2>1, <2>6, <2>7
<1>8. CASE \E s \in Bytes1 : x.val = SnStr(s)
  <2>1. PICK s \in Bytes1 : x.val = SnStr(s)
    BY <1>8
  <2>2. PutLeaf(x.val) = PutString(s)
    BY <2>1 DEF PutLeaf, SnStr
  <2>3. PICK l : l = <<Header(s), s>>
    OBVIOUS
  <2>4. l \in Seq(Seq(Byte)) /\ Len(l) = 2 /\ l[1] = Header(s) /\ l[2] = s
    BY <1>3, <2>3
  <2>5. /\ FieldPieces(x) \in Seq(Seq(Byte)) /\ Len(FieldPieces(x)) = 2 + Len(l)
        /\ FieldPieces(x)[1] = k[1] /\ FieldPieces(x)[2] = k[2]
        /\ \A i \in 1 .. Len(l) : FieldPieces(x)[2 + i] = l[i]
    BY <1>2, <1>6, <2>2, <2>3, <2>4
  <2>6. Len(FieldPieces(x)) = 4 /\ FieldPieces(x)[3] = Header(s) /\ FieldPieces(x)[4] = s
    BY <2>4, <2>5
  <2> QED
    BY <1>5, <2>1, <2>5, <2>6
<1> QED
  BY <1>7, <1>8, FieldIs

\* Something with one element put before and behind it.
Around(X, front, s, back, e) ==
    /\ e \in Seq(X) /\ Len(e) = Len(s) + 2 /\ Len(s) \in Nat
    /\ e[1] = front[1] /\ e[Len(e)] = back[1]
    /\ \A k \in 1 .. Len(s) : e[1 + k] = s[k]

LEMMA Enclosed ==
    ASSUME NEW X, NEW front \in Seq(X), Len(front) = 1, NEW s \in Seq(X),
           NEW back \in Seq(X), Len(back) = 1, NEW e, e = (front \o s) \o back
    PROVE  Around(X, front, s, back, e)
<1> USE DEF Around
<1>1. Len(s) \in Nat
  BY LenProperties
<1>2. PICK g : g = front \o s
  OBVIOUS
<1>3. Joined(X, front, s, g)
  BY <1>2, Joining
<1>4. g \in Seq(X) /\ Len(g) = 1 + Len(s)
  BY <1>3 DEF Joined
<1>5. Joined(X, g, back, e)
  <2>1. Joined(X, g, back, g \o back)
    BY <1>4, Joining
  <2> QED
    BY <1>2, <2>1, Zenon
<1>6. e[1] = front[1]
  <2>1. g[1] = front[1]
    BY <1>3 DEF Joined
  <2>2. 1 \in 1 .. Len(g)
    BY <1>1, <1>4
  <2> QED
    BY <1>5, <2>1, <2>2 DEF Joined
<1>7. Len(e) = Len(s) + 2 /\ e[Len(e)] = back[1] /\ e \in Seq(X)
  <2>1. Len(e) = Len(g) + 1 /\ e[Len(g) + 1] = back[1] /\ e \in Seq(X)
    BY <1>5 DEF Joined
  <2>2. Len(g) + 1 = Len(s) + 2
    BY <1>1, <1>4
  <2> QED
    BY <2>1, <2>2, Zenon
<1>8. ASSUME NEW k \in 1 .. Len(s) PROVE e[1 + k] = s[k]
  <2>1. 1 + k \in 1 .. Len(g)
    BY <1>1, <1>4
  <2>2. g[1 + k] = s[k]
    BY <1>3 DEF Joined
  <2> QED
    BY <1>5, <2>1, <2>2 DEF Joined
<1> QED
  BY <1>1, <1>6, <1>7, <1>8

\* Where the pieces of every field of a message are.
Layout(d, p) ==
    /\ p[0] = 1
    /\ p[Len(d)] + 1 = Len(Pieces(d))
    /\ Pieces(d)[1] = <<"d">> /\ Pieces(d)[Len(Pieces(d))] = <<"e">>
    /\ \A f \in 1 .. Len(d) :
          /\ p[f] = p[f - 1] + Len(FieldPieces(d[f]))
          /\ p[f] < Len(Pieces(d))
          /\ \A m \in 1 .. Len(FieldPieces(d[f])) :
                Pieces(d)[p[f - 1] + m] = FieldPieces(d[f])[m]

\* The numbers of it: something w long, that comes at a of n and is counted
\* from behind one more.
Counted(a, b, w, n, pa, pb) ==
    /\ pb = pa + w /\ pb < n + 2
    /\ \A m \in 1 .. w : a + m \in 1 .. n /\ pa + m = 1 + (a + m)

LEMMA Counts ==
    ASSUME NEW a \in Nat, NEW w \in Nat, NEW n \in Nat, a + w <= n
    PROVE  Counted(a, a + w, w, n, 1 + a, 1 + (a + w))
BY DEF Counted

LEMMA PiecesAre ==
    ASSUME NEW d \in Seq(Field)
    PROVE  /\ Pieces(d) \in Seq(Seq(Byte)) /\ Len(Pieces(d)) \in Nat
           /\ \E p \in [0 .. Len(d) -> Nat] : Layout(d, p)
<1> DEFINE ws == [f \in 1 .. Len(d) |-> FieldPieces(d[f])]
           B == Seq(Byte)
           all == FlattenSeq(ws)
<1>1. Len(d) \in Nat /\ DOMAIN d = 1 .. Len(d) /\ \A f \in 1 .. Len(d) : d[f] \in Field
  BY LenProperties, ElementOfSeq
<1>2. \A f \in 1 .. Len(d) : FieldPieces(d[f]) \in Seq(B)
  BY <1>1, FieldPiecesAre
<1>3. ws \in Seq(Seq(B)) /\ Len(ws) = Len(d) /\ \A f \in 1 .. Len(d) : ws[f] = FieldPieces(d[f])
  <2>1. ws \in [1 .. Len(d) -> Seq(B)]
    BY <1>2
  <2>2. \A f \in 1 .. Len(d) : ws[f] = FieldPieces(d[f])
    OBVIOUS
  <2> HIDE DEF ws, B
  <2> QED
    BY <1>1, <2>1, <2>2, FunSeq
<1>4. Pieces(d) = (<< <<"d">> >> \o all) \o << <<"e">> >>
  <2>1. [i \in DOMAIN d |-> PutString(d[i].key) \o [j \in DOMAIN d |-> PutLeaf(d[j].val)][i]]
          = [i \in 1 .. Len(d) |-> PutString(d[i].key) \o PutLeaf(d[i].val)]
    BY <1>1
  <2> QED
    BY <2>1 DEF Pieces, PutDict, FieldPieces
<1> HIDE DEF ws, all, B
<1>5. PICK G : G \in [0 .. Len(ws) -> Seq(B)] /\ Table(ws, G)
  BY <1>3, TableExists
<1>6. all = G[Len(ws)] /\ all \in Seq(B)
  <2>1. all = G[Len(ws)]
    BY <1>3, <1>5, FlattenIs DEF all
  <2> QED
    BY <1>1, <1>3, <1>5, <2>1
<1>7. Len(ws) \in Nat /\ \A n \in 0 .. Len(ws) : InPlace(n, ws, G)
  BY <1>3, <1>5, PiecesInPlace
<1>8. \A f \in 1 .. Len(d) : /\ Longer(G[f], all)
                             /\ At(all, Len(G[f - 1]), ws[f])
  <2>1. Len(ws) \in Nat /\ InPlace(Len(ws), ws, G)
    BY <1>7
  <2>2. \A f \in 1 .. Len(ws) : Longer(G[f], G[Len(ws)]) /\ At(G[Len(ws)], Len(G[f - 1]), ws[f])
    BY <2>1, StayInPlace
  <2> QED
    BY <1>3, <1>6, <2>2
<1>9. \A f \in 1 .. Len(d) : Len(G[f]) = Len(G[f - 1]) + Len(ws[f])
  <2>1. InPlace(Len(ws), ws, G)
    BY <1>7
  <2> QED
    BY <1>3, <2>1 DEF InPlace
<1>10. \A f \in 0 .. Len(d) : Len(G[f]) \in Nat
  BY <1>3, <1>5, LenProperties
<1>11. << <<"d">> >> \in Seq(B) /\ << <<"e">> >> \in Seq(B)
  <2>1. <<"d">> \in Seq(Byte) /\ <<"e">> \in Seq(Byte)
    BY WireBytes
  <2> QED
    BY <2>1 DEF B
<1>12. PICK front, back : front = << <<"d">> >> /\ back = << <<"e">> >>
  OBVIOUS
<1>13. /\ front \in Seq(B) /\ Len(front) = 1 /\ front[1] = <<"d">>
       /\ back \in Seq(B) /\ Len(back) = 1 /\ back[1] = <<"e">>
  BY <1>11, <1>12
<1> DEFINE e == Pieces(d)
<1>14. /\ e \in Seq(B) /\ Len(e) = Len(all) + 2 /\ Len(all) \in Nat
       /\ e[1] = <<"d">> /\ e[Len(e)] = <<"e">>
       /\ \A k \in 1 .. Len(all) : e[1 + k] = all[k]
  <2>1. e = (front \o all) \o back
    BY <1>4, <1>12
  <2>2. Around(B, front, all, back, e)
    <3> HIDE DEF e
    <3> QED
      BY <1>6, <1>13, <2>1, Enclosed
  <2> QED
    BY <1>13, <2>2, Zenon DEF Around
<1> HIDE DEF e
<1> DEFINE p == [f \in 0 .. Len(d) |-> 1 + Len(G[f])]
<1>15. p \in [0 .. Len(d) -> Nat] /\ \A f \in 0 .. Len(d) : p[f] = 1 + Len(G[f])
  BY <1>10
<1> HIDE DEF p
<1>16. p[0] = 1
  <2>1. G[0] = <<>>
    BY <1>5 DEF Table
  <2>2. Len(G[0]) = 0
    BY <2>1
  <2> QED
    BY <1>1, <1>15, <2>2
<1>17. p[Len(d)] + 1 = Len(e)
  <2>1. Len(d) \in 0 .. Len(d) /\ all = G[Len(d)]
    BY <1>1, <1>3, <1>6
  <2>2. p[Len(d)] = 1 + Len(all)
    BY <1>15, <2>1
  <2> QED
    BY <1>14, <2>2
<1>18. ASSUME NEW f \in 1 .. Len(d)
       PROVE  /\ p[f] = p[f - 1] + Len(FieldPieces(d[f]))
              /\ p[f] < Len(e)
              /\ \A m \in 1 .. Len(FieldPieces(d[f])) : e[p[f - 1] + m] = FieldPieces(d[f])[m]
  <2>1. f \in 0 .. Len(d) /\ f - 1 \in 0 .. Len(d)
    BY <1>1
  <2>2. /\ p[f] = 1 + Len(G[f]) /\ p[f - 1] = 1 + Len(G[f - 1])
        /\ Len(G[f]) \in Nat /\ Len(G[f - 1]) \in Nat
    BY <1>10, <1>15, <2>1
  <2>3. PICK w : w = FieldPieces(d[f])
    OBVIOUS
  <2>4. w = ws[f] /\ Len(w) \in Nat
    BY <1>2, <1>3, <2>3, LenProperties
  <2>5. Len(G[f]) = Len(G[f - 1]) + Len(w) /\ Len(G[f]) <= Len(all) /\ At(all, Len(G[f - 1]), w)
    <3>1. Longer(G[f], all) /\ At(all, Len(G[f - 1]), ws[f]) /\ Len(G[f]) = Len(G[f - 1]) + Len(ws[f])
      BY <1>8, <1>9
    <3> QED
      BY <2>4, <3>1 DEF Longer
  <2>0. Len(e) = Len(all) + 2 /\ Len(all) \in Nat
    BY <1>14
  <2>8. Counted(Len(G[f - 1]), Len(G[f]), Len(w), Len(all), p[f - 1], p[f])
    <3>1. Len(G[f - 1]) + Len(w) <= Len(all)
      BY <2>5, Zenon
    <3>2. Counted(Len(G[f - 1]), Len(G[f - 1]) + Len(w), Len(w), Len(all), 1 + Len(G[f - 1]),
                  1 + (Len(G[f - 1]) + Len(w)))
      BY <2>0, <2>2, <2>4, <3>1, Counts, Zenon
    <3> QED
      BY <2>2, <2>5, <3>2, Zenon
  <2>6. p[f] = p[f - 1] + Len(w) /\ p[f] < Len(e)
    BY <2>0, <2>8, Zenon DEF Counted
  <2>7. ASSUME NEW m \in 1 .. Len(w) PROVE e[p[f - 1] + m] = w[m]
    <3>1. Len(G[f - 1]) + m \in 1 .. Len(all) /\ p[f - 1] + m = 1 + (Len(G[f - 1]) + m)
      BY <2>8, Zenon DEF Counted
    <3>2. all[Len(G[f - 1]) + m] = w[m]
      BY <2>5 DEF At
    <3> QED
      BY <1>14, <3>1, <3>2
  <2> QED
    BY <2>3, <2>6, <2>7
<1>19. Layout(d, p)
  BY <1>14, <1>16, <1>17, <1>18 DEF Layout, e
<1> QED
  BY <1>14, <1>15, <1>19 DEF e, B

-----------------------------------------------------------------------------
(* Reading a field.                                                          *)

LEMMA ObjectAt ==
    ASSUME NEW data \in Seq(Byte), NEW n \in 0 .. Len(data)
    PROVE  Reading(data)[<<"object", n>>] = GetObject(Reading(data), data, n)
<1>1. Reading(data)[<<"object", n>>] = ReadAt(Reading(data), data, "object", n)
  BY ReadingIs
<1>2. ReadAt(Reading(data), data, "object", n) = GetObject(Reading(data), data, n)
  BY Zenon DEF ReadAt
<1> QED
  BY <1>1, <1>2, Zenon

LEMMA DictAt ==
    ASSUME NEW data \in Seq(Byte), NEW n \in 0 .. Len(data)
    PROVE  Reading(data)[<<"dict", n>>] = GetDict(Reading(data), data, n)
<1>1. Reading(data)[<<"dict", n>>] = ReadAt(Reading(data), data, "dict", n)
  BY ReadingIs
<1>2. "dict" # "object" /\ "dict" # "list"
  OBVIOUS
<1>3. \A r : ReadAt(r, data, "dict", n) = GetDict(r, data, n)
  BY <1>2 DEF ReadAt
<1> QED
  BY <1>1, <1>3, Zenon

\* A number where an object is read.
LEMMA IntObject ==
    ASSUME NEW data \in Seq(Byte), NEW n \in 0 .. Len(data), NEW v \in Int, At(data, n, Written1(v))
    PROVE  Reading(data)[<<"object", n>>] = Found(SnInt(v), n + Len(Written1(v)))
<1>1. data[n + 1] = "i" /\ n + 1 <= Len(data) /\ GetInt(data, n + 1) = Found(SnInt(v), n + Len(Written1(v)))
  BY IntRead
<1>2. Len(data) \in Nat
  BY LenProperties
<1>3. n # Len(data) /\ n < Len(data)
  BY <1>1, <1>2
<1>4. \A r : GetObject(r, data, n) = GetInt(data, n + 1)
  <2> TAKE r
  <2>1. data[n + 1] # "l" /\ data[n + 1] # "d" /\ ~IsDigit(data[n + 1])
    <3>1. "i" \notin ToSet(Digits)
      BY TenDigits, WireBytes
    <3> QED
      BY <1>1, <3>1 DEF IsDigit
  <2> QED
    BY <1>1, <1>3, <2>1, Zenon DEF GetObject
<1>5. Reading(data)[<<"object", n>>] = GetObject(Reading(data), data, n)
  BY ObjectAt
<1> QED
  BY <1>1, <1>4, <1>5, Zenon

\* A string there, whole or cut short.
LEMMA StringObject ==
    ASSUME NEW data \in Seq(Byte), NEW n \in 0 .. Len(data), NEW s \in Bytes1,
           At(data, n, Header(s))
    PROVE  /\ At(data, n + Len(Header(s)), s) =>
                 Reading(data)[<<"object", n>>] = Found(SnStr(s), n + Len(Header(s)) + Len(s))
           /\ Len(data) < n + Len(Header(s)) + Len(s) => ~Reading(data)[<<"object", n>>].ok
<1>1. s \in Seq(Byte) /\ s # <<>> /\ Len(s) < SizeLimit
  BY DEF Bytes1
<1>2. /\ data[n + 1] \in DigitSet
      /\ At(data, n + Len(Header(s)), s) => GetStr(data, n) = Found(SnStr(s), n + Len(Header(s)) + Len(s))
      /\ Len(data) < n + Len(Header(s)) + Len(s) => ~GetStr(data, n).ok
  BY <1>1, StringRead
<1>3. n # Len(data) /\ n < Len(data)
  <2>1. Len(Header(s)) \in Nat \ {0, 1} /\ Len(data) \in Nat
    BY <1>1, HeaderType, LenProperties
  <2> QED
    BY <2>1 DEF At
<1>4. \A r : GetObject(r, data, n) = GetStr(data, n)
  <2> TAKE r
  <2>1. data[n + 1] # "i" /\ data[n + 1] # "l" /\ data[n + 1] # "d" /\ IsDigit(data[n + 1])
    <3>1. ToSet(Digits) = DigitSet
      BY TenDigits
    <3> QED
      BY <1>2, <3>1, WireBytes DEF IsDigit
  <2> QED
    BY <1>3, <2>1, Zenon DEF GetObject
<1>5. Reading(data)[<<"object", n>>] = GetStr(data, n)
  <2>1. Reading(data)[<<"object", n>>] = GetObject(Reading(data), data, n)
    BY ObjectAt
  <2> QED
    BY <1>4, <2>1, Zenon
<1> QED
  BY <1>2, <1>5, Zenon

\* What a dictionary is read as, from a key on.
DictFrom(data, n) ==
    LET read == Reading(data)
        dict == read[<<"dict", n>>]
        key == GetStr(data, n)
        val == read[<<"object", key.erased>>]
        rest == read[<<"dict", val.erased>>]
    IN  /\ n = Len(data) => ~dict.ok
        /\ n # Len(data) /\ data[n + 1] = "e" => dict = Found(SnDict(<<>>), n + 1)
        /\ n # Len(data) /\ data[n + 1] # "e" =>
              /\ ~key.ok => ~dict.ok
              /\ key.ok /\ ~val.ok => ~dict.ok
              /\ key.ok /\ val.ok /\ ~rest.ok => ~dict.ok
              /\ key.ok /\ val.ok /\ rest.ok =>
                    dict = Found(SnDict(<<Pair(key.obj.v, val.obj)>> \o rest.obj.v), rest.erased)

LEMMA DictStep ==
    ASSUME NEW data \in Seq(Byte), NEW n \in 0 .. Len(data)
    PROVE  DictFrom(data, n)
<1> USE DEF DictFrom
<1>1. Reading(data)[<<"dict", n>>] = GetDict(Reading(data), data, n)
  BY DictAt
<1>2. ~Bad(n).ok
  BY DEF Bad
<1>3. PICK read : read = Reading(data)
  OBVIOUS
<1>4. read[<<"dict", n>>] = GetDict(read, data, n)
  BY <1>1, <1>3, Zenon
<1>5. CASE n = Len(data)
  <2>1. GetDict(read, data, n) = Bad(n)
    BY <1>5, Zenon DEF GetDict
  <2> QED
    BY <1>2, <1>3, <1>4, <1>5, <2>1, Zenon
<1>6. CASE n # Len(data) /\ data[n + 1] = "e"
  <2>1. GetDict(read, data, n) = Found(SnDict(<<>>), n + 1)
    BY <1>6, Zenon DEF GetDict
  <2> QED
    BY <1>3, <1>4, <1>6, <2>1, Zenon
<1>7. CASE n # Len(data) /\ data[n + 1] # "e"
  <2>1. PICK key, val, rest : /\ key = GetStr(data, n)
                              /\ val = read[<<"object", key.erased>>]
                              /\ rest = read[<<"dict", val.erased>>]
    OBVIOUS
  <2>2. GetDict(read, data, n) =
          IF ~key.ok THEN key
          ELSE IF ~val.ok THEN val
          ELSE IF ~rest.ok THEN rest
          ELSE Found(SnDict(<<Pair(key.obj.v, val.obj)>> \o rest.obj.v), rest.erased)
    BY <1>7, <2>1, Zenon DEF GetDict
  <2>3. /\ ~key.ok => GetDict(read, data, n) = key
        /\ key.ok /\ ~val.ok => GetDict(read, data, n) = val
        /\ key.ok /\ val.ok /\ ~rest.ok => GetDict(read, data, n) = rest
        /\ key.ok /\ val.ok /\ rest.ok =>
             GetDict(read, data, n) = Found(SnDict(<<Pair(key.obj.v, val.obj)>> \o rest.obj.v), rest.erased)
    BY <2>2, Zenon
  <2> QED
    BY <1>3, <1>4, <1>7, <2>1, <2>3, Zenon
<1> QED
  BY <1>5, <1>6, <1>7

\* The first c pieces of something are in the data, and the data ends there if
\* they are not all of it.
PartAtQ(data, w, c, q) ==
    /\ q[0] \in 0 .. Len(data)
    /\ \A m \in 1 .. c : /\ q[m] \in 0 .. Len(data)
                         /\ At(data, q[m - 1], w[m])
                         /\ q[m] = q[m - 1] + Len(w[m])
    /\ c # Len(w) => Len(data) = q[c]

\* A dictionary from a field on: that field and the rest, if it is all there.
LEMMA FieldRead ==
    ASSUME NEW data \in Seq(Byte), NEW x \in Field, NEW w, w = FieldPieces(x),
           NEW c \in 0 .. Len(w), NEW q, PartAtQ(data, w, c, q)
    PROVE  LET read == Reading(data)
               dict == read[<<"dict", q[0]>>]
               rest == read[<<"dict", q[c]>>]
           IN  /\ c # Len(w) => ~dict.ok
               /\ c = Len(w) /\ ~rest.ok => ~dict.ok
               /\ c = Len(w) /\ rest.ok =>
                     dict = Found(SnDict(<<x>> \o rest.obj.v), rest.erased)
<1>1. /\ Len(w) \in {3, 4} /\ w[1] = Header(x.key) /\ w[2] = x.key
      /\ \/ /\ Len(w) = 3
            /\ \E v \in Int : x.val = SnInt(v) /\ w[3] = Written1(v)
         \/ /\ Len(w) = 4
            /\ \E s \in Bytes1 : x.val = SnStr(s) /\ w[3] = Header(s) /\ w[4] = s
  BY FieldPiecesAre
<1>2. x.key \in Bytes1 /\ x = Pair(x.key, x.val)
  BY FieldIs
<1>3. Len(data) \in Nat /\ q[0] \in 0 .. Len(data) /\ c \in 0 .. 4
  <2>1. c \in 0 .. 4
    <3>1. CASE Len(w) = 3
      BY <3>1
    <3>2. CASE Len(w) = 4
      BY <3>2
    <3> QED
      BY <1>1, <3>1, <3>2
  <2>2. q[0] \in 0 .. Len(data)
    BY DEF PartAtQ
  <2> QED
    BY <2>1, <2>2, LenProperties
<1>4. PICK read : read = Reading(data)
  OBVIOUS
<1>5. PICK key, val, rest, dict : /\ key = GetStr(data, q[0])
                                  /\ val = read[<<"object", key.erased>>]
                                  /\ rest = read[<<"dict", val.erased>>]
                                  /\ dict = read[<<"dict", q[0]>>]
  OBVIOUS
<1>6. /\ q[0] = Len(data) => ~dict.ok
      /\ q[0] # Len(data) /\ data[q[0] + 1] # "e" =>
            /\ ~key.ok => ~dict.ok
            /\ key.ok /\ ~val.ok => ~dict.ok
            /\ key.ok /\ val.ok /\ ~rest.ok => ~dict.ok
            /\ key.ok /\ val.ok /\ rest.ok =>
                  dict = Found(SnDict(<<Pair(key.obj.v, val.obj)>> \o rest.obj.v), rest.erased)
  <2>1. DictFrom(data, q[0])
    BY <1>3, DictStep
  <2> QED
    BY <1>4, <1>5, <2>1, Zenon DEF DictFrom
<1>7. CASE c = 0
  <2>1. q[0] = Len(data) /\ c # Len(w)
    BY <1>1, <1>7 DEF PartAtQ
  <2> QED
    BY <1>4, <1>5, <1>6, <2>1, Zenon
<1>8. ASSUME c # 0
      PROVE  /\ At(data, q[0], Header(x.key)) /\ q[1] = q[0] + Len(Header(x.key))
             /\ q[0] # Len(data) /\ data[q[0] + 1] # "e" /\ q[0] \in Nat
             /\ At(data, q[1], x.key) => key = Found(SnStr(x.key), q[1] + Len(x.key))
             /\ Len(data) < q[1] + Len(x.key) => ~key.ok
  <2>1. 1 \in 1 .. c /\ 1 - 1 = 0
    BY <1>3, <1>8
  <2>2. At(data, q[1 - 1], w[1]) /\ q[1] = q[1 - 1] + Len(w[1])
    BY <2>1 DEF PartAtQ
  <2>3. At(data, q[0], Header(x.key)) /\ q[1] = q[0] + Len(Header(x.key))
    BY <1>1, <2>1, <2>2, Zenon
  <2>4. x.key \in Seq(Byte) /\ x.key # <<>> /\ Len(x.key) < SizeLimit
    BY <1>2 DEF Bytes1
  <2>5. q[0] \in Nat
    BY <1>3
  <2>6. /\ data[q[0] + 1] \in DigitSet
        /\ At(data, q[0] + Len(Header(x.key)), x.key) =>
             GetStr(data, q[0]) = Found(SnStr(x.key), q[0] + Len(Header(x.key)) + Len(x.key))
        /\ Len(data) < q[0] + Len(Header(x.key)) + Len(x.key) => ~GetStr(data, q[0]).ok
    BY <2>3, <2>4, <2>5, StringRead
  <2>7. q[0] # Len(data)
    <3>1. Len(Header(x.key)) \in Nat \ {0, 1}
      BY <2>4, HeaderType
    <3> QED
      BY <1>3, <2>3, <3>1 DEF At
  <2>8. data[q[0] + 1] # "e"
    BY <2>6, WireBytes
  <2> QED
    BY <1>5, <2>3, <2>5, <2>6, <2>7, <2>8, Zenon
<1>9. CASE c = 1
  <2>1. Len(data) = q[1] /\ c # Len(w) /\ c # 0
    BY <1>1, <1>9 DEF PartAtQ
  <2>2. Len(x.key) \in Nat \ {0}
    <3>1. x.key \in Seq(Byte) /\ x.key # <<>>
      BY <1>2 DEF Bytes1
    <3> QED
      BY <3>1, EmptySeq, LenProperties
  <2>3. Len(data) < q[1] + Len(x.key)
    BY <1>3, <2>1, <2>2
  <2>4. ~key.ok /\ q[0] # Len(data) /\ data[q[0] + 1] # "e"
    BY <1>8, <2>1, <2>3, Zenon
  <2> QED
    BY <1>4, <1>5, <1>6, <2>1, <2>4, Zenon
<1>10. ASSUME c \notin {0, 1}
       PROVE  /\ q[0] # Len(data) /\ data[q[0] + 1] # "e"
              /\ key.ok /\ key.obj.v = x.key /\ key.erased = q[2]
              /\ q[2] \in 0 .. Len(data)
  <2>1. 2 \in 1 .. c /\ 2 - 1 = 1 /\ c # 0
    BY <1>3, <1>10
  <2>2. At(data, q[2 - 1], w[2]) /\ q[2] = q[2 - 1] + Len(w[2]) /\ q[2] \in 0 .. Len(data)
    BY <2>1 DEF PartAtQ
  <2>3. At(data, q[1], x.key) /\ q[2] = q[1] + Len(x.key)
    BY <1>1, <2>1, <2>2, Zenon
  <2>4. key = Found(SnStr(x.key), q[2]) /\ q[0] # Len(data) /\ data[q[0] + 1] # "e"
    BY <1>8, <2>1, <2>3, Zenon
  <2> QED
    BY <2>2, <2>4 DEF Found, SnStr
<1>11. CASE c = 2
  <2>1. Len(data) = q[2] /\ c # Len(w) /\ c \notin {0, 1}
    <3>1. c # Len(w)
      BY <1>1, <1>11
    <3>2. Len(data) = q[c]
      BY <3>1 DEF PartAtQ
    <3> QED
      BY <1>11, <3>1, <3>2
  <2>2. val = GetObject(read, data, q[2])
    BY <1>4, <1>5, <1>10, <2>1, ObjectAt, Zenon
  <2>3. GetObject(read, data, q[2]) = Bad(q[2])
    <3>1. ~(q[2] < Len(data))
      BY <1>3, <2>1
    <3> QED
      BY <2>1, <3>1, Zenon DEF GetObject
  <2>4. ~val.ok
    BY <2>2, <2>3 DEF Bad
  <2> QED
    BY <1>4, <1>5, <1>6, <1>10, <2>1, <2>4, Zenon
<1>12. ASSUME c \notin {0, 1, 2}
       PROVE  At(data, q[2], w[3]) /\ q[3] = q[2] + Len(w[3]) /\ q[3] \in 0 .. Len(data)
  <2>1. 3 \in 1 .. c /\ 3 - 1 = 2
    BY <1>3, <1>12
  <2>2. At(data, q[3 - 1], w[3]) /\ q[3] = q[3 - 1] + Len(w[3]) /\ q[3] \in 0 .. Len(data)
    BY <2>1 DEF PartAtQ
  <2> QED
    BY <2>1, <2>2, Zenon
<1>13. ASSUME c = Len(w), val = Found(x.val, q[c]), c \notin {0, 1}
       PROVE  LET rest1 == read[<<"dict", q[c]>>]
              IN  /\ c = Len(w) /\ ~rest1.ok => ~dict.ok
                  /\ c = Len(w) /\ rest1.ok => dict = Found(SnDict(<<x>> \o rest1.obj.v), rest1.erased)
  <2>1. val.ok /\ val.obj = x.val /\ val.erased = q[c]
    BY <1>13 DEF Found
  <2>2. rest = read[<<"dict", q[c]>>]
    BY <1>5, <2>1, Zenon
  <2>3. Pair(key.obj.v, val.obj) = x
    BY <1>2, <1>10, <1>13, <2>1, Zenon
  <2> QED
    BY <1>6, <1>10, <1>13, <2>1, <2>2, <2>3, Zenon
<1>14. CASE c \notin {0, 1, 2} /\ Len(w) = 3
  <2>1. c = 3 /\ c = Len(w) /\ c \notin {0, 1, 2}
    BY <1>3, <1>14
  <2>2. PICK v \in Int : x.val = SnInt(v) /\ w[3] = Written1(v)
    BY <1>1, <1>14
  <2>3. At(data, q[2], Written1(v)) /\ q[3] = q[2] + Len(Written1(v))
    BY <1>12, <2>1, <2>2, Zenon
  <2>4. c \notin {0, 1}
    BY <2>1
  <2>5. q[2] \in 0 .. Len(data) /\ key.erased = q[2]
    BY <1>10, <2>4
  <2>6. read[<<"object", q[2]>>] = Found(SnInt(v), q[2] + Len(Written1(v)))
    BY <1>4, <2>3, <2>5, IntObject, Zenon
  <2>7. val = Found(x.val, q[c])
    BY <1>5, <2>1, <2>2, <2>3, <2>5, <2>6, Zenon
  <2> QED
    BY <1>4, <1>5, <1>13, <2>1, <2>4, <2>7, Zenon
<1>15. CASE c \notin {0, 1, 2} /\ Len(w) = 4
  <2>1. c \in {3, 4} /\ c \notin {0, 1, 2} /\ c \notin {0, 1}
    BY <1>3, <1>15
  <2>2. PICK s \in Bytes1 : x.val = SnStr(s) /\ w[3] = Header(s) /\ w[4] = s
    BY <1>1, <1>15
  <2>3. At(data, q[2], Header(s)) /\ q[3] = q[2] + Len(Header(s)) /\ q[3] \in 0 .. Len(data)
    BY <1>12, <2>1, <2>2, Zenon
  <2>4. q[2] \in 0 .. Len(data) /\ key.erased = q[2]
    BY <1>10, <2>1
  <2>5. /\ At(data, q[3], s) => val = Found(SnStr(s), q[3] + Len(s))
        /\ Len(data) < q[3] + Len(s) => ~val.ok
    <3>1. /\ At(data, q[2] + Len(Header(s)), s) =>
                 read[<<"object", q[2]>>] = Found(SnStr(s), q[2] + Len(Header(s)) + Len(s))
          /\ Len(data) < q[2] + Len(Header(s)) + Len(s) => ~read[<<"object", q[2]>>].ok
      BY <1>4, <2>3, <2>4, StringObject, Zenon
    <3> QED
      BY <1>5, <2>3, <2>4, <3>1, Zenon
  <2>6. CASE c = 3
    <3>1. Len(data) = q[3] /\ c # Len(w)
      BY <1>15, <2>6 DEF PartAtQ
    <3>2. Len(s) \in Nat \ {0}
      <4>1. s \in Seq(Byte) /\ s # <<>>
        BY DEF Bytes1
      <4> QED
        BY <4>1, EmptySeq, LenProperties
    <3>3. Len(data) < q[3] + Len(s)
      BY <1>3, <3>1, <3>2
    <3>4. ~val.ok
      BY <2>5, <3>3, Zenon
    <3> QED
      BY <1>4, <1>5, <1>6, <1>10, <2>1, <3>1, <3>4, Zenon
  <2>7. CASE c = 4
    <3>1. 4 \in 1 .. c /\ 4 - 1 = 3 /\ c = Len(w)
      BY <1>15, <2>7
    <3>2. At(data, q[4 - 1], w[4]) /\ q[4] = q[4 - 1] + Len(w[4])
      BY <3>1 DEF PartAtQ
    <3>3. At(data, q[3], s) /\ q[4] = q[3] + Len(s)
      BY <2>2, <3>1, <3>2, Zenon
    <3>4. val = Found(x.val, q[c])
      BY <2>2, <2>5, <2>7, <3>3, Zenon
    <3> QED
      BY <1>4, <1>5, <1>13, <2>1, <3>1, <3>4, Zenon
  <2> QED
    BY <2>1, <2>6, <2>7
<1> QED
  BY <1>1, <1>3, <1>7, <1>9, <1>11, <1>14, <1>15, Zenon

-----------------------------------------------------------------------------
(* Reading a message.                                                        *)

\* The first j pieces of a message are the data, each from some offset on.
Laid(E, j, data, o) ==
    /\ data \in Seq(Byte) /\ o[0] = 0 /\ Len(data) = o[j]
    /\ \A k \in 0 .. j : o[k] \in 0 .. Len(data)
    /\ \A k \in 1 .. j : At(data, o[k - 1], E[k]) /\ o[k] = o[k - 1] + Len(E[k])

LEMMA CutLaid ==
    ASSUME NEW E \in Seq(Seq(Byte)), NEW j \in 0 .. Len(E)
    PROVE  \E o : Laid(E, j, FlattenSeq(SubSeq(E, 1, j)), o)
<1>1. PICK F : F \in [0 .. Len(E) -> Seq(Byte)] /\ Table(E, F)
  BY TableExists
<1>2. FlattenSeq(SubSeq(E, 1, j)) = F[j]
  BY <1>1, FlattenFirst
<1>3. Len(E) \in Nat /\ \A n \in 0 .. Len(E) : InPlace(n, E, F)
  BY <1>1, PiecesInPlace
<1>4. j \in Nat /\ InPlace(j, E, F)
  BY <1>3
<1>5. \A k \in 1 .. j : Longer(F[k], F[j]) /\ At(F[j], Len(F[k - 1]), E[k])
  BY <1>4, StayInPlace
<1>6. F[j] \in Seq(Byte) /\ F[0] = <<>> /\ Len(F[0]) = 0 /\ Len(F[j]) \in Nat
  <2>1. F[0] = <<>>
    BY <1>1 DEF Table
  <2>2. F[j] \in Seq(Byte)
    BY <1>1
  <2> QED
    BY <2>1, <2>2, LenProperties
<1> DEFINE o == [k \in 0 .. j |-> Len(F[k])]
<1>7. \A k \in 0 .. j : o[k] = Len(F[k])
  OBVIOUS
<1>8. 0 \in 0 .. j /\ j \in 0 .. j
  BY <1>4
<1> HIDE DEF o
<1>9. ASSUME NEW k \in 0 .. j PROVE o[k] \in 0 .. Len(F[j])
  <2>1. CASE k = 0
    BY <1>6, <1>7, <1>8, <2>1
  <2>2. CASE k # 0
    <3>1. k \in 1 .. j
      BY <1>4, <2>2
    <3>2. Len(F[k]) \in Nat /\ Len(F[k]) <= Len(F[j])
      BY <1>5, <3>1 DEF Longer
    <3>3. o[k] = Len(F[k])
      BY <1>7
    <3> QED
      BY <1>6, <3>2, <3>3
  <2> QED
    BY <2>1, <2>2
<1>10. ASSUME NEW k \in 1 .. j PROVE At(F[j], o[k - 1], E[k]) /\ o[k] = o[k - 1] + Len(E[k])
  <2>1. k \in 0 .. j /\ k - 1 \in 0 .. j
    BY <1>4
  <2>2. o[k] = Len(F[k]) /\ o[k - 1] = Len(F[k - 1])
    BY <1>7, <2>1
  <2>3. Len(F[k]) = Len(F[k - 1]) + Len(E[k])
    BY <1>4 DEF InPlace
  <2>4. At(F[j], Len(F[k - 1]), E[k])
    BY <1>5
  <2> QED
    BY <2>2, <2>3, <2>4, Zenon
<1>11. Laid(E, j, F[j], o)
  <2>1. o[0] = 0 /\ Len(F[j]) = o[j]
    BY <1>6, <1>7, <1>8
  <2> QED
    BY <1>6, <1>9, <1>10, <2>1 DEF Laid
<1> QED
  BY <1>2, <1>11, Zenon

\* The rest of a sequence, with one element more in front.
LEMMA OneMore ==
    ASSUME NEW X, NEW d \in Seq(X), NEW f \in 1 .. Len(d)
    PROVE  <<d[f]>> \o SubSeq(d, f + 1, Len(d)) = SubSeq(d, f, Len(d))
<1>1. Len(d) \in Nat /\ d[f] \in X
  BY LenProperties, ElementOfSeq
<1>2. PICK a, b, c : a = <<d[f]>> /\ b = SubSeq(d, f + 1, Len(d)) /\ c = SubSeq(d, f, Len(d))
  OBVIOUS
<1>3. a \in Seq(X) /\ Len(a) = 1 /\ a[1] = d[f]
  BY <1>1, <1>2
<1>4. b \in Seq(X) /\ Len(b) = Len(d) - f /\ \A k \in 1 .. Len(d) - f : b[k] = d[f + k]
  <2>1. f \in Nat /\ f <= Len(d)
    BY <1>1
  <2> QED
    BY <1>1, <1>2, <2>1, Part
<1>5. c \in Seq(X) /\ Len(c) = Len(d) - f + 1 /\ \A k \in 1 .. Len(d) - f + 1 : c[k] = d[f - 1 + k]
  <2>1. f - 1 \in Nat /\ f - 1 <= Len(d) /\ (f - 1) + 1 = f /\ Len(d) - (f - 1) = Len(d) - f + 1
    BY <1>1
  <2>2. /\ SubSeq(d, (f - 1) + 1, Len(d)) \in Seq(X)
        /\ Len(SubSeq(d, (f - 1) + 1, Len(d))) = Len(d) - (f - 1)
        /\ \A k \in 1 .. Len(d) - (f - 1) : SubSeq(d, (f - 1) + 1, Len(d))[k] = d[(f - 1) + k]
    BY <1>1, <2>1, Part
  <2> QED
    BY <1>2, <2>1, <2>2, Zenon
<1>6. Joined(X, a, b, a \o b)
  BY <1>3, <1>4, Joining
<1>7. PICK e : e = a \o b
  OBVIOUS
<1>8. /\ e \in Seq(X) /\ Len(e) = 1 + (Len(d) - f) /\ e[1] = d[f]
      /\ \A k \in 1 .. Len(d) - f : e[1 + k] = d[f + k]
  BY <1>3, <1>4, <1>6, <1>7 DEF Joined
<1>9. ASSUME NEW k \in 1 .. Len(e) PROVE e[k] = c[k]
  <2>1. CASE k = 1
    <3>1. k \in 1 .. Len(d) - f + 1 /\ f - 1 + k = f
      BY <1>1, <1>8, <2>1
    <3> QED
      BY <1>5, <1>8, <2>1, <3>1
  <2>2. CASE k # 1
    <3>1. k - 1 \in 1 .. Len(d) - f /\ 1 + (k - 1) = k /\ f + (k - 1) = f - 1 + k
          /\ k \in 1 .. Len(d) - f + 1
      BY <1>1, <1>8, <2>2
    <3>2. e[1 + (k - 1)] = d[f + (k - 1)]
      BY <1>8, <3>1
    <3>3. c[k] = d[f - 1 + k]
      BY <1>5, <3>1
    <3> QED
      BY <3>1, <3>2, <3>3, Zenon
  <2> QED
    BY <2>1, <2>2
<1>10. e = c
  <2>1. Len(e) = Len(c)
    BY <1>1, <1>5, <1>8
  <2> QED
    BY <1>5, <1>8, <1>9, <2>1, SeqEqual
<1> QED
  BY <1>2, <1>7, <1>10, Zenon

LEMMA NoneAndAll ==
    ASSUME NEW X, NEW d \in Seq(X)
    PROVE  SubSeq(d, Len(d) + 1, Len(d)) = <<>> /\ SubSeq(d, 1, Len(d)) = d
<1>1. Len(d) \in Nat
  BY LenProperties
<1>2. /\ SubSeq(d, Len(d) + 1, Len(d)) \in Seq(X)
      /\ Len(SubSeq(d, Len(d) + 1, Len(d))) = Len(d) - Len(d)
  BY <1>1, Part
<1>3. SubSeq(d, Len(d) + 1, Len(d)) = <<>>
  BY <1>1, <1>2, EmptySeq
<1>4. PICK e : e = SubSeq(d, 0 + 1, Len(d))
  OBVIOUS
<1>5. e \in Seq(X) /\ Len(e) = Len(d) - 0 /\ \A k \in 1 .. Len(d) - 0 : e[k] = d[0 + k]
  BY <1>1, <1>4, Part
<1>6. Len(e) = Len(d) /\ \A k \in 1 .. Len(e) : e[k] = d[k]
  BY <1>1, <1>5
<1>7. e = d
  BY <1>5, <1>6, SeqEqual
<1> QED
  BY <1>3, <1>4, <1>7

\* What is read from field f + 1 of a message on, if the first j pieces of it
\* are there.
ReadFrom(d, j, data, o, p, f) ==
    LET dict == Reading(data)[<<"dict", o[p[f]]>>]
    IN  /\ j = Len(Pieces(d)) => dict = Found(SnDict(SubSeq(d, f + 1, Len(d))), Len(data))
        /\ j # Len(Pieces(d)) => ~dict.ok

\* Behind the last field is the end of the message.
LEMMA ReadEnd ==
    ASSUME NEW d \in Seq(Field), NEW p, Layout(d, p), p[Len(d)] \in Nat,
           NEW j \in 0 .. Len(Pieces(d)), NEW data, NEW o, Laid(Pieces(d), j, data, o),
           p[Len(d)] <= j
    PROVE  ReadFrom(d, j, data, o, p, Len(d))
<1>1. PICK E, n, l : E = Pieces(d) /\ n = p[Len(d)] /\ l = Len(d)
  OBVIOUS
<1>2. Len(E) \in Nat /\ n + 1 = Len(E) /\ E[Len(E)] = <<"e">> /\ n \in 0 .. j /\ j \in 0 .. Len(E)
  BY <1>1, PiecesAre DEF Layout
<1>3. data \in Seq(Byte) /\ o[n] \in 0 .. Len(data) /\ Len(data) = o[j] /\ Len(data) \in Nat
  BY <1>1, <1>2, LenProperties DEF Laid
<1>4. PICK dict : dict = Reading(data)[<<"dict", o[n]>>]
  OBVIOUS
<1>5. /\ o[n] = Len(data) => ~dict.ok
      /\ o[n] # Len(data) /\ data[o[n] + 1] = "e" => dict = Found(SnDict(<<>>), o[n] + 1)
  <2>1. DictFrom(data, o[n])
    BY <1>3, DictStep
  <2> QED
    BY <1>4, <2>1, Zenon DEF DictFrom
<1>6. CASE j = Len(E)
  <2>1. j \in 1 .. j /\ j - 1 = n
    BY <1>2, <1>6
  <2>2. At(data, o[j - 1], E[j]) /\ o[j] = o[j - 1] + Len(E[j])
    BY <1>1, <2>1 DEF Laid
  <2>3. At(data, o[n], <<"e">>) /\ o[j] = o[n] + Len(<<"e">>)
    BY <1>2, <1>6, <2>1, <2>2, Zenon
  <2>4. data[o[n] + 1] = "e" /\ Len(data) = o[n] + 1
    BY <1>3, <2>3 DEF At
  <2>5. o[n] # Len(data)
    BY <1>3, <2>4
  <2>6. dict = Found(SnDict(<<>>), Len(data))
    BY <1>5, <2>4, <2>5, Zenon
  <2>7. SubSeq(d, Len(d) + 1, Len(d)) = <<>>
    BY NoneAndAll
  <2> QED
    BY <1>1, <1>4, <1>6, <2>6, <2>7, Zenon DEF ReadFrom
<1>7. CASE j # Len(E)
  <2>1. j = n
    BY <1>2, <1>7
  <2>2. ~dict.ok
    BY <1>3, <1>5, <2>1
  <2> QED
    BY <1>1, <1>4, <1>7, <2>2, Zenon DEF ReadFrom
<1> QED
  BY <1>6, <1>7

\* The pieces of a field that are there.
LEMMA PartOfField ==
    ASSUME NEW d \in Seq(Field), NEW p, Layout(d, p), NEW f \in 1 .. Len(d), p[f - 1] \in Nat,
           NEW j \in 0 .. Len(Pieces(d)), NEW data, NEW o, Laid(Pieces(d), j, data, o),
           p[f - 1] <= j
    PROVE  LET w == FieldPieces(d[f])
           IN  \E c, q :
                  /\ c \in 0 .. Len(w)
                  /\ PartAtQ(data, w, c, q)
                  /\ q[0] = o[p[f - 1]]
                  /\ c = Len(w) => q[c] = o[p[f]] /\ p[f] <= j
                  /\ c # Len(w) => j # Len(Pieces(d))
<1>1. PICK E, n, w : E = Pieces(d) /\ n = p[f - 1] /\ w = FieldPieces(d[f])
  OBVIOUS
<1>2. /\ n \in Nat /\ n <= j /\ j \in 0 .. Len(E)
      /\ p[f] = n + Len(w) /\ p[f] < Len(E)
      /\ \A m \in 1 .. Len(w) : E[n + m] = w[m]
  BY <1>1 DEF Layout
<1>3. Len(w) \in Nat
  <2>1. d[f] \in Field
    BY ElementOfSeq
  <2>2. Len(w) \in {3, 4}
    BY <1>1, <2>1, FieldPiecesAre
  <2> QED
    BY <2>2
<1>4. Len(E) \in Nat
  BY <1>1, PiecesAre
<1>5. PICK k : k \in 0 .. Len(w) /\ (k = Len(w) => n + Len(w) <= j) /\ (k # Len(w) => n + k = j)
  <2>1. CASE n + Len(w) <= j
    <3>1. Len(w) \in 0 .. Len(w)
      BY <1>3
    <3> QED
      BY <2>1, <3>1
  <2>2. CASE ~(n + Len(w) <= j)
    <3>1. j - n \in 0 .. Len(w) /\ j - n # Len(w) /\ n + (j - n) = j
      BY <1>2, <1>3, <2>2
    <3> QED
      BY <3>1
  <2> QED
    BY <2>1, <2>2
<1> DEFINE q == [m \in 0 .. Len(w) |-> o[n + m]]
<1>6. \A m \in 0 .. Len(w) : q[m] = o[n + m]
  OBVIOUS
<1> HIDE DEF q
<1>7. n + k <= j
  BY <1>2, <1>3, <1>5
<1>8. /\ Len(data) = o[j] /\ \A i \in 0 .. j : o[i] \in 0 .. Len(data)
      /\ \A i \in 1 .. j : At(data, o[i - 1], E[i]) /\ o[i] = o[i - 1] + Len(E[i])
  BY <1>1 DEF Laid
<1>9. q[0] = o[n] /\ q[0] \in 0 .. Len(data) /\ q[k] = o[n + k]
  <2>1. 0 \in 0 .. Len(w) /\ n + 0 = n /\ n \in 0 .. j
    BY <1>2, <1>3
  <2>2. q[0] = o[n + 0] /\ q[k] = o[n + k]
    BY <1>5, <1>6, <2>1, Zenon
  <2> QED
    BY <1>8, <2>1, <2>2, Zenon
<1>10. ASSUME NEW m \in 1 .. k
       PROVE  /\ q[m] \in 0 .. Len(data)
              /\ At(data, q[m - 1], w[m])
              /\ q[m] = q[m - 1] + Len(w[m])
  <2>1. /\ n + m \in 1 .. j /\ n + m \in 0 .. j /\ (n + m) - 1 = n + (m - 1)
        /\ m \in 1 .. Len(w) /\ m \in 0 .. Len(w) /\ m - 1 \in 0 .. Len(w)
    BY <1>2, <1>3, <1>5, <1>7
  <2>2. E[n + m] = w[m] /\ q[m] = o[n + m] /\ q[m - 1] = o[n + (m - 1)]
    BY <1>2, <1>6, <2>1, Zenon
  <2>3. o[n + m] \in 0 .. Len(data) /\ At(data, o[(n + m) - 1], E[n + m])
        /\ o[n + m] = o[(n + m) - 1] + Len(E[n + m])
    BY <1>8, <2>1, Zenon
  <2> QED
    BY <2>1, <2>2, <2>3, Zenon
<1>11. k # Len(w) => Len(data) = q[k]
  BY <1>5, <1>8, <1>9, Zenon
<1>12. PartAtQ(data, w, k, q)
  BY <1>9, <1>10, <1>11, Zenon DEF PartAtQ
<1>13. k = Len(w) => q[k] = o[p[f]] /\ p[f] <= j
  BY <1>2, <1>5, <1>9, Zenon
<1>14. k # Len(w) => j # Len(E)
  <2>1. k < Len(w) \/ k = Len(w)
    BY <1>3, <1>5
  <2> QED
    BY <1>2, <1>3, <1>4, <1>5, <2>1
<1> QED
  BY <1>1, <1>5, <1>9, <1>12, <1>13, <1>14, Zenon

LEMMA ReadFieldFrom ==
    ASSUME NEW d \in Seq(Field), NEW p, Layout(d, p), NEW f \in 1 .. Len(d), p[f - 1] \in Nat,
           NEW j \in 0 .. Len(Pieces(d)), NEW data, NEW o, Laid(Pieces(d), j, data, o),
           p[f - 1] <= j, p[f] <= j => ReadFrom(d, j, data, o, p, f)
    PROVE  ReadFrom(d, j, data, o, p, f - 1)
<1>1. PICK w : w = FieldPieces(d[f])
  OBVIOUS
<1>2. d[f] \in Field /\ data \in Seq(Byte)
  BY ElementOfSeq DEF Laid
<1>3. PICK c, q :
         /\ c \in 0 .. Len(w)
         /\ PartAtQ(data, w, c, q)
         /\ q[0] = o[p[f - 1]]
         /\ c = Len(w) => q[c] = o[p[f]] /\ p[f] <= j
         /\ c # Len(w) => j # Len(Pieces(d))
  BY <1>1, PartOfField
<1>4. PICK dict, rest : /\ dict = Reading(data)[<<"dict", o[p[f - 1]]>>]
                        /\ rest = Reading(data)[<<"dict", q[c]>>]
  OBVIOUS
<1>5. /\ c # Len(w) => ~dict.ok
      /\ c = Len(w) /\ ~rest.ok => ~dict.ok
      /\ c = Len(w) /\ rest.ok => dict = Found(SnDict(<<d[f]>> \o rest.obj.v), rest.erased)
  <2>1. LET read == Reading(data)
            dict1 == read[<<"dict", q[0]>>]
            rest1 == read[<<"dict", q[c]>>]
        IN  /\ c # Len(w) => ~dict1.ok
            /\ c = Len(w) /\ ~rest1.ok => ~dict1.ok
            /\ c = Len(w) /\ rest1.ok =>
                  dict1 = Found(SnDict(<<d[f]>> \o rest1.obj.v), rest1.erased)
    BY <1>1, <1>2, <1>3, FieldRead
  <2> QED
    BY <1>3, <1>4, <2>1, Zenon
<1>6. CASE c # Len(w)
  BY <1>3, <1>4, <1>5, <1>6, Zenon DEF ReadFrom
<1>7. CASE c = Len(w)
  <2>1. ReadFrom(d, j, data, o, p, f) /\ rest = Reading(data)[<<"dict", o[p[f]]>>]
    BY <1>3, <1>4, <1>7, Zenon
  <2>2. CASE j = Len(Pieces(d))
    <3>1. rest = Found(SnDict(SubSeq(d, f + 1, Len(d))), Len(data))
      BY <2>1, <2>2, Zenon DEF ReadFrom
    <3>2. rest.ok /\ rest.obj.v = SubSeq(d, f + 1, Len(d)) /\ rest.erased = Len(data)
      BY <3>1 DEF Found, SnDict
    <3>3. dict = Found(SnDict(<<d[f]>> \o SubSeq(d, f + 1, Len(d))), Len(data))
      BY <1>5, <1>7, <3>2, Zenon
    <3>4. <<d[f]>> \o SubSeq(d, f + 1, Len(d)) = SubSeq(d, f, Len(d))
      BY OneMore
    <3>5. (f - 1) + 1 = f
      OBVIOUS
    <3> QED
      BY <1>4, <2>2, <3>3, <3>4, <3>5, Zenon DEF ReadFrom
  <2>3. CASE j # Len(Pieces(d))
    <3>1. ~rest.ok
      BY <2>1, <2>3, Zenon DEF ReadFrom
    <3> QED
      BY <1>4, <1>5, <1>7, <2>3, <3>1, Zenon DEF ReadFrom
  <2> QED
    BY <2>2, <2>3
<1> QED
  BY <1>6, <1>7

\* From the first piece on.
LEMMA ReadDict ==
    ASSUME NEW data \in Seq(Byte), Len(data) # 0, data[1] = "d"
    PROVE  LET dict == Reading(data)[<<"dict", 1>>]
           IN  /\ SN_GetObject(data).ok = dict.ok
               /\ dict.ok => SN_GetObject(data) = Found(SnDict(Inserted(dict.obj.v)), dict.erased)
<1>1. 0 \in 0 .. Len(data) /\ 0 # Len(data) /\ 0 < Len(data) /\ 0 + 1 = 1
  BY LenProperties
<1>2. PICK read : read = Reading(data)
  OBVIOUS
<1>3. SN_GetObject(data) = GetObject(read, data, 0)
  BY <1>1, <1>2, ObjectAt, Zenon DEF SN_GetObject
<1>4. data[0 + 1] = "d" /\ ~IsDigit(data[0 + 1]) /\ data[0 + 1] # "i" /\ data[0 + 1] # "l"
  <2>1. "d" \notin ToSet(Digits)
    BY TenDigits, WireBytes
  <2> QED
    BY <1>1, <2>1 DEF IsDigit
<1>5. GetObject(read, data, 0) =
        LET r == read[<<"dict", 0 + 1>>]
        IN  IF r.ok THEN Found(SnDict(Inserted(r.obj.v)), r.erased) ELSE r
  BY <1>1, <1>4, Zenon DEF GetObject
<1>6. \A obj, n : Found(obj, n).ok = TRUE
  BY DEF Found
<1>7. PICK dict : dict = read[<<"dict", 1>>]
  OBVIOUS
<1>8. SN_GetObject(data) = IF dict.ok THEN Found(SnDict(Inserted(dict.obj.v)), dict.erased) ELSE dict
  BY <1>1, <1>3, <1>5, <1>7, Zenon
<1>9. CASE dict.ok
  <2>1. SN_GetObject(data) = Found(SnDict(Inserted(dict.obj.v)), dict.erased)
    BY <1>8, <1>9, Zenon
  <2> QED
    BY <1>2, <1>6, <1>7, <1>9, <2>1, Zenon
<1>10. CASE ~dict.ok
  BY <1>2, <1>7, <1>8, <1>10, Zenon
<1> QED
  BY <1>9, <1>10

\* The pairs of a message are read as they were put, and are all erased; if
\* anything at the end of it is missing, nothing is read.
LEMMA PairsReadBack ==
    ASSUME NEW d \in Seq(Field), NEW j \in 0 .. Len(Pieces(d)), NEW data,
           data = FlattenSeq(SubSeq(Pieces(d), 1, j))
    PROVE  /\ j = Len(Pieces(d)) =>
                 SN_GetObject(data) = Found(SnDict(Inserted(d)), Len(data))
           /\ j # Len(Pieces(d)) => ~SN_GetObject(data).ok
<1>1. PICK E, l : E = Pieces(d) /\ l = Len(d)
  OBVIOUS
<1>2. E \in Seq(Seq(Byte)) /\ Len(E) \in Nat /\ l \in Nat
  BY <1>1, PiecesAre, LenProperties
<1>3. PICK p : p \in [0 .. Len(d) -> Nat] /\ Layout(d, p)
  BY PiecesAre
<1>4. PICK o : Laid(E, j, data, o)
  BY <1>1, <1>2, CutLaid
<1>5. data \in Seq(Byte) /\ Len(data) \in Nat
  BY <1>4, LenProperties DEF Laid
<1>6. E[1] = <<"d">> /\ p[0] = 1
  BY <1>1, <1>3 DEF Layout
<1>9. \A f \in 0 .. l : p[f] \in Nat
  BY <1>1, <1>3
<1>7. CASE j = 0
  <2>1. Len(data) = 0 /\ 0 \in 0 .. Len(data) /\ 0 = Len(data) /\ ~(0 < Len(data))
    BY <1>4, <1>7 DEF Laid
  <2>2. SN_GetObject(data) = GetObject(Reading(data), data, 0)
    BY <1>5, <2>1, ObjectAt DEF SN_GetObject
  <2>3. GetObject(Reading(data), data, 0) = Bad(0)
    BY <2>1, Zenon DEF GetObject
  <2>4. ~Bad(0).ok
    BY DEF Bad
  <2>5. Len(E) # 0
    <3>1. p[l] + 1 = Len(E)
      BY <1>1, <1>3 DEF Layout
    <3>2. l \in 0 .. l
      BY <1>2
    <3>3. p[l] \in Nat
      BY <1>9, <3>2
    <3> QED
      BY <3>1, <3>3
  <2> QED
    BY <1>1, <1>7, <2>2, <2>3, <2>4, <2>5, Zenon
<1>8. CASE j # 0
  <2> DEFINE T == {f \in 0 .. l : p[f] <= j => ReadFrom(d, j, data, o, p, f)}
  <2>1. l \in T
    <3>1. p[Len(d)] \in Nat /\ l \in 0 .. l
      BY <1>1, <1>2, <1>3
    <3>2. p[l] <= j => ReadFrom(d, j, data, o, p, l)
      BY <1>1, <1>3, <1>4, <3>1, ReadEnd
    <3> QED
      BY <3>1, <3>2
  <2>2. \A f \in 0 .. l : f # 0 /\ f \in T => f - 1 \in T
    <3> SUFFICES ASSUME NEW f \in 0 .. l, f # 0, f \in T PROVE f - 1 \in T
      OBVIOUS
    <3>1. f \in 1 .. Len(d) /\ f - 1 \in 0 .. l /\ p[f - 1] \in Nat
      <4>1. f \in 1 .. l /\ f - 1 \in 0 .. l
        BY <1>2
      <4> QED
        BY <1>1, <1>9, <4>1
    <3>2. p[f] <= j => ReadFrom(d, j, data, o, p, f)
      OBVIOUS
    <3>3. p[f - 1] <= j => ReadFrom(d, j, data, o, p, f - 1)
      BY <1>1, <1>3, <1>4, <3>1, <3>2, ReadFieldFrom
    <3> QED
      BY <3>1, <3>3
  <2>3. 0 \in T
    <3> HIDE DEF T
    <3>1. \A f \in 0 .. l : f \in T
      BY <1>2, <2>1, <2>2, DownFrom
    <3> QED
      BY <1>2, <3>1
  <2>4. p[0] <= j
    BY <1>2, <1>6, <1>8
  <2>5. ReadFrom(d, j, data, o, p, 0)
    BY <2>3, <2>4
  <2>6. 1 \in 1 .. j /\ 1 - 1 = 0
    BY <1>1, <1>2, <1>8
  <2>7. At(data, o[1 - 1], E[1]) /\ o[1] = o[1 - 1] + Len(E[1]) /\ o[0] = 0
    BY <1>4, <2>6 DEF Laid
  <2>8. At(data, 0, <<"d">>) /\ o[1] = 0 + Len(<<"d">>)
    BY <1>6, <2>6, <2>7, Zenon
  <2>9. Len(data) # 0 /\ data[1] = "d" /\ o[p[0]] = 1
    BY <1>5, <1>6, <2>8 DEF At
  <2>10. PICK dict : dict = Reading(data)[<<"dict", 1>>]
    OBVIOUS
  <2>11. /\ SN_GetObject(data).ok = dict.ok
         /\ dict.ok => SN_GetObject(data) = Found(SnDict(Inserted(dict.obj.v)), dict.erased)
    BY <1>5, <2>9, <2>10, ReadDict
  <2>12. CASE j = Len(E)
    <3>1. dict = Found(SnDict(SubSeq(d, 0 + 1, Len(d))), Len(data))
      BY <1>1, <2>5, <2>9, <2>10, <2>12, Zenon DEF ReadFrom
    <3>2. dict.ok /\ dict.obj.v = SubSeq(d, 0 + 1, Len(d)) /\ dict.erased = Len(data)
      BY <3>1 DEF Found, SnDict
    <3>3. SubSeq(d, 1, Len(d)) = d /\ 0 + 1 = 1
      BY NoneAndAll
    <3>4. dict.obj.v = d
      BY <3>2, <3>3, Zenon
    <3> QED
      BY <1>1, <2>11, <2>12, <3>2, <3>4, Zenon
  <2>13. CASE j # Len(E)
    <3>1. ~dict.ok
      BY <1>1, <2>5, <2>9, <2>10, <2>13, Zenon DEF ReadFrom
    <3> QED
      BY <1>1, <2>11, <2>13, <3>1, Zenon
  <2> QED
    BY <2>12, <2>13
<1> QED
  BY <1>7, <1>8

-----------------------------------------------------------------------------
(* Dictionaries.                                                             *)

Distinct(d) == \A i, k \in 1 .. Len(d) : i # k => d[i].key # d[k].key

\* For how many pairs there is room when there are n.
Room(n) == IF n = 0 THEN 0 ELSE IF n <= 8 THEN 8 ELSE 24

\* A dictionary that is full and is not yet at its limit has no more pairs than
\* it takes along.
LEMMA Growing ==
    ASSUME NEW n \in Nat, n < HeldPairs
    PROVE  /\ n <= Room(n)
           /\ n = Room(n) => n <= SizeT /\ Room(n + 1) = (Room(n) + 4) * 2
           /\ n # Room(n) => Room(n + 1) = Room(n)
<1>1. SizeT = 4 \/ SizeT = 8
  BY SizeAssumption
<1>2. n = 0 \/ n \in 1 .. 7 \/ n = 8 \/ n > 8
  OBVIOUS
<1>3. HeldPairs \in {8, 24}
  BY DEF HeldPairs
<1>4. CASE SizeT = 4
  <2>1. n < 8
    BY <1>4 DEF HeldPairs
  <2> QED
    BY <1>4, <2>1 DEF Room
<1>5. CASE SizeT = 8
  <2>1. n < 24
    BY <1>5 DEF HeldPairs
  <2> QED
    BY <1>5, <2>1 DEF Room
<1> QED
  BY <1>1, <1>4, <1>5

\* What is put into a dictionary stays as it is if no key comes twice and the
\* dictionary holds so many.
LEMMA InsertedAll ==
    ASSUME NEW d \in Seq(Field), Distinct(d), Len(d) <= HeldPairs
    PROVE  Inserted(d) = d
<1> DEFINE Step(g, k) == IF k = 0 THEN NoDict ELSE InsertToDict(g[k - 1], d[k])
           Is(g) == g = [k \in 0 .. Len(d) |-> Step(g, k)]
           At1(k) == Dict(Room(k), SubSeq(d, 1, k))
           f0 == [k \in 0 .. Len(d) |-> At1(k)]
           g == CHOOSE g : Is(g)
<1>1. Len(d) \in Nat
  BY LenProperties
<1>2. SubSeq(d, 1, 0) = <<>>
  <2>1. SubSeq(d, 0 + 1, 0) \in Seq(Field) /\ Len(SubSeq(d, 0 + 1, 0)) = 0 - 0
    BY <1>1, Part
  <2> QED
    BY <2>1, EmptySeq
<1>3. ASSUME NEW k \in 1 .. Len(d)
      PROVE  InsertToDict(At1(k - 1), d[k]) = At1(k)
  <2>1. PICK n : n = k - 1
    OBVIOUS
  <2>2. n \in Nat /\ n <= Len(d) /\ k \in Nat /\ k <= Len(d) /\ k = n + 1 /\ d[k] \in Field
    BY <1>1, <2>1, ElementOfSeq
  <2>3. PICK a, b : a = SubSeq(d, 1, n) /\ b = SubSeq(d, 1, k)
    OBVIOUS
  <2>4. a \in Seq(Field) /\ Len(a) = n /\ \A i \in 1 .. n : a[i] = d[i]
    <3>1. /\ SubSeq(d, 0 + 1, n) \in Seq(Field)
          /\ Len(SubSeq(d, 0 + 1, n)) = n - 0
          /\ \A i \in 1 .. n - 0 : SubSeq(d, 0 + 1, n)[i] = d[0 + i]
      BY <2>2, Part
    <3>2. 0 + 1 = 1 /\ n - 0 = n /\ \A i \in 1 .. n : 0 + i = i
      BY <2>2
    <3> QED
      BY <2>3, <3>1, <3>2, Zenon
  <2>5. b \in Seq(Field) /\ Len(b) = k /\ \A i \in 1 .. k : b[i] = d[i]
    <3>1. /\ SubSeq(d, 0 + 1, k) \in Seq(Field)
          /\ Len(SubSeq(d, 0 + 1, k)) = k - 0
          /\ \A i \in 1 .. k - 0 : SubSeq(d, 0 + 1, k)[i] = d[0 + i]
      BY <2>2, Part
    <3>2. 0 + 1 = 1 /\ k - 0 = k /\ \A i \in 1 .. k : 0 + i = i
      BY <2>2
    <3> QED
      BY <2>3, <3>1, <3>2, Zenon
  <2>6. DOMAIN a = 1 .. n
    BY <2>4, LenProperties
  <2>7. ~ \E i \in DOMAIN a : a[i].key = d[k].key
    <3> SUFFICES ASSUME NEW i \in 1 .. n PROVE a[i].key # d[k].key
      BY <2>6
    <3>1. i \in 1 .. Len(d) /\ k \in 1 .. Len(d) /\ i # k
      BY <1>1, <2>2
    <3>2. d[i].key # d[k].key
      BY <3>1 DEF Distinct
    <3> QED
      BY <2>4, <3>2
  <2>8. InsertToDict(Dict(Room(n), a), d[k]) = Dict(Room(k), Append(a, d[k]))
    <3>1. PICK dict : dict = Dict(Room(n), a)
      OBVIOUS
    <3>2. dict.cap = Room(n) /\ dict.pairs = a
      BY <3>1 DEF Dict
    <3>3. InsertToDict(dict, d[k]) =
            LET roomy == IF Len(a) = Room(n) THEN Grown(dict) ELSE dict
            IN  Dict(roomy.cap, Append(roomy.pairs, d[k]))
      BY <2>7, <3>2, Zenon DEF InsertToDict
    <3>4. /\ n = Room(n) => n <= SizeT /\ Room(k) = (Room(n) + 4) * 2
          /\ n # Room(n) => Room(k) = Room(n)
      <4>1. n < HeldPairs
        <5>1. HeldPairs \in Nat
          BY DEF HeldPairs
        <5> QED
          BY <1>1, <2>2, <5>1
      <4> QED
        BY <2>2, <4>1, Growing
    <3>5. CASE n = Room(n)
      <4>1. MovedPairs(a) = a
        <5>1. \A i \in 1 .. n : i <= SizeT
          BY <2>2, <3>4, <3>5, SizeAssumption
        <5>2. MovedPairs(a) = [i \in 1 .. n |-> a[i]]
          BY <2>6, <5>1 DEF MovedPairs
        <5>3. a = [i \in 1 .. n |-> a[i]]
          BY <2>4, <2>6, LenProperties
        <5> QED
          BY <5>2, <5>3
      <4>2. Grown(dict) = Dict((Room(n) + 4) * 2, a)
        BY <3>2, <4>1, Zenon DEF Grown
      <4>3. Grown(dict).cap = Room(k) /\ Grown(dict).pairs = a
        BY <3>4, <3>5, <4>2 DEF Dict
      <4> QED
        BY <2>4, <3>1, <3>3, <3>5, <4>3, Zenon
    <3>6. CASE n # Room(n)
      BY <2>4, <3>1, <3>2, <3>3, <3>4, <3>6, Zenon
    <3> QED
      BY <3>5, <3>6
  <2>9. PICK c : c = Append(a, d[k])
    OBVIOUS
  <2>10. /\ c \in Seq(Field) /\ Len(c) = n + 1
         /\ \A i \in 1 .. n : c[i] = a[i]
         /\ c[n + 1] = d[k]
    BY <2>2, <2>4, <2>9, AppendProperties
  <2>11. ASSUME NEW i \in 1 .. Len(c) PROVE c[i] = b[i]
    <3>1. CASE i = n + 1
      <4>1. i \in 1 .. k /\ i = k
        BY <2>2, <3>1
      <4> QED
        BY <2>5, <2>10, <3>1, <4>1
    <3>2. CASE i # n + 1
      <4>1. i \in 1 .. n /\ i \in 1 .. k
        BY <2>2, <2>10, <3>2
      <4> QED
        BY <2>4, <2>5, <2>10, <4>1
    <3> QED
      BY <3>1, <3>2
  <2>12. c = b
    <3>1. Len(c) = Len(b)
      BY <2>2, <2>5, <2>10
    <3> QED
      BY <2>5, <2>10, <2>11, <3>1, SeqEqual
  <2> QED
    BY <2>1, <2>3, <2>8, <2>9, <2>12, Zenon
<1>4. Is(f0)
  <2>1. ASSUME NEW k \in 0 .. Len(d) PROVE At1(k) = Step(f0, k)
    <3>1. CASE k = 0
      BY <1>2, <3>1 DEF NoDict, Room
    <3>2. CASE k # 0
      <4>1. k - 1 \in 0 .. Len(d) /\ k \in 1 .. Len(d)
        BY <1>1, <3>2
      <4>2. f0[k - 1] = At1(k - 1)
        BY <4>1
      <4> HIDE DEF f0, At1
      <4> QED
        BY <1>3, <3>2, <4>1, <4>2, Zenon
    <3> QED
      BY <3>1, <3>2
  <2> QED
    BY <2>1
<1>5. Is(g)
  <2> HIDE DEF Is, f0
  <2> QED
    BY <1>4
<1>6. \A k \in 0 .. Len(d) : g[k] = Step(g, k)
  <2>1. g = [k \in 0 .. Len(d) |-> Step(g, k)]
    BY <1>5
  <2> HIDE DEF g, Step
  <2> QED
    BY <2>1
<1>7. Inserted(d) = g[Len(d)].pairs
  BY DEF Inserted
<1> HIDE DEF g
<1> DEFINE T == {k \in 0 .. Len(d) : g[k] = At1(k)}
<1>8. 0 \in T
  <2>1. 0 \in 0 .. Len(d)
    BY <1>1
  <2>2. g[0] = NoDict
    BY <1>6, <2>1
  <2> QED
    BY <1>2, <2>1, <2>2 DEF NoDict, Room
<1>9. ASSUME NEW k \in 0 .. Len(d), k # Len(d), k \in T PROVE k + 1 \in T
  <2>1. k + 1 \in 1 .. Len(d) /\ k + 1 \in 0 .. Len(d) /\ (k + 1) - 1 = k /\ k + 1 # 0
    BY <1>1, <1>9
  <2>2. g[k] = At1(k)
    BY <1>9
  <2>3. g[k + 1] = InsertToDict(g[(k + 1) - 1], d[k + 1])
    BY <1>6, <2>1
  <2> HIDE DEF At1
  <2>4. InsertToDict(At1((k + 1) - 1), d[k + 1]) = At1(k + 1)
    BY <1>3, <2>1
  <2>5. g[k + 1] = At1(k + 1)
    BY <2>1, <2>2, <2>3, <2>4, Zenon
  <2> QED
    BY <2>1, <2>5
<1>10. Len(d) \in T
  <2> HIDE DEF T
  <2>1. \A k \in 0 .. Len(d) : k # Len(d) /\ k \in T => k + 1 \in T
    BY <1>9
  <2>2. \A k \in 0 .. Len(d) : k \in T
    BY <1>1, <1>8, <2>1, UpTo
  <2> QED
    BY <1>1, <2>2
<1>11. g[Len(d)].pairs = SubSeq(d, 1, Len(d))
  BY <1>10 DEF Dict
<1>12. SubSeq(d, 1, Len(d)) = d
  BY NoneAndAll
<1> QED
  BY <1>7, <1>11, <1>12, Zenon

\* What the serializer puts for a dictionary of numbers and strings that has no
\* key twice and no more pairs than a dictionary holds (eight where a size_t has
\* four bytes, 24 where it has eight) is read back as that dictionary, and is
\* all erased; if anything of it at the end is missing, nothing is read
\* (serializer.c, SN_PutObject, SN_GetObject and SN_InsertToDict).
THEOREM MessageReadBack ==
    ASSUME NEW d \in Seq(Field), Distinct(d), Len(d) <= HeldPairs,
           NEW j \in 0 .. Len(Pieces(d)), NEW data,
           data = FlattenSeq(SubSeq(Pieces(d), 1, j))
    PROVE  /\ j = Len(Pieces(d)) => SN_GetObject(data) = Found(SnDict(d), Len(data))
           /\ j # Len(Pieces(d)) => ~SN_GetObject(data).ok
<1>1. /\ j = Len(Pieces(d)) => SN_GetObject(data) = Found(SnDict(Inserted(d)), Len(data))
      /\ j # Len(Pieces(d)) => ~SN_GetObject(data).ok
  BY PairsReadBack
<1>2. Inserted(d) = d
  BY InsertedAll
<1> QED
  BY <1>1, <1>2, Zenon

\* A sequence without one of its elements.
LEMMA Removed ==
    ASSUME NEW X, NEW d \in Seq(X), NEW k \in 1 .. Len(d)
    PROVE  /\ RemoveAt(d, k) \in Seq(X)
           /\ Len(RemoveAt(d, k)) = Len(d) - 1
           /\ \A i \in 1 .. Len(d) - 1 : RemoveAt(d, k)[i] = IF i < k THEN d[i] ELSE d[i + 1]
<1>1. Len(d) \in Nat
  BY LenProperties
<1>2. PICK a, b, n : a = SubSeq(d, 1, k - 1) /\ b = SubSeq(d, k + 1, Len(d)) /\ n = k - 1
  OBVIOUS
<1>3. n \in Nat /\ n <= Len(d) /\ k \in Nat /\ k <= Len(d) /\ k = n + 1
  BY <1>1, <1>2
<1>4. a \in Seq(X) /\ Len(a) = n /\ \A i \in 1 .. n : a[i] = d[i]
  <2>1. /\ SubSeq(d, 0 + 1, n) \in Seq(X)
        /\ Len(SubSeq(d, 0 + 1, n)) = n - 0
        /\ \A i \in 1 .. n - 0 : SubSeq(d, 0 + 1, n)[i] = d[0 + i]
    BY <1>3, Part
  <2>2. 0 + 1 = 1 /\ n - 0 = n /\ \A i \in 1 .. n : 0 + i = i
    BY <1>3
  <2> QED
    BY <1>2, <2>1, <2>2, Zenon
<1>5. b \in Seq(X) /\ Len(b) = Len(d) - k /\ \A i \in 1 .. Len(d) - k : b[i] = d[k + i]
  <2>1. /\ SubSeq(d, k + 1, Len(d)) \in Seq(X)
        /\ Len(SubSeq(d, k + 1, Len(d))) = Len(d) - k
        /\ \A i \in 1 .. Len(d) - k : SubSeq(d, k + 1, Len(d))[i] = d[k + i]
    <3>1. Len(d) <= Len(d)
      BY <1>1
    <3> QED
      BY <1>1, <1>3, <3>1, Part
  <2> QED
    BY <1>2, <2>1, Zenon
<1>6. RemoveAt(d, k) = a \o b
  BY <1>2 DEF RemoveAt
<1>7. Joined(X, a, b, a \o b)
  BY <1>4, <1>5, Joining
<1>8. PICK e : e = a \o b
  OBVIOUS
<1>9. /\ e \in Seq(X) /\ Len(e) = Len(d) - 1
      /\ \A i \in 1 .. n : e[i] = d[i]
      /\ \A i \in 1 .. Len(d) - k : e[n + i] = d[k + i]
  <2>1. Joined(X, a, b, e)
    BY <1>7, <1>8, Zenon
  <2>2. /\ e \in Seq(X) /\ Len(e) = Len(a) + Len(b)
        /\ \A i \in 1 .. Len(a) : e[i] = a[i]
        /\ \A i \in 1 .. Len(b) : e[Len(a) + i] = b[i]
    BY <2>1, Zenon DEF Joined
  <2>3. Len(a) + Len(b) = Len(d) - 1
    BY <1>1, <1>3, <1>4, <1>5
  <2>4. \A i \in 1 .. n : e[i] = d[i]
    BY <1>4, <2>2, Zenon
  <2>5. \A i \in 1 .. Len(d) - k : e[n + i] = d[k + i]
    BY <1>4, <1>5, <2>2, Zenon
  <2> QED
    BY <2>2, <2>3, <2>4, <2>5, Zenon
<1>10. ASSUME NEW i \in 1 .. Len(d) - 1 PROVE e[i] = IF i < k THEN d[i] ELSE d[i + 1]
  <2>1. CASE i < k
    <3>1. i \in 1 .. n
      BY <1>3, <2>1
    <3> QED
      BY <1>9, <2>1, <3>1
  <2>2. CASE ~(i < k)
    <3>1. i - n \in 1 .. Len(d) - k /\ n + (i - n) = i /\ k + (i - n) = i + 1
      BY <1>1, <1>3, <2>2
    <3>2. e[n + (i - n)] = d[k + (i - n)]
      BY <1>9, <3>1
    <3> QED
      BY <2>2, <3>1, <3>2, Zenon
  <2> QED
    BY <2>1, <2>2
<1> QED
  BY <1>6, <1>8, <1>9, <1>10, Zenon

\* A dictionary that has the pairs of X and no key twice.
Lists(D, X) ==
    /\ D \in Seq(Field) /\ Distinct(D)
    /\ X = {D[m] : m \in 1 .. Len(D)}

\* What a key leads to, if it is there, as it is if all is.
Carries(d, key, val, all) ==
    /\ HasKey(d, key) => FindFromDict(d, key) = val
    /\ all => HasKey(d, key)

\* A field left out takes its key with it, and nothing else changes.
LEMMA LeftOut ==
    ASSUME NEW D \in Seq(Field), Distinct(D), NEW k \in 0 .. Len(D), NEW d, d = RemoveFields(D, k)
    PROVE  /\ d \in Seq(Field) /\ Distinct(d) /\ Len(d) <= Len(D)
           /\ \A i \in 1 .. Len(d) : \E m \in 1 .. Len(D) : d[i] = D[m]
           /\ k = 0 => d = D
<1>1. Len(D) \in Nat
  BY LenProperties
<1>2. CASE k = 0
  BY <1>1, <1>2 DEF RemoveFields
<1>3. CASE k # 0
  <2>1. d = RemoveAt(D, k) /\ k \in 1 .. Len(D)
    BY <1>1, <1>3 DEF RemoveFields
  <2>2. /\ d \in Seq(Field) /\ Len(d) = Len(D) - 1
        /\ \A i \in 1 .. Len(D) - 1 : d[i] = IF i < k THEN D[i] ELSE D[i + 1]
    BY <2>1, Removed
  <2> DEFINE at(i) == IF i < k THEN i ELSE i + 1
  <2>3. ASSUME NEW i \in 1 .. Len(d) PROVE at(i) \in 1 .. Len(D) /\ d[i] = D[at(i)]
    BY <1>1, <2>1, <2>2
  <2>4. ASSUME NEW i \in 1 .. Len(d), NEW j \in 1 .. Len(d), i # j PROVE at(i) # at(j)
    BY <1>1, <2>1, <2>2, <2>4
  <2> HIDE DEF at
  <2>5. ASSUME NEW i \in 1 .. Len(d), NEW j \in 1 .. Len(d), i # j PROVE d[i].key # d[j].key
    <3>1. at(i) \in 1 .. Len(D) /\ at(j) \in 1 .. Len(D) /\ at(i) # at(j)
      BY <2>3, <2>4, <2>5
    <3>2. D[at(i)].key # D[at(j)].key
      BY <3>1 DEF Distinct
    <3> QED
      BY <2>3, <3>2
  <2>6. Len(d) <= Len(D)
    BY <1>1, <2>2
  <2> QED
    BY <1>3, <2>2, <2>3, <2>5, <2>6 DEF Distinct
<1> QED
  BY <1>2, <1>3

LEMMA Lookup ==
    ASSUME NEW D, NEW T, Lists(D, T), NEW k \in 0 .. Len(D), NEW d, d = RemoveFields(D, k)
    PROVE  /\ \A x \in T : Carries(d, x.key, x.val, k = 0)
           /\ \A key : (\A x \in T : x.key # key) => ~HasKey(d, key)
<1>1. D \in Seq(Field) /\ Distinct(D) /\ T = {D[m] : m \in 1 .. Len(D)}
  BY DEF Lists
<1>2. /\ d \in Seq(Field) /\ Distinct(d) /\ DOMAIN d = 1 .. Len(d)
      /\ \A i \in 1 .. Len(d) : \E m \in 1 .. Len(D) : d[i] = D[m]
      /\ k = 0 => d = D
  BY <1>1, LeftOut, LenProperties
<1>3. \A i \in DOMAIN d : d[i] \in T
  BY <1>1, <1>2
<1>4. ASSUME NEW x \in T PROVE Carries(d, x.key, x.val, k = 0)
  <2>1. ASSUME HasKey(d, x.key) PROVE FindFromDict(d, x.key) = x.val
    <3> DEFINE i == CHOOSE i \in DOMAIN d : d[i].key = x.key
    <3>1. i \in DOMAIN d /\ d[i].key = x.key
      BY <2>1 DEF HasKey
    <3>2. FindFromDict(d, x.key) = d[i].val
      BY DEF FindFromDict
    <3> HIDE DEF i
    <3>3. PICK m \in 1 .. Len(D) : d[i] = D[m]
      BY <1>2, <3>1
    <3>4. PICK l \in 1 .. Len(D) : x = D[l]
      BY <1>1
    <3>5. D[m].key = D[l].key
      BY <3>1, <3>3, <3>4
    <3>6. m = l
      BY <1>1, <3>5 DEF Distinct
    <3> QED
      BY <3>2, <3>3, <3>4, <3>6
  <2>2. ASSUME k = 0 PROVE HasKey(d, x.key)
    <3>1. PICK l \in 1 .. Len(D) : x = D[l]
      BY <1>1
    <3>2. l \in DOMAIN d /\ d[l].key = x.key
      BY <1>2, <2>2, <3>1
    <3> QED
      BY <3>2 DEF HasKey
  <2> QED
    BY <2>1, <2>2 DEF Carries
<1>5. ASSUME NEW key, \A x \in T : x.key # key PROVE ~HasKey(d, key)
  BY <1>3, <1>5 DEF HasKey
<1> QED
  BY <1>4, <1>5

LEMMA ListNone == Lists(<<>>, {})
BY EmptySeq DEF Lists, Distinct

LEMMA ListOne ==
    ASSUME NEW x \in Field
    PROVE  Lists(<<x>>, {x})
<1>1. PICK s : s = <<x>>
  OBVIOUS
<1>2. s \in Seq(Field) /\ Len(s) = 1 /\ s[1] = x
  BY <1>1
<1>3. {s[m] : m \in 1 .. 1} = {x}
  BY <1>2
<1> QED
  BY <1>1, <1>2, <1>3 DEF Lists, Distinct

LEMMA ListMore ==
    ASSUME NEW s, NEW T, Lists(s, T), NEW t, NEW U, Lists(t, U), \A x \in T, y \in U : x.key # y.key
    PROVE  Lists(s \o t, T \cup U)
<1>1. /\ s \in Seq(Field) /\ Distinct(s) /\ T = {s[m] : m \in 1 .. Len(s)}
      /\ t \in Seq(Field) /\ Distinct(t) /\ U = {t[m] : m \in 1 .. Len(t)}
  BY DEF Lists
<1>2. Len(s) \in Nat /\ Len(t) \in Nat
  BY <1>1, LenProperties
<1>3. PICK e : e = s \o t
  OBVIOUS
<1>4. Joined(Field, s, t, e)
  BY <1>1, <1>3, Joining
<1>5. /\ e \in Seq(Field) /\ Len(e) = Len(s) + Len(t)
      /\ \A m \in 1 .. Len(s) : e[m] = s[m]
      /\ \A m \in 1 .. Len(t) : e[Len(s) + m] = t[m]
  BY <1>4, Zenon DEF Joined
<1>6. PICK n, l, nl : n = Len(s) /\ l = Len(t) /\ nl = Len(e)
  OBVIOUS
<1>7. n \in Nat /\ l \in Nat /\ nl = n + l
  BY <1>2, <1>5, <1>6
<1>8. \A m \in 1 .. nl : m \in 1 .. n \/ (m - n \in 1 .. l /\ n + (m - n) = m)
  BY <1>7
<1>9. \A m \in 1 .. n : m \in 1 .. nl /\ e[m] = s[m] /\ e[m] \in T
  BY <1>1, <1>5, <1>6, <1>7
<1>10. \A m \in 1 .. l : n + m \in 1 .. nl /\ e[n + m] = t[m] /\ e[n + m] \in U
  BY <1>1, <1>5, <1>6, <1>7
<1>11. T \cup U = {e[m] : m \in 1 .. nl}
  <2>1. ASSUME NEW x \in T PROVE \E m \in 1 .. nl : x = e[m]
    BY <1>1, <1>6, <1>9
  <2>2. ASSUME NEW x \in U PROVE \E m \in 1 .. nl : x = e[m]
    BY <1>1, <1>6, <1>10
  <2>3. ASSUME NEW m \in 1 .. nl PROVE e[m] \in T \cup U
    <3>1. CASE m \in 1 .. n
      BY <1>9, <3>1
    <3>2. CASE m - n \in 1 .. l /\ n + (m - n) = m
      <4>1. e[n + (m - n)] \in U
        BY <1>10, <3>2
      <4> QED
        BY <3>2, <4>1
    <3> QED
      BY <1>8, <3>1, <3>2
  <2> QED
    BY <2>1, <2>2, <2>3
<1>12. ASSUME NEW i \in 1 .. nl, NEW k \in 1 .. nl, i # k PROVE e[i].key # e[k].key
  <2>1. ASSUME NEW a \in 1 .. n, NEW b \in 1 .. n, a # b PROVE e[a].key # e[b].key
    BY <1>1, <1>6, <1>9, <2>1 DEF Distinct
  <2>2. ASSUME NEW a \in 1 .. l, NEW b \in 1 .. l, a # b PROVE e[n + a].key # e[n + b].key
    <3>1. t[a].key # t[b].key
      BY <1>1, <1>6, <2>2, Zenon DEF Distinct
    <3>2. e[n + a] = t[a] /\ e[n + b] = t[b]
      BY <1>10
    <3> QED
      BY <3>1, <3>2, Zenon
  <2>3. ASSUME NEW a \in 1 .. n, NEW b \in 1 .. l
        PROVE  e[a].key # e[n + b].key /\ e[n + b].key # e[a].key
    BY <1>9, <1>10
  <2>4. CASE i \in 1 .. n /\ k \in 1 .. n
    BY <1>12, <2>1, <2>4
  <2>5. CASE i \in 1 .. n /\ k - n \in 1 .. l /\ n + (k - n) = k
    <3>1. e[i].key # e[n + (k - n)].key
      BY <2>3, <2>5
    <3> QED
      BY <2>5, <3>1
  <2>6. CASE i - n \in 1 .. l /\ n + (i - n) = i /\ k \in 1 .. n
    <3>1. e[n + (i - n)].key # e[k].key
      BY <2>3, <2>6
    <3> QED
      BY <2>6, <3>1
  <2>7. CASE i - n \in 1 .. l /\ n + (i - n) = i /\ k - n \in 1 .. l /\ n + (k - n) = k
    <3>1. i - n # k - n
      BY <1>12, <2>7
    <3>2. e[n + (i - n)].key # e[n + (k - n)].key
      BY <2>2, <2>7, <3>1
    <3> QED
      BY <2>7, <3>2
  <2> QED
    BY <1>8, <2>4, <2>5, <2>6, <2>7
<1> QED
  <2>1. Distinct(e)
    BY <1>6, <1>12, Zenon DEF Distinct
  <2>2. T \cup U = {e[m] : m \in 1 .. Len(e)}
    BY <1>6, <1>11, Zenon
  <2>3. Lists(e, T \cup U)
    BY <1>5, <2>1, <2>2, Zenon DEF Lists
  <2> QED
    BY <1>3, <2>3, Zenon

LEMMA ListTwo ==
    ASSUME NEW x \in Field, NEW y \in Field, x.key # y.key
    PROVE  Lists(<<x, y>>, {x, y})
<1>1. PICK s : s = <<x, y>>
  OBVIOUS
<1>2. s \in Seq(Field) /\ Len(s) = 2 /\ s[1] = x /\ s[2] = y
  BY <1>1
<1>3. {s[m] : m \in 1 .. 2} = {x, y}
  BY <1>2
<1>4. Distinct(s)
  BY <1>2 DEF Distinct
<1> QED
  BY <1>1, <1>2, <1>3, <1>4 DEF Lists

LEMMA ListThree ==
    ASSUME NEW x \in Field, NEW y \in Field, NEW z \in Field,
           x.key # y.key, x.key # z.key, y.key # z.key
    PROVE  Lists(<<x, y, z>>, {x, y, z})
<1>1. PICK s : s = <<x, y, z>>
  OBVIOUS
<1>2. s \in Seq(Field) /\ Len(s) = 3 /\ s[1] = x /\ s[2] = y /\ s[3] = z
  BY <1>1
<1>3. {s[m] : m \in 1 .. 3} = {x, y, z}
  BY <1>2
<1>4. Distinct(s)
  BY <1>2 DEF Distinct
<1> QED
  BY <1>1, <1>2, <1>3, <1>4 DEF Lists

-----------------------------------------------------------------------------
(* The fields of events.                                                     *)

LEMMA KeyNames ==
    /\ PASSWORD \notin {EVENT_NAME, MOUSE_EVENT_TYPE, MOUSE_X, MOUSE_Y, MOUSE_DATA,
                        KEYBOARD_EVENT_TYPE, FUNCKEY_VALUE, ASCIIKEY_VALUE, TEXTKEY_VALUE}
    /\ EVENT_NAME \notin {PASSWORD, MOUSE_EVENT_TYPE, MOUSE_X, MOUSE_Y, MOUSE_DATA, KEYBOARD_EVENT_TYPE,
                          FUNCKEY_VALUE, ASCIIKEY_VALUE, TEXTKEY_VALUE, REPLY_IPADDR, REPLY_PORT}
    /\ MOUSE_EVENT_TYPE \notin {MOUSE_X, MOUSE_Y, MOUSE_DATA}
    /\ MOUSE_X # MOUSE_Y
    /\ KEYBOARD_EVENT_TYPE \notin {FUNCKEY_VALUE, ASCIIKEY_VALUE, TEXTKEY_VALUE}
    /\ REPLY_IPADDR # REPLY_PORT
BY DEF PASSWORD, EVENT_NAME, MOUSE_EVENT_TYPE, MOUSE_X, MOUSE_Y, MOUSE_DATA, KEYBOARD_EVENT_TYPE,
       FUNCKEY_VALUE, ASCIIKEY_VALUE, TEXTKEY_VALUE, REPLY_IPADDR, REPLY_PORT

LEMMA KeysAreBytes ==
    ASSUME NEW key \in Keys
    PROVE  key \in Bytes1
<1>1. key \in Seq(Byte)
  BY MessageAssumption
<1>2. key # <<>>
  BY DEF Keys, PASSWORD, EVENT_NAME, MOUSE_EVENT_TYPE, MOUSE_X, MOUSE_Y, MOUSE_DATA,
         KEYBOARD_EVENT_TYPE, FUNCKEY_VALUE, ASCIIKEY_VALUE, TEXTKEY_VALUE, REPLY_IPADDR, REPLY_PORT
<1>3. Len(key) = 1
  BY DEF Keys, PASSWORD, EVENT_NAME, MOUSE_EVENT_TYPE, MOUSE_X, MOUSE_Y, MOUSE_DATA,
         KEYBOARD_EVENT_TYPE, FUNCKEY_VALUE, ASCIIKEY_VALUE, TEXTKEY_VALUE, REPLY_IPADDR, REPLY_PORT
<1>4. 1 < SizeLimit
  BY SizeAssumption
<1> QED
  BY <1>1, <1>2, <1>3, <1>4 DEF Bytes1

LEMMA IntField ==
    ASSUME NEW key \in Keys, NEW n \in Int
    PROVE  /\ IntPair(key, n) \in Field
           /\ IntPair(key, n).key = key /\ IntPair(key, n).val = SnInt(n)
<1>1. key \in Bytes1
  BY KeysAreBytes
<1>2. SnInt(n) \in Leaf
  BY Zenon DEF Leaf
<1>3. Pair(key, SnInt(n)) \in Field
  BY <1>1, <1>2 DEF Field
<1>4. \A v : Pair(key, v).key = key /\ Pair(key, v).val = v
  BY DEF Pair
<1> QED
  BY <1>3, <1>4, Zenon DEF IntPair

LEMMA TextField ==
    ASSUME NEW key \in Keys, NEW s \in Bytes1
    PROVE  /\ Pair(key, SnStr(s)) \in Field
           /\ Pair(key, SnStr(s)).key = key /\ Pair(key, SnStr(s)).val = SnStr(s)
<1>1. key \in Bytes1
  BY KeysAreBytes
<1>2. SnStr(s) \in Leaf
  BY DEF Leaf
<1>3. Pair(key, SnStr(s)) \in Field
  BY <1>1, <1>2 DEF Field
<1>4. \A v : Pair(key, v).key = key /\ Pair(key, v).val = v
  BY DEF Pair
<1> QED
  BY <1>3, <1>4, Zenon

\* A password is sent if there is one and it is in ASCII.
Sent(pwd) == pwd # <<>> /\ ToSet(pwd) \cap NotAscii = {}

PwdSet(pwd) == {x \in {Pair(PASSWORD, SnStr(pwd))} : Sent(pwd)}

LEMMA PwdLists ==
    ASSUME NEW pwd \in Passwords
    PROVE  Lists(PwdFields(pwd), PwdSet(pwd)) /\ \A x \in PwdSet(pwd) : x.key = PASSWORD
<1>1. CASE Sent(pwd)
  <2>1. pwd \in Bytes1 /\ PASSWORD \in Keys
    BY <1>1, MessageAssumption DEF Sent, Bytes1, Keys
  <2>2. /\ Pair(PASSWORD, SnStr(pwd)) \in Field
        /\ Pair(PASSWORD, SnStr(pwd)).key = PASSWORD
    BY <2>1, TextField
  <2>3. PwdFields(pwd) = << Pair(PASSWORD, SnStr(pwd)) >>
    BY <1>1, Zenon DEF PwdFields, Sent
  <2>4. PwdSet(pwd) = {Pair(PASSWORD, SnStr(pwd))}
    BY <1>1 DEF PwdSet
  <2> QED
    BY <2>2, <2>3, <2>4, ListOne
<1>2. CASE ~Sent(pwd)
  <2>1. PwdFields(pwd) = <<>>
    BY <1>2, Zenon DEF PwdFields, Sent
  <2>2. PwdSet(pwd) = {}
    BY <1>2 DEF PwdSet
  <2> QED
    BY <2>1, <2>2, ListNone
<1> QED
  BY <1>1, <1>2

\* The server takes it as it is, or has none.
Agree(pwd, pwd2) == pwd2 = <<>> \/ (pwd = pwd2 /\ ToSet(pwd) \cap NotAscii = {})

LEMMA PwdDecoded ==
    ASSUME NEW d, NEW pwd, NEW pwd2, NEW all,
           Sent(pwd) => Carries(d, PASSWORD, SnStr(pwd), all),
           ~Sent(pwd) => ~HasKey(d, PASSWORD)
    PROVE  /\ PwdAccepted(d, pwd2) => Agree(pwd, pwd2)
           /\ all /\ Agree(pwd, pwd2) => PwdAccepted(d, pwd2)
<1>1. SnStr(pwd).t = "string" /\ SnStr(pwd).v = pwd
  BY DEF SnStr
<1>2. ASSUME PwdAccepted(d, pwd2), pwd2 # <<>> PROVE Agree(pwd, pwd2)
  <2>1. HasKey(d, PASSWORD) /\ TextOf(d, PASSWORD) = pwd2
    BY <1>2, Zenon DEF PwdAccepted, HasString
  <2>2. Sent(pwd) /\ FindFromDict(d, PASSWORD) = SnStr(pwd)
    BY <2>1, Zenon DEF Carries
  <2> QED
    BY <1>1, <2>1, <2>2, Zenon DEF TextOf, Agree, Sent
<1>3. ASSUME all, Agree(pwd, pwd2), pwd2 # <<>> PROVE PwdAccepted(d, pwd2)
  <2>1. Sent(pwd) /\ pwd = pwd2
    BY <1>3, Zenon DEF Agree, Sent
  <2>2. HasKey(d, PASSWORD) /\ FindFromDict(d, PASSWORD) = SnStr(pwd)
    BY <1>3, <2>1, Zenon DEF Carries
  <2> QED
    BY <1>1, <2>1, <2>2, Zenon DEF PwdAccepted, HasString, TextOf
<1> QED
  BY <1>2, <1>3, Zenon DEF PwdAccepted, Agree

\* What can be found of the fields B and the password.
FoundIn(d, B, pwd, all) ==
    /\ \A x \in B : Carries(d, x.key, x.val, all)
    /\ Sent(pwd) => Carries(d, PASSWORD, SnStr(pwd), all)
    /\ ~Sent(pwd) => ~HasKey(d, PASSWORD)

\* Behind a password.
LEMMA WithPwd ==
    ASSUME NEW pwd \in Passwords, NEW body, NEW B, Lists(body, B), \A x \in B : x.key # PASSWORD,
           NEW D, D = PwdFields(pwd) \o body
    PROVE  /\ D \in Seq(Field) /\ Distinct(D)
           /\ \A k \in 0 .. Len(D) : FoundIn(RemoveFields(D, k), B, pwd, k = 0)
<1> SUFFICES ASSUME NEW k \in 0 .. Len(D), NEW d, d = RemoveFields(D, k)
             PROVE  D \in Seq(Field) /\ Distinct(D) /\ FoundIn(d, B, pwd, k = 0)
  <2>1. Len(D) \in Nat
    <3>1. Lists(D, PwdSet(pwd) \cup B)
      <4>1. Lists(PwdFields(pwd), PwdSet(pwd)) /\ \A x \in PwdSet(pwd), y \in B : x.key # y.key
        BY PwdLists
      <4> QED
        BY <4>1, ListMore
    <3> QED
      BY <3>1, LenProperties DEF Lists
  <2>2. 0 \in 0 .. Len(D)
    BY <2>1
  <2> QED
    BY <2>2
<1>1. Lists(PwdFields(pwd), PwdSet(pwd)) /\ \A x \in PwdSet(pwd) : x.key = PASSWORD
  BY PwdLists
<1>2. \A x \in PwdSet(pwd), y \in B : x.key # y.key
  BY <1>1
<1>3. Lists(D, PwdSet(pwd) \cup B)
  BY <1>1, <1>2, ListMore
<1>4. /\ \A x \in PwdSet(pwd) \cup B : Carries(d, x.key, x.val, k = 0)
      /\ \A key : (\A x \in PwdSet(pwd) \cup B : x.key # key) => ~HasKey(d, key)
  BY <1>3, Lookup
<1>5. ASSUME Sent(pwd) PROVE Carries(d, PASSWORD, SnStr(pwd), k = 0)
  <2>1. PICK x : x = Pair(PASSWORD, SnStr(pwd))
    OBVIOUS
  <2>2. x \in PwdSet(pwd)
    BY <1>5, <2>1 DEF PwdSet
  <2>3. x.key = PASSWORD /\ x.val = SnStr(pwd)
    BY <2>1 DEF Pair
  <2>4. Carries(d, x.key, x.val, k = 0)
    BY <1>4, <2>2
  <2> QED
    BY <2>3, <2>4, Zenon
<1>6. ASSUME ~Sent(pwd) PROVE ~HasKey(d, PASSWORD)
  <2>1. PwdSet(pwd) = {}
    BY <1>6 DEF PwdSet
  <2> QED
    BY <1>4, <2>1
<1> QED
  BY <1>3, <1>4, <1>5, <1>6 DEF Lists, FoundIn

LEMMA NumberHeld ==
    ASSUME NEW d, NEW key, NEW n, NEW all, Carries(d, key, SnInt(n), all)
    PROVE  HasKey(d, key) => Number(d, key) = n
<1>1. SnInt(n).t = "int" /\ SnInt(n).v = n
  BY DEF SnInt
<1> QED
  BY <1>1, Zenon DEF Carries, Number

LEMMA TextHeld ==
    ASSUME NEW d, NEW key, NEW s, NEW all, Carries(d, key, SnStr(s), all)
    PROVE  HasKey(d, key) => HasString(d, key) /\ TextOf(d, key) = s
<1>1. SnStr(s).t = "string" /\ SnStr(s).v = s
  BY DEF SnStr
<1> QED
  BY <1>1, Zenon DEF Carries, HasString, TextOf

\* The server has to be told who sends the mouse and the keyboard.
Accept(e, pwd, pwd2) == e.kind \notin {Mouse, Keyboard} \/ Agree(pwd, pwd2)

\* What an event becomes.
Gives(result, e, pwd, pwd2, all) ==
    /\ result = NoEvent \/ result = AsWhole(e)
    /\ result # NoEvent => Accept(e, pwd, pwd2)
    /\ all /\ Accept(e, pwd, pwd2) => result # NoEvent

LEMMA KindOf ==
    /\ \A e : IsEvent(e) => AsWhole(e).kind = e.kind /\ e.kind # NoKind
    /\ NoEvent.kind = NoKind
<1>1. ASSUME NEW e, IsEvent(e) PROVE AsWhole(e).kind = e.kind /\ e.kind # NoKind
  <2>1. e.kind \in {Mouse, Keyboard, DiscoveryRequest, DiscoveryReply}
    <3>1. e = Event(DiscoveryRequest, 0, <<>>, <<>>) => e.kind = DiscoveryRequest
      BY DEF Event
    <3> QED
      BY <1>1, <3>1, Zenon DEF IsEvent
  <2>2. e.kind # NoKind
    BY <2>1 DEF Mouse, Keyboard, DiscoveryRequest, DiscoveryReply, NoKind
  <2>3. CASE e.kind = Mouse
    <3>1. e = Event(e.kind, e.type, e.nums, e.text)
      BY <1>1, Zenon DEF IsEvent
    <3>2. AsWhole(e) = [e EXCEPT !.nums = [k \in DOMAIN @ |-> Whole(@[k])]]
      BY <2>3, Zenon DEF AsWhole
    <3>3. PICK nums : nums = [k \in DOMAIN e.nums |-> Whole(e.nums[k])]
      OBVIOUS
    <3>4. AsWhole(e) = [e EXCEPT !.nums = nums]
      BY <3>2, <3>3
    <3>5. AsWhole(e).kind = e.kind
      BY <3>1, <3>4 DEF Event
    <3> QED
      BY <2>2, <3>5
  <2>4. CASE e.kind # Mouse
    <3>1. AsWhole(e) = e
      BY <2>4, Zenon DEF AsWhole
    <3> QED
      BY <2>2, <3>1
  <2> QED
    BY <2>3, <2>4
<1>2. NoEvent.kind = NoKind
  BY DEF NoEvent, Event
<1> QED
  BY <1>1, <1>2

LEMMA SomeEvent ==
    ASSUME NEW e, IsEvent(e)
    PROVE  AsWhole(e) # NoEvent /\ e # NoEvent
<1>1. AsWhole(e).kind # NoEvent.kind /\ e.kind # NoEvent.kind
  BY KindOf
<1> QED
  BY <1>1

\* An event of the mouse or the keyboard at the server.
InputEvent(r, d, pwd2, n) ==
    /\ ~PwdAccepted(d, pwd2) => ToEvent(r, pwd2) = NoEvent
    /\ ~HasKey(d, EVENT_NAME) => ToEvent(r, pwd2) = NoEvent
    /\ PwdAccepted(d, pwd2) /\ HasKey(d, EVENT_NAME) =>
          ToEvent(r, pwd2) = IF n = Mouse THEN DecodeMouse(d) ELSE DecodeKeyboard(d)

LEMMA ToInputEvent ==
    ASSUME NEW d, NEW r, r.ok, r.obj = SnDict(d), NEW pwd2, NEW all,
           NEW n \in {Mouse, Keyboard}, Carries(d, EVENT_NAME, SnInt(n), all)
    PROVE  InputEvent(r, d, pwd2, n)
<1> USE DEF InputEvent
<1>1. Pairs(r) = d
  BY DEF Pairs, SnDict
<1>2. HasKey(d, EVENT_NAME) => Number(d, EVENT_NAME) = n
  BY NumberHeld
<1>3. Mouse # DiscoveryRequest /\ Keyboard # DiscoveryRequest /\ Mouse # Keyboard
      /\ NoKind # Mouse /\ NoKind # Keyboard
  BY DEF Mouse, Keyboard, DiscoveryRequest, NoKind
<1>4. ~IsRequest(d)
  BY <1>2, <1>3 DEF IsRequest
<1>5. PICK kind : kind = IF HasKey(d, EVENT_NAME) THEN Number(d, EVENT_NAME) ELSE NoKind
  OBVIOUS
<1>6. ToEvent(r, pwd2) =
        IF ~PwdAccepted(d, pwd2) THEN NoEvent
        ELSE CASE kind = Mouse -> DecodeMouse(d)
               [] kind = Keyboard -> DecodeKeyboard(d)
               [] OTHER -> NoEvent
  BY <1>1, <1>4, <1>5 DEF ToEvent
<1>7. CASE ~PwdAccepted(d, pwd2)
  BY <1>6, <1>7
<1>8. CASE PwdAccepted(d, pwd2)
  <2>1. ToEvent(r, pwd2) = CASE kind = Mouse -> DecodeMouse(d)
                             [] kind = Keyboard -> DecodeKeyboard(d)
                             [] OTHER -> NoEvent
    BY <1>6, <1>8, Zenon
  <2>2. CASE ~HasKey(d, EVENT_NAME)
    <3>1. kind = NoKind
      BY <1>5, <2>2
    <3>2. ToEvent(r, pwd2) = NoEvent
      BY <1>3, <2>1, <3>1
    <3> QED
      BY <2>2, <3>2
  <2>3. CASE HasKey(d, EVENT_NAME)
    <3>1. kind = n
      BY <1>2, <1>5, <2>3
    <3>2. CASE n = Mouse
      <4>1. ToEvent(r, pwd2) = DecodeMouse(d)
        BY <1>3, <2>1, <3>1, <3>2
      <4> QED
        BY <1>8, <2>3, <3>2, <4>1
    <3>3. CASE n # Mouse
      <4>1. n = Keyboard
        BY <3>3
      <4>2. ToEvent(r, pwd2) = DecodeKeyboard(d)
        BY <1>3, <2>1, <3>1, <4>1
      <4> QED
        BY <1>8, <2>3, <3>3, <4>2
    <3> QED
      BY <3>2, <3>3
  <2> QED
    BY <2>2, <2>3
<1> QED
  BY <1>7, <1>8

LEMMA MouseDecode ==
    ASSUME NEW e, IsEvent(e), e.kind = Mouse, NEW d, NEW all,
           NEW keys, keys = IF IsWheel(e.type) THEN <<MOUSE_DATA>> ELSE <<MOUSE_X, MOUSE_Y>>,
           Carries(d, MOUSE_EVENT_TYPE, SnInt(e.type), all),
           DOMAIN keys = DOMAIN e.nums,
           \A k \in DOMAIN keys : Carries(d, keys[k], SnInt(Whole(e.nums[k])), all)
    PROVE  /\ DecodeMouse(d) = NoEvent \/ DecodeMouse(d) = AsWhole(e)
           /\ all => DecodeMouse(d) = AsWhole(e)
<1>1. HasKey(d, MOUSE_EVENT_TYPE) => Number(d, MOUSE_EVENT_TYPE) = e.type
  BY NumberHeld
<1>2. \A k \in DOMAIN keys : HasKey(d, keys[k]) => Number(d, keys[k]) = Whole(e.nums[k])
  BY NumberHeld
<1>3. /\ ~HasKey(d, MOUSE_EVENT_TYPE) => DecodeMouse(d) = NoEvent
      /\ HasKey(d, MOUSE_EVENT_TYPE) =>
            DecodeMouse(d) = IF \E k \in DOMAIN keys : ~HasKey(d, keys[k]) THEN NoEvent
                             ELSE Event(Mouse, e.type, [k \in DOMAIN keys |-> Number(d, keys[k])], <<>>)
  BY <1>1 DEF DecodeMouse
<1>4. ASSUME \A k \in DOMAIN keys : HasKey(d, keys[k])
      PROVE  Event(Mouse, e.type, [k \in DOMAIN keys |-> Number(d, keys[k])], <<>>) = AsWhole(e)
  <2>1. [k \in DOMAIN keys |-> Number(d, keys[k])] = [k \in DOMAIN e.nums |-> Whole(e.nums[k])]
    BY <1>2, <1>4
  <2>2. PICK nums : nums = [k \in DOMAIN e.nums |-> Whole(e.nums[k])]
    OBVIOUS
  <2>3. e = Event(e.kind, e.type, e.nums, e.text) /\ e.text = <<>>
    <3>1. e # Event(DiscoveryRequest, 0, <<>>, <<>>) /\ e.kind # Keyboard /\ e.kind # DiscoveryReply
      BY DEF Event, Mouse, Keyboard, DiscoveryRequest, DiscoveryReply
    <3> QED
      BY <3>1, Zenon DEF IsEvent
  <2>4. AsWhole(e) = [e EXCEPT !.nums = [k \in DOMAIN @ |-> Whole(@[k])]]
    BY Zenon DEF AsWhole
  <2>5. AsWhole(e) = [e EXCEPT !.nums = nums]
    BY <2>2, <2>4
  <2>6. AsWhole(e) = Event(Mouse, e.type, nums, <<>>)
    BY <2>3, <2>5 DEF Event
  <2> QED
    BY <2>1, <2>2, <2>6, Zenon
<1>5. ASSUME all PROVE DecodeMouse(d) = AsWhole(e)
  <2>1. HasKey(d, MOUSE_EVENT_TYPE) /\ \A k \in DOMAIN keys : HasKey(d, keys[k])
    BY <1>5, Zenon DEF Carries
  <2> QED
    BY <1>3, <1>4, <2>1, Zenon
<1>6. DecodeMouse(d) = NoEvent \/ DecodeMouse(d) = AsWhole(e)
  BY <1>3, <1>4, Zenon
<1> QED
  BY <1>5, <1>6, Zenon

LEMMA WholeType ==
    ASSUME NEW n \in Int
    PROVE  Whole(n) \in Int
BY DEF Whole

\* What happens to an event of the mouse.
LEMMA MouseThrough ==
    ASSUME NEW e, IsEvent(e), e.kind = Mouse, NEW pwd \in Passwords, NEW pwd2,
           NEW D, D = Fields(e, pwd), NEW k, k = 0 \/ k \in 0 .. Len(D), NEW d, d = RemoveFields(D, k),
           NEW r, r.ok, r.obj = SnDict(d)
    PROVE  D \in Seq(Field) /\ Distinct(D) /\ Gives(ToEvent(r, pwd2), e, pwd, pwd2, k = 0)
<1>1. /\ e.type \in Int /\ e.nums \in Seq(Int)
      /\ Len(e.nums) = IF IsWheel(e.type) THEN 1 ELSE 2
  <2>1. e # Event(DiscoveryRequest, 0, <<>>, <<>>) /\ e.kind # Keyboard /\ e.kind # DiscoveryReply
    BY DEF Event, Mouse, Keyboard, DiscoveryRequest, DiscoveryReply
  <2>2. /\ e.type \in Nat /\ e.nums \in Seq(Int)
        /\ Len(e.nums) = IF IsWheel(e.type) THEN 1 ELSE 2
    BY <2>1, Zenon DEF IsEvent
  <2> QED
    BY <2>2
<1>2. D = PwdFields(pwd) \o MouseFields(e)
  <2>1. Mouse # Keyboard /\ Mouse # DiscoveryRequest /\ Mouse # DiscoveryReply
    BY DEF Mouse, Keyboard, DiscoveryRequest, DiscoveryReply
  <2> QED
    BY <2>1 DEF Fields
<1>3. /\ EVENT_NAME \in Keys /\ MOUSE_EVENT_TYPE \in Keys
      /\ MOUSE_X \in Keys /\ MOUSE_Y \in Keys /\ MOUSE_DATA \in Keys
      /\ Mouse \in Int
  BY DEF Keys, Mouse
<1>4. PICK a, b : a = IntPair(EVENT_NAME, Mouse) /\ b = IntPair(MOUSE_EVENT_TYPE, e.type)
  OBVIOUS
<1>5. /\ a \in Field /\ a.key = EVENT_NAME /\ a.val = SnInt(Mouse)
      /\ b \in Field /\ b.key = MOUSE_EVENT_TYPE /\ b.val = SnInt(e.type)
  BY <1>1, <1>3, <1>4, IntField
<1>6. Lists(<<a, b>>, {a, b})
  BY <1>5, KeyNames, ListTwo
<1> DEFINE IsRest(rest, R, keys) ==
             /\ Lists(rest, R) /\ MouseFields(e) = <<a, b>> \o rest
             /\ \A x \in R : x.key \in {MOUSE_X, MOUSE_Y, MOUSE_DATA}
             /\ keys = IF IsWheel(e.type) THEN <<MOUSE_DATA>> ELSE <<MOUSE_X, MOUSE_Y>>
             /\ DOMAIN keys = DOMAIN e.nums
             /\ \A i \in DOMAIN keys : \E x \in R : x.key = keys[i] /\ x.val = SnInt(Whole(e.nums[i]))
<1>7. ASSUME NEW rest, NEW R, NEW keys, IsRest(rest, R, keys)
      PROVE  D \in Seq(Field) /\ Distinct(D) /\ Gives(ToEvent(r, pwd2), e, pwd, pwd2, k = 0)
  <2>1. \A x \in {a, b}, y \in R : x.key # y.key
    <3>1. ASSUME NEW x \in {a, b}, NEW y \in R PROVE x.key # y.key
      <4>1. y.key \in {MOUSE_X, MOUSE_Y, MOUSE_DATA}
        BY <1>7
      <4> QED
        BY <1>5, <4>1, KeyNames
    <3> QED
      BY <3>1
  <2>2. Lists(<<a, b>> \o rest, {a, b} \cup R)
    BY <1>6, <1>7, <2>1, ListMore
  <2>3. \A x \in {a, b} \cup R : x.key # PASSWORD
    <3>1. ASSUME NEW x \in {a, b} PROVE x.key # PASSWORD
      BY <1>5, KeyNames
    <3>2. ASSUME NEW x \in R PROVE x.key # PASSWORD
      <4>1. x.key \in {MOUSE_X, MOUSE_Y, MOUSE_DATA}
        BY <1>7
      <4> QED
        BY <4>1, KeyNames
    <3> QED
      BY <3>1, <3>2
  <2>4. /\ D \in Seq(Field) /\ Distinct(D)
        /\ \A x \in {a, b} \cup R : Carries(d, x.key, x.val, k = 0)
        /\ Sent(pwd) => Carries(d, PASSWORD, SnStr(pwd), k = 0)
        /\ ~Sent(pwd) => ~HasKey(d, PASSWORD)
    <3>1. PICK body, B : body = <<a, b>> \o rest /\ B = {a, b} \cup R
      OBVIOUS
    <3>2. Lists(body, B) /\ D = PwdFields(pwd) \o body /\ \A x \in B : x.key # PASSWORD
      BY <1>2, <1>7, <2>2, <2>3, <3>1
    <3>3. D \in Seq(Field) /\ Distinct(D) /\ \A i \in 0 .. Len(D) : FoundIn(RemoveFields(D, i), B, pwd, i = 0)
      BY <3>2, WithPwd
    <3>4. FoundIn(d, B, pwd, k = 0)
      <4>1. k \in 0 .. Len(D)
        BY <3>3, LenProperties
      <4> QED
        BY <3>3, <4>1
    <3> QED
      BY <3>1, <3>3, <3>4, Zenon DEF FoundIn
  <2>5. Carries(d, EVENT_NAME, SnInt(Mouse), k = 0) /\ Carries(d, MOUSE_EVENT_TYPE, SnInt(e.type), k = 0)
    <3>1. Carries(d, a.key, a.val, k = 0) /\ Carries(d, b.key, b.val, k = 0)
      BY <2>4
    <3> QED
      BY <1>5, <3>1, Zenon
  <2>6. \A i \in DOMAIN keys : Carries(d, keys[i], SnInt(Whole(e.nums[i])), k = 0)
    <3> TAKE i \in DOMAIN keys
    <3>1. PICK x \in R : x.key = keys[i] /\ x.val = SnInt(Whole(e.nums[i]))
      BY <1>7
    <3>2. Carries(d, x.key, x.val, k = 0)
      BY <2>4
    <3> QED
      BY <3>1, <3>2, Zenon
  <2>7. /\ DecodeMouse(d) = NoEvent \/ DecodeMouse(d) = AsWhole(e)
        /\ k = 0 => DecodeMouse(d) = AsWhole(e)
    BY <1>7, <2>5, <2>6, MouseDecode
  <2>8. /\ PwdAccepted(d, pwd2) => Agree(pwd, pwd2)
        /\ k = 0 /\ Agree(pwd, pwd2) => PwdAccepted(d, pwd2)
    BY <2>4, PwdDecoded
  <2>9. /\ ~PwdAccepted(d, pwd2) => ToEvent(r, pwd2) = NoEvent
        /\ ~HasKey(d, EVENT_NAME) => ToEvent(r, pwd2) = NoEvent
        /\ PwdAccepted(d, pwd2) /\ HasKey(d, EVENT_NAME) => ToEvent(r, pwd2) = DecodeMouse(d)
    <3>1. InputEvent(r, d, pwd2, Mouse)
      BY <2>5, ToInputEvent
    <3> QED
      BY <3>1 DEF InputEvent
  <2>10. k = 0 => HasKey(d, EVENT_NAME)
    BY <2>5, Zenon DEF Carries
  <2>11. Accept(e, pwd, pwd2) <=> Agree(pwd, pwd2)
    BY DEF Accept
  <2>12. Gives(ToEvent(r, pwd2), e, pwd, pwd2, k = 0)
    BY <2>7, <2>8, <2>9, <2>10, <2>11, SomeEvent, Zenon DEF Gives
  <2> QED
    BY <2>4, <2>12
<1>8. CASE IsWheel(e.type)
  <2>1. Len(e.nums) = 1 /\ DOMAIN e.nums = 1 .. 1
    BY <1>1, <1>8, LenProperties
  <2>2. e.nums[1] \in Int
    BY <1>1, <2>1, ElementOfSeq
  <2>3. PICK x : x = IntPair(MOUSE_DATA, Whole(e.nums[1]))
    OBVIOUS
  <2>4. x \in Field /\ x.key = MOUSE_DATA /\ x.val = SnInt(Whole(e.nums[1]))
    BY <1>3, <2>2, <2>3, WholeType, IntField
  <2>5. Lists(<<x>>, {x})
    BY <2>4, ListOne
  <2>6. MouseFields(e) = <<a, b>> \o <<x>>
    BY <1>4, <1>8, <2>3 DEF MouseFields
  <2>7. PICK keys : keys = <<MOUSE_DATA>>
    OBVIOUS
  <2>8. DOMAIN keys = 1 .. 1 /\ keys[1] = MOUSE_DATA
    BY <2>7
  <2>9. keys = IF IsWheel(e.type) THEN <<MOUSE_DATA>> ELSE <<MOUSE_X, MOUSE_Y>>
    BY <1>8, <2>7
  <2>10. \A i \in DOMAIN keys : \E y \in {x} : y.key = keys[i] /\ y.val = SnInt(Whole(e.nums[i]))
    BY <2>4, <2>8
  <2>11. \A y \in {x} : y.key \in {MOUSE_X, MOUSE_Y, MOUSE_DATA}
    BY <2>4
  <2> QED
    <3>1. IsRest(<<x>>, {x}, keys)
      BY <2>1, <2>5, <2>6, <2>8, <2>9, <2>10, <2>11, Zenon
    <3> HIDE DEF IsRest
    <3> QED
      BY <1>7, <3>1
<1>9. CASE ~IsWheel(e.type)
  <2>1. Len(e.nums) = 2 /\ DOMAIN e.nums = 1 .. 2
    BY <1>1, <1>9, LenProperties
  <2>2. e.nums[1] \in Int /\ e.nums[2] \in Int
    BY <1>1, <2>1, ElementOfSeq
  <2>3. PICK x, y : x = IntPair(MOUSE_X, Whole(e.nums[1])) /\ y = IntPair(MOUSE_Y, Whole(e.nums[2]))
    OBVIOUS
  <2>4. /\ x \in Field /\ x.key = MOUSE_X /\ x.val = SnInt(Whole(e.nums[1]))
        /\ y \in Field /\ y.key = MOUSE_Y /\ y.val = SnInt(Whole(e.nums[2]))
    BY <1>3, <2>2, <2>3, WholeType, IntField
  <2>5. Lists(<<x, y>>, {x, y})
    BY <2>4, KeyNames, ListTwo
  <2>6. MouseFields(e) = <<a, b>> \o <<x, y>>
    BY <1>4, <1>9, <2>3 DEF MouseFields
  <2>7. PICK keys : keys = <<MOUSE_X, MOUSE_Y>>
    OBVIOUS
  <2>8. DOMAIN keys = 1 .. 2 /\ keys[1] = MOUSE_X /\ keys[2] = MOUSE_Y
    BY <2>7
  <2>9. keys = IF IsWheel(e.type) THEN <<MOUSE_DATA>> ELSE <<MOUSE_X, MOUSE_Y>>
    BY <1>9, <2>7
  <2>10. \A i \in DOMAIN keys : \E z \in {x, y} : z.key = keys[i] /\ z.val = SnInt(Whole(e.nums[i]))
    <3> TAKE i \in DOMAIN keys
    <3>1. CASE i = 1
      BY <2>4, <2>8, <3>1
    <3>2. CASE i = 2
      BY <2>4, <2>8, <3>2
    <3> QED
      BY <2>8, <3>1, <3>2
  <2>11. \A z \in {x, y} : z.key \in {MOUSE_X, MOUSE_Y, MOUSE_DATA}
    BY <2>4
  <2> QED
    <3>1. IsRest(<<x, y>>, {x, y}, keys)
      BY <2>1, <2>5, <2>6, <2>8, <2>9, <2>10, <2>11, Zenon
    <3> HIDE DEF IsRest
    <3> QED
      BY <1>7, <3>1
<1> QED
  BY <1>8, <1>9

\* A key or a text, read.
LEMMA KeyDecode ==
    ASSUME NEW e, IsEvent(e), e.kind = Keyboard, NEW d, NEW all, NEW key,
           Carries(d, KEYBOARD_EVENT_TYPE, SnInt(e.type), all),
           \/ e.type = FunctionKey /\ key = FUNCKEY_VALUE
           \/ e.type = AsciiKey /\ key = ASCIIKEY_VALUE,
           Carries(d, key, SnInt(e.nums[1]), all), Len(e.nums) = 1, e.nums \in Seq(Int), e.text = <<>>
    PROVE  /\ DecodeKeyboard(d) = NoEvent \/ DecodeKeyboard(d) = AsWhole(e)
           /\ all => DecodeKeyboard(d) = AsWhole(e)
<1>1. HasKey(d, KEYBOARD_EVENT_TYPE) => Number(d, KEYBOARD_EVENT_TYPE) = e.type
  BY NumberHeld
<1>2. HasKey(d, key) => Number(d, key) = e.nums[1]
  BY NumberHeld
<1>3. FunctionKey # AsciiKey /\ FunctionKey # Text /\ AsciiKey # Text
  BY DEF FunctionKey, AsciiKey, Text
<1>4. AsWhole(e) = e
  <2>1. e.kind # Mouse
    BY DEF Mouse, Keyboard
  <2> QED
    BY <2>1, Zenon DEF AsWhole
<1>5. e = Event(Keyboard, e.type, << e.nums[1] >>, <<>>)
  <2>1. e = Event(e.kind, e.type, e.nums, e.text)
    BY Zenon DEF IsEvent
  <2>2. e.nums = << e.nums[1] >>
    <3>1. PICK s : s = << e.nums[1] >>
      OBVIOUS
    <3>2. e.nums[1] \in Int
      BY ElementOfSeq
    <3>3. s \in Seq(Int) /\ Len(s) = 1 /\ s[1] = e.nums[1]
      BY <3>1, <3>2
    <3>4. \A i \in 1 .. Len(s) : s[i] = e.nums[i]
      BY <3>3
    <3>5. s = e.nums
      BY <3>3, <3>4, SeqEqual
    <3> QED
      BY <3>1, <3>5
  <2> QED
    BY <2>1, <2>2, Zenon
<1>6. ~HasKey(d, KEYBOARD_EVENT_TYPE) => DecodeKeyboard(d) = NoEvent
  BY Zenon DEF DecodeKeyboard
<1>7. HasKey(d, KEYBOARD_EVENT_TYPE) =>
        DecodeKeyboard(d) = IF HasKey(d, key) THEN Event(Keyboard, e.type, << Number(d, key) >>, <<>>)
                            ELSE NoEvent
  <2>1. CASE e.type = FunctionKey /\ key = FUNCKEY_VALUE
    BY <1>1, <1>3, <2>1 DEF DecodeKeyboard
  <2>2. CASE e.type = AsciiKey /\ key = ASCIIKEY_VALUE
    BY <1>1, <1>3, <2>2 DEF DecodeKeyboard
  <2> QED
    BY <2>1, <2>2
<1>8. HasKey(d, key) => Event(Keyboard, e.type, << Number(d, key) >>, <<>>) = AsWhole(e)
  BY <1>2, <1>4, <1>5, Zenon
<1>9. all => HasKey(d, KEYBOARD_EVENT_TYPE) /\ HasKey(d, key)
  BY Zenon DEF Carries
<1> QED
  BY <1>6, <1>7, <1>8, <1>9, Zenon

LEMMA TextDecode ==
    ASSUME NEW e, IsEvent(e), e.kind = Keyboard, NEW d, NEW all,
           Carries(d, KEYBOARD_EVENT_TYPE, SnInt(e.type), all),
           e.type = Text, Carries(d, TEXTKEY_VALUE, SnStr(e.text), all),
           e.nums = <<>>, Len(e.text) < TextMax
    PROVE  /\ DecodeKeyboard(d) = NoEvent \/ DecodeKeyboard(d) = AsWhole(e)
           /\ all => DecodeKeyboard(d) = AsWhole(e)
<1>1. HasKey(d, KEYBOARD_EVENT_TYPE) => Number(d, KEYBOARD_EVENT_TYPE) = e.type
  BY NumberHeld
<1>2. HasKey(d, TEXTKEY_VALUE) => HasString(d, TEXTKEY_VALUE) /\ TextOf(d, TEXTKEY_VALUE) = e.text
  BY TextHeld
<1>3. FunctionKey # Text /\ AsciiKey # Text
  BY DEF FunctionKey, AsciiKey, Text
<1>4. AsWhole(e) = e
  <2>1. e.kind # Mouse
    BY DEF Mouse, Keyboard
  <2> QED
    BY <2>1, Zenon DEF AsWhole
<1>5. e = Event(Keyboard, Text, <<>>, e.text)
  <2>1. e = Event(e.kind, e.type, e.nums, e.text)
    BY Zenon DEF IsEvent
  <2> QED
    BY <2>1, Zenon
<1>6. ~HasKey(d, KEYBOARD_EVENT_TYPE) => DecodeKeyboard(d) = NoEvent
  BY Zenon DEF DecodeKeyboard
<1>7. HasKey(d, KEYBOARD_EVENT_TYPE) =>
        DecodeKeyboard(d) = IF HasText(d, TEXTKEY_VALUE, TextMax)
                            THEN Event(Keyboard, Text, <<>>, TextOf(d, TEXTKEY_VALUE)) ELSE NoEvent
  BY <1>1, <1>3 DEF DecodeKeyboard
<1>8. HasText(d, TEXTKEY_VALUE, TextMax) =>
        Event(Keyboard, Text, <<>>, TextOf(d, TEXTKEY_VALUE)) = AsWhole(e)
  BY <1>2, <1>4, <1>5, Zenon DEF HasText, HasString
<1>9. all => HasKey(d, KEYBOARD_EVENT_TYPE) /\ HasText(d, TEXTKEY_VALUE, TextMax)
  BY <1>2, Zenon DEF Carries, HasText
<1> QED
  BY <1>6, <1>7, <1>8, <1>9, Zenon

\* What happens to an event of the keyboard.
LEMMA KeyboardThrough ==
    ASSUME NEW e, IsEvent(e), e.kind = Keyboard, NEW pwd \in Passwords, NEW pwd2,
           NEW D, D = Fields(e, pwd), NEW k, k = 0 \/ k \in 0 .. Len(D), NEW d, d = RemoveFields(D, k),
           NEW r, r.ok, r.obj = SnDict(d)
    PROVE  D \in Seq(Field) /\ Distinct(D) /\ Gives(ToEvent(r, pwd2), e, pwd, pwd2, k = 0)
<1>1. /\ e.type \in Int
      /\ \/ e.type \in {FunctionKey, AsciiKey} /\ Len(e.nums) = 1 /\ e.nums \in Seq(Int) /\ e.text = <<>>
         \/ e.type = Text /\ e.nums = <<>> /\ Len(e.text) \in 1 .. TextMax - 1 /\ e.text \in Seq(Byte)
  <2>1. e # Event(DiscoveryRequest, 0, <<>>, <<>>) /\ e.kind # Mouse /\ e.kind # DiscoveryReply
    BY DEF Event, Mouse, Keyboard, DiscoveryRequest, DiscoveryReply
  <2>2. /\ e.type \in Nat /\ e.nums \in Seq(Int) /\ e.text \in Seq(Byte)
        /\ \/ e.type \in {FunctionKey, AsciiKey} /\ Len(e.nums) = 1 /\ e.text = <<>>
           \/ e.type = Text /\ e.nums = <<>> /\ Len(e.text) \in 1 .. TextMax - 1
    BY <2>1, Zenon DEF IsEvent
  <2> QED
    BY <2>2
<1>2. D = PwdFields(pwd) \o KeyboardFields(e)
  <2>1. Mouse # Keyboard /\ Keyboard # DiscoveryRequest /\ Keyboard # DiscoveryReply
    BY DEF Mouse, Keyboard, DiscoveryRequest, DiscoveryReply
  <2> QED
    BY <2>1 DEF Fields
<1>3. /\ EVENT_NAME \in Keys /\ KEYBOARD_EVENT_TYPE \in Keys
      /\ FUNCKEY_VALUE \in Keys /\ ASCIIKEY_VALUE \in Keys /\ TEXTKEY_VALUE \in Keys
      /\ Keyboard \in Int
  BY DEF Keys, Keyboard
<1>4. PICK a, b : a = IntPair(EVENT_NAME, Keyboard) /\ b = IntPair(KEYBOARD_EVENT_TYPE, e.type)
  OBVIOUS
<1>5. /\ a \in Field /\ a.key = EVENT_NAME /\ a.val = SnInt(Keyboard)
      /\ b \in Field /\ b.key = KEYBOARD_EVENT_TYPE /\ b.val = SnInt(e.type)
  BY <1>1, <1>3, <1>4, IntField
<1>6. FunctionKey # AsciiKey /\ FunctionKey # Text /\ AsciiKey # Text
  BY DEF FunctionKey, AsciiKey, Text
<1> DEFINE IsLast(z) ==
             /\ z \in Field /\ z.key \in {FUNCKEY_VALUE, ASCIIKEY_VALUE, TEXTKEY_VALUE}
             /\ KeyboardFields(e) = <<a, b, z>>
             /\ Carries(d, KEYBOARD_EVENT_TYPE, SnInt(e.type), k = 0) /\ Carries(d, z.key, z.val, k = 0) =>
                  /\ DecodeKeyboard(d) = NoEvent \/ DecodeKeyboard(d) = AsWhole(e)
                  /\ k = 0 => DecodeKeyboard(d) = AsWhole(e)
<1>7. ASSUME NEW z, IsLast(z)
      PROVE  D \in Seq(Field) /\ Distinct(D) /\ Gives(ToEvent(r, pwd2), e, pwd, pwd2, k = 0)
  <2>1. a.key # b.key /\ a.key # z.key /\ b.key # z.key
    BY <1>5, <1>7, KeyNames
  <2>2. Lists(<<a, b, z>>, {a, b, z})
    BY <1>5, <1>7, <2>1, ListThree
  <2>3. \A x \in {a, b, z} : x.key # PASSWORD
    BY <1>5, <1>7, KeyNames
  <2>4. /\ D \in Seq(Field) /\ Distinct(D)
        /\ \A x \in {a, b, z} : Carries(d, x.key, x.val, k = 0)
        /\ Sent(pwd) => Carries(d, PASSWORD, SnStr(pwd), k = 0)
        /\ ~Sent(pwd) => ~HasKey(d, PASSWORD)
    <3>1. PICK body, B : body = <<a, b, z>> /\ B = {a, b, z}
      OBVIOUS
    <3>2. Lists(body, B) /\ D = PwdFields(pwd) \o body /\ \A x \in B : x.key # PASSWORD
      BY <1>2, <1>7, <2>2, <2>3, <3>1
    <3>3. D \in Seq(Field) /\ Distinct(D) /\ \A i \in 0 .. Len(D) : FoundIn(RemoveFields(D, i), B, pwd, i = 0)
      BY <3>2, WithPwd
    <3>4. FoundIn(d, B, pwd, k = 0)
      <4>1. k \in 0 .. Len(D)
        BY <3>3, LenProperties
      <4> QED
        BY <3>3, <4>1
    <3> QED
      BY <3>1, <3>3, <3>4, Zenon DEF FoundIn
  <2>5. /\ Carries(d, EVENT_NAME, SnInt(Keyboard), k = 0) /\ Carries(d, KEYBOARD_EVENT_TYPE, SnInt(e.type), k = 0)
        /\ Carries(d, z.key, z.val, k = 0)
    <3>1. Carries(d, a.key, a.val, k = 0) /\ Carries(d, b.key, b.val, k = 0) /\ Carries(d, z.key, z.val, k = 0)
      BY <2>4
    <3> QED
      BY <1>5, <3>1, Zenon
  <2>7. /\ DecodeKeyboard(d) = NoEvent \/ DecodeKeyboard(d) = AsWhole(e)
        /\ k = 0 => DecodeKeyboard(d) = AsWhole(e)
    BY <1>7, <2>5, Zenon
  <2>8. /\ PwdAccepted(d, pwd2) => Agree(pwd, pwd2)
        /\ k = 0 /\ Agree(pwd, pwd2) => PwdAccepted(d, pwd2)
    BY <2>4, PwdDecoded
  <2>9. /\ ~PwdAccepted(d, pwd2) => ToEvent(r, pwd2) = NoEvent
        /\ ~HasKey(d, EVENT_NAME) => ToEvent(r, pwd2) = NoEvent
        /\ PwdAccepted(d, pwd2) /\ HasKey(d, EVENT_NAME) => ToEvent(r, pwd2) = DecodeKeyboard(d)
    <3>1. InputEvent(r, d, pwd2, Keyboard)
      BY <2>5, ToInputEvent
    <3>2. Keyboard # Mouse
      BY DEF Keyboard, Mouse
    <3> QED
      BY <3>1, <3>2 DEF InputEvent
  <2>10. k = 0 => HasKey(d, EVENT_NAME)
    BY <2>5, Zenon DEF Carries
  <2>11. Accept(e, pwd, pwd2) <=> Agree(pwd, pwd2)
    BY DEF Accept
  <2>12. Gives(ToEvent(r, pwd2), e, pwd, pwd2, k = 0)
    BY <2>7, <2>8, <2>9, <2>10, <2>11, SomeEvent, Zenon DEF Gives
  <2> QED
    BY <2>4, <2>12
<1>8. ASSUME NEW key \in Keys, NEW type, e.type = type,
             \/ type = FunctionKey /\ key = FUNCKEY_VALUE
             \/ type = AsciiKey /\ key = ASCIIKEY_VALUE
      PROVE  \E z : IsLast(z)
  <2>1. Len(e.nums) = 1 /\ e.nums \in Seq(Int) /\ e.text = <<>>
    BY <1>1, <1>6, <1>8
  <2>2. e.nums[1] \in Int
    BY <2>1, ElementOfSeq
  <2>3. PICK z : z = IntPair(key, e.nums[1])
    OBVIOUS
  <2>4. z \in Field /\ z.key = key /\ z.val = SnInt(e.nums[1])
    BY <2>2, <2>3, IntField
  <2>5. KeyboardFields(e) = <<a, b, z>>
    BY <1>4, <1>6, <1>8, <2>3 DEF KeyboardFields
  <2>6. ASSUME Carries(d, KEYBOARD_EVENT_TYPE, SnInt(e.type), k = 0), Carries(d, z.key, z.val, k = 0)
        PROVE  /\ DecodeKeyboard(d) = NoEvent \/ DecodeKeyboard(d) = AsWhole(e)
               /\ k = 0 => DecodeKeyboard(d) = AsWhole(e)
    <3>1. Carries(d, key, SnInt(e.nums[1]), k = 0)
      BY <2>4, <2>6, Zenon
    <3> QED
      BY <1>8, <2>1, <2>6, <3>1, KeyDecode
  <2>7. z.key \in {FUNCKEY_VALUE, ASCIIKEY_VALUE, TEXTKEY_VALUE}
    BY <1>8, <2>4
  <2> QED
    BY <2>4, <2>5, <2>6, <2>7, Zenon
<1>9. ASSUME e.type = Text PROVE \E z : IsLast(z)
  <2>1. e.nums = <<>> /\ Len(e.text) \in 1 .. TextMax - 1 /\ e.text \in Seq(Byte)
    BY <1>1, <1>6, <1>9
  <2>2. e.text \in Bytes1 /\ Len(e.text) < TextMax
    <3>1. e.text # <<>> /\ Len(e.text) < TextMax
      BY <2>1, MessageAssumption
    <3>2. Len(e.text) < SizeLimit
      BY <2>1, <3>1, MessageAssumption, SizeAssumption
    <3> QED
      BY <2>1, <3>1, <3>2 DEF Bytes1
  <2>3. PICK z : z = Pair(TEXTKEY_VALUE, SnStr(e.text))
    OBVIOUS
  <2>4. z \in Field /\ z.key = TEXTKEY_VALUE /\ z.val = SnStr(e.text)
    BY <1>3, <2>2, <2>3, TextField
  <2>5. KeyboardFields(e) = <<a, b, z>>
    BY <1>4, <1>6, <1>9, <2>3 DEF KeyboardFields
  <2>6. ASSUME Carries(d, KEYBOARD_EVENT_TYPE, SnInt(e.type), k = 0), Carries(d, z.key, z.val, k = 0)
        PROVE  /\ DecodeKeyboard(d) = NoEvent \/ DecodeKeyboard(d) = AsWhole(e)
               /\ k = 0 => DecodeKeyboard(d) = AsWhole(e)
    <3>1. Carries(d, TEXTKEY_VALUE, SnStr(e.text), k = 0)
      BY <2>4, <2>6, Zenon
    <3> QED
      BY <1>9, <2>1, <2>2, <2>6, <3>1, TextDecode
  <2> QED
    BY <2>4, <2>5, <2>6, Zenon
<1>10. \E z : IsLast(z)
  <2> HIDE DEF IsLast
  <2>1. CASE e.type = FunctionKey
    BY <1>3, <1>8, <2>1
  <2>2. CASE e.type = AsciiKey
    BY <1>3, <1>8, <2>2
  <2>3. CASE e.type = Text
    BY <1>9, <2>3
  <2> QED
    BY <1>1, <2>1, <2>2, <2>3
<1> HIDE DEF IsLast
<1> QED
  BY <1>7, <1>10

\* What happens to a request for discovery.
LEMMA RequestThrough ==
    ASSUME NEW e, e = Event(DiscoveryRequest, 0, <<>>, <<>>), NEW pwd, NEW pwd2,
           NEW D, D = Fields(e, pwd), NEW k, k = 0 \/ k \in 0 .. Len(D), NEW d, d = RemoveFields(D, k),
           NEW r, r.ok, r.obj = SnDict(d)
    PROVE  D \in Seq(Field) /\ Distinct(D) /\ Gives(ToEvent(r, pwd2), e, pwd, pwd2, k = 0)
<1>1. e.kind = DiscoveryRequest
  BY DEF Event
<1>2. /\ DiscoveryRequest # Mouse /\ DiscoveryRequest # Keyboard /\ DiscoveryRequest # DiscoveryReply
      /\ NoKind # Mouse /\ NoKind # Keyboard /\ DiscoveryRequest \in Int
  BY DEF Mouse, Keyboard, DiscoveryRequest, DiscoveryReply, NoKind
<1>3. PICK a : a = IntPair(EVENT_NAME, DiscoveryRequest)
  OBVIOUS
<1>4. D = <<a>>
  BY <1>1, <1>2, <1>3 DEF Fields, RequestFields
<1>5. a \in Field /\ a.key = EVENT_NAME /\ a.val = SnInt(DiscoveryRequest)
  <2>1. EVENT_NAME \in Keys
    BY DEF Keys
  <2> QED
    BY <1>2, <1>3, <2>1, IntField
<1>6. Lists(D, {a})
  BY <1>4, <1>5, ListOne
<1>7. Carries(d, EVENT_NAME, SnInt(DiscoveryRequest), k = 0)
  <2>1. \A x \in {a} : Carries(d, x.key, x.val, k = 0)
    <3>1. k \in 0 .. Len(D)
      BY <1>6, LenProperties DEF Lists
    <3> QED
      BY <1>6, <3>1, Lookup
  <2>2. Carries(d, a.key, a.val, k = 0)
    BY <2>1
  <2> QED
    BY <1>5, <2>2, Zenon
<1>8. HasKey(d, EVENT_NAME) => Number(d, EVENT_NAME) = DiscoveryRequest
  BY <1>7, NumberHeld
<1>9. Pairs(r) = d
  BY DEF Pairs, SnDict
<1>10. AsWhole(e) = e
  <2>1. e.kind # Mouse
    BY <1>1, <1>2
  <2> QED
    BY <2>1, Zenon DEF AsWhole
<1>11. HasKey(d, EVENT_NAME) => ToEvent(r, pwd2) = e
  BY <1>8, <1>9 DEF ToEvent, IsRequest
<1>12. ~HasKey(d, EVENT_NAME) => ToEvent(r, pwd2) = NoEvent
  BY <1>2, <1>9 DEF ToEvent, IsRequest
<1>13. k = 0 => HasKey(d, EVENT_NAME)
  BY <1>7, Zenon DEF Carries
<1>14. Accept(e, pwd, pwd2)
  BY <1>1, <1>2 DEF Accept
<1>15. e # NoEvent
  <2>1. NoEvent.kind # DiscoveryRequest
    BY DEF NoEvent, Event, NoKind, DiscoveryRequest
  <2> QED
    BY <1>1, <2>1
<1>16. Gives(ToEvent(r, pwd2), e, pwd, pwd2, k = 0)
  BY <1>10, <1>11, <1>12, <1>13, <1>14, <1>15, Zenon DEF Gives
<1> QED
  BY <1>6, <1>16 DEF Lists

\* A port is a port.
LEMMA PortType ==
    ASSUME NEW n \in 0 .. PortSize - 1
    PROVE  n \in Int /\ n % PortSize = n
<1>1. n \in Nat /\ n < 65536
  BY DEF PortSize
<1>2. n % 65536 = n
  BY <1>1
<1> QED
  BY <1>1, <1>2 DEF PortSize

\* What happens to a reply.
LEMMA ReplyThrough ==
    ASSUME NEW e, IsEvent(e), e.kind = DiscoveryReply, NEW pwd, NEW pwd2,
           NEW D, D = Fields(e, pwd), NEW k, k = 0 \/ k \in 0 .. Len(D), NEW d, d = RemoveFields(D, k),
           NEW r, r.ok, r.obj = SnDict(d)
    PROVE  /\ D \in Seq(Field) /\ Distinct(D) /\ D = ReplyFields(e) /\ Len(D) = 3
           /\ Gives(ToDiscoveryReplyEvent(r), e, pwd, pwd2, k = 0)
<1>1. /\ DiscoveryReply # Mouse /\ DiscoveryReply # Keyboard /\ DiscoveryReply # DiscoveryRequest
      /\ DiscoveryReply \in Int
  BY DEF Mouse, Keyboard, DiscoveryRequest, DiscoveryReply
<1>2. /\ e.type = 0 /\ e.nums \in Seq(Int) /\ e.text \in Seq(Byte)
      /\ Len(e.nums) = 1 /\ e.nums[1] \in 0 .. PortSize - 1
      /\ Len(e.text) \in 1 .. IpMax - 1
  <2>1. e # Event(DiscoveryRequest, 0, <<>>, <<>>) /\ e.kind # Mouse /\ e.kind # Keyboard
    BY <1>1 DEF Event
  <2> QED
    BY <2>1, Zenon DEF IsEvent
<1>3. e.nums[1] \in Int /\ e.nums[1] % PortSize = e.nums[1]
  BY <1>2, PortType, Zenon
<1>4. e.text \in Bytes1 /\ Len(e.text) < IpMax
  <2>1. e.text # <<>> /\ Len(e.text) < IpMax
    <3>1. \A n \in 1 .. IpMax - 1 : n # 0 /\ n < IpMax
      BY DEF IpMax
    <3>2. Len(e.text) # 0 /\ Len(e.text) < IpMax
      BY <1>2, <3>1, Zenon
    <3>3. e.text # <<>>
      BY <3>2
    <3> QED
      BY <3>2, <3>3
  <2>2. Len(e.text) < SizeLimit
    <3>1. IpMax <= SizeLimit /\ IpMax \in Nat /\ SizeLimit \in Nat /\ Len(e.text) \in Nat
      BY <1>2, MessageAssumption, SizeAssumption, LenProperties DEF IpMax
    <3> QED
      BY <2>1, <3>1
  <2> QED
    BY <1>2, <2>1, <2>2 DEF Bytes1
<1>5. EVENT_NAME \in Keys /\ REPLY_IPADDR \in Keys /\ REPLY_PORT \in Keys
  BY DEF Keys
<1>6. PICK a, b, c : /\ a = IntPair(EVENT_NAME, DiscoveryReply)
                     /\ b = Pair(REPLY_IPADDR, SnStr(e.text))
                     /\ c = IntPair(REPLY_PORT, e.nums[1])
  OBVIOUS
<1>7. /\ a \in Field /\ a.key = EVENT_NAME /\ a.val = SnInt(DiscoveryReply)
      /\ c \in Field /\ c.key = REPLY_PORT /\ c.val = SnInt(e.nums[1])
  BY <1>1, <1>3, <1>5, <1>6, IntField
<1>8. b \in Field /\ b.key = REPLY_IPADDR /\ b.val = SnStr(e.text)
  BY <1>4, <1>5, <1>6, TextField
<1>9. D = <<a, b, c>> /\ D = ReplyFields(e) /\ Len(D) = 3
  BY <1>1, <1>6 DEF Fields, ReplyFields
<1>10. Lists(D, {a, b, c})
  <2>1. a.key # b.key /\ a.key # c.key /\ b.key # c.key
    BY <1>7, <1>8, KeyNames
  <2> QED
    BY <1>7, <1>8, <1>9, <2>1, ListThree
<1>11. /\ Carries(d, EVENT_NAME, SnInt(DiscoveryReply), k = 0)
       /\ Carries(d, REPLY_IPADDR, SnStr(e.text), k = 0)
       /\ Carries(d, REPLY_PORT, SnInt(e.nums[1]), k = 0)
  <2>1. \A x \in {a, b, c} : Carries(d, x.key, x.val, k = 0)
    <3>1. k \in 0 .. Len(D)
      BY <1>10, LenProperties DEF Lists
    <3> QED
      BY <1>10, <3>1, Lookup
  <2>2. Carries(d, a.key, a.val, k = 0) /\ Carries(d, b.key, b.val, k = 0) /\ Carries(d, c.key, c.val, k = 0)
    BY <2>1
  <2> QED
    BY <1>7, <1>8, <2>2, Zenon
<1>12. /\ HasKey(d, EVENT_NAME) => Number(d, EVENT_NAME) = DiscoveryReply
       /\ HasKey(d, REPLY_PORT) => Number(d, REPLY_PORT) = e.nums[1]
       /\ HasKey(d, REPLY_IPADDR) => HasString(d, REPLY_IPADDR) /\ TextOf(d, REPLY_IPADDR) = e.text
  BY <1>11, NumberHeld, TextHeld
<1>13. k = 0 => HasKey(d, EVENT_NAME) /\ HasKey(d, REPLY_PORT) /\ HasKey(d, REPLY_IPADDR)
  BY <1>11, Zenon DEF Carries
<1>14. Pairs(r) = d
  BY DEF Pairs, SnDict
<1>15. e = Event(DiscoveryReply, 0, << e.nums[1] >>, e.text)
  <2>1. e = Event(e.kind, e.type, e.nums, e.text)
    BY Zenon DEF IsEvent
  <2>2. e.nums = << e.nums[1] >>
    <3>1. PICK s : s = << e.nums[1] >>
      OBVIOUS
    <3>2. s \in Seq(Int) /\ Len(s) = 1 /\ s[1] = e.nums[1]
      BY <1>3, <3>1
    <3>3. \A i \in 1 .. Len(s) : s[i] = e.nums[i]
      BY <3>2
    <3>4. s = e.nums
      BY <1>2, <3>2, <3>3, SeqEqual
    <3> QED
      BY <3>1, <3>4
  <2> QED
    BY <1>2, <2>1, <2>2, Zenon
<1>16. PICK there : there <=> /\ HasKey(d, EVENT_NAME) /\ HasText(d, REPLY_IPADDR, IpMax)
                              /\ HasKey(d, REPLY_PORT)
  OBVIOUS
<1>17. AsWhole(e) = e /\ e # NoEvent
  <2>1. e.kind # Mouse
    BY <1>1
  <2> QED
    BY <2>1, SomeEvent, Zenon DEF AsWhole
<1>18. ~there => ToDiscoveryReplyEvent(r) = NoEvent
  BY <1>14, <1>16, Zenon DEF ToDiscoveryReplyEvent
<1>19. there => ToDiscoveryReplyEvent(r) = e
  <2> SUFFICES ASSUME there PROVE ToDiscoveryReplyEvent(r) = e
    OBVIOUS
  <2>1. HasKey(d, EVENT_NAME) /\ Number(d, EVENT_NAME) = DiscoveryReply
        /\ HasText(d, REPLY_IPADDR, IpMax) /\ HasKey(d, REPLY_PORT) /\ HasKey(d, REPLY_IPADDR)
    BY <1>12, <1>16, Zenon DEF HasText, HasString
  <2>2. ToDiscoveryReplyEvent(r) =
          Event(DiscoveryReply, 0, << Number(d, REPLY_PORT) % PortSize >>, TextOf(d, REPLY_IPADDR))
    BY <1>14, <2>1 DEF ToDiscoveryReplyEvent
  <2>3. Number(d, REPLY_PORT) % PortSize = e.nums[1] /\ TextOf(d, REPLY_IPADDR) = e.text
    BY <1>3, <1>12, <2>1
  <2> QED
    BY <1>15, <2>2, <2>3, Zenon
<1>20. k = 0 => there
  BY <1>4, <1>12, <1>13, <1>16, Zenon DEF HasText
<1>21. Accept(e, pwd, pwd2)
  BY <1>1 DEF Accept
<1>22. Gives(ToDiscoveryReplyEvent(r), e, pwd, pwd2, k = 0)
  BY <1>17, <1>18, <1>19, <1>20, <1>21, Zenon DEF Gives
<1> QED
  BY <1>9, <1>10, <1>22, Zenon DEF Lists

\* What is not read gives nothing.
LEMMA NothingRead ==
    ASSUME NEW r, ~r.ok, NEW pwd2
    PROVE  ToEvent(r, pwd2) = NoEvent /\ ToDiscoveryReplyEvent(r) = NoEvent
<1>1. Pairs(r) = <<>>
  BY DEF Pairs
<1>2. \A key : ~HasKey(<<>>, key)
  BY DEF HasKey
<1>3. NoKind # Mouse /\ NoKind # Keyboard
  BY DEF Mouse, Keyboard, NoKind
<1>4. ToEvent(r, pwd2) = NoEvent
  BY <1>1, <1>2, <1>3 DEF ToEvent, IsRequest
<1>5. ToDiscoveryReplyEvent(r) = NoEvent
  BY <1>1, <1>2, Zenon DEF ToDiscoveryReplyEvent
<1> QED
  BY <1>4, <1>5

\* What happens to any event of the client.
LEMMA EventThrough ==
    ASSUME NEW e, IsEvent(e), e.kind # DiscoveryReply, NEW pwd \in Passwords, NEW pwd2,
           NEW D, D = Fields(e, pwd), NEW k, k = 0 \/ k \in 0 .. Len(D), NEW d, d = RemoveFields(D, k),
           NEW r, r.ok, r.obj = SnDict(d)
    PROVE  D \in Seq(Field) /\ Distinct(D) /\ Gives(ToEvent(r, pwd2), e, pwd, pwd2, k = 0)
<1>1. CASE e.kind = Mouse
  BY <1>1, MouseThrough
<1>2. CASE e.kind = Keyboard
  BY <1>2, KeyboardThrough
<1>3. CASE e = Event(DiscoveryRequest, 0, <<>>, <<>>)
  BY <1>3, RequestThrough
<1> QED
  BY <1>1, <1>2, <1>3, Zenon DEF IsEvent

-----------------------------------------------------------------------------
(* The messages of an event.                                                 *)

\* What is put for an event when the k-th of its fields is left out.
Left(e, pwd, k) == RemoveFields(Fields(e, pwd), k)

\* The first j pieces of a message.
Cut(d, j) == FlattenSeq(SubSeq(Pieces(d), 1, j))

\* Made for one of the events, all of it if nothing failed, and otherwise from
\* the front as far as it goes.
MessageOf(m, to, pwd) ==
    /\ "whole" \in DOMAIN m /\ m.event \in Events[to]
    /\ \E k \in 0 .. Len(Fields(m.event, pwd)) :
         \E j \in 0 .. Len(Pieces(Left(m.event, pwd, k))) :
            /\ m.bytes = Cut(Left(m.event, pwd, k), j)
            /\ m.whole => k = 0 /\ j = Len(Pieces(Left(m.event, pwd, k)))

LEMMA FieldsAre ==
    ASSUME NEW to \in {"server", "client"}, NEW e \in Events[to], NEW pwd \in Passwords
    PROVE  /\ Fields(e, pwd) \in Seq(Field)
           /\ Len(Fields(e, pwd)) \in Nat
           /\ Distinct(Fields(e, pwd))
           /\ to = "client" => Len(Fields(e, pwd)) = 3 /\ Fields(e, pwd) = ReplyFields(e)
<1>1. IsEvent(e) /\ (to = "client" <=> e.kind = DiscoveryReply)
  BY MessageAssumption
<1>2. PICK D : D = Fields(e, pwd)
  OBVIOUS
<1>3. PICK d : d = RemoveFields(D, 0)
  OBVIOUS
<1>4. PICK r : r = Found(SnDict(d), 0)
  OBVIOUS
<1>5. r.ok /\ r.obj = SnDict(d)
  BY <1>4 DEF Found
<1>6. CASE to = "client"
  <2>1. D \in Seq(Field) /\ Distinct(D) /\ D = ReplyFields(e) /\ Len(D) = 3
    BY <1>1, <1>2, <1>3, <1>5, <1>6, ReplyThrough
  <2> QED
    BY <1>2, <2>1
<1>7. CASE to # "client"
  <2>1. D \in Seq(Field) /\ Distinct(D)
    BY <1>1, <1>2, <1>3, <1>5, <1>7, EventThrough
  <2>2. Len(D) \in Nat
    BY <2>1, LenProperties
  <2> QED
    BY <1>2, <1>7, <2>1, <2>2
<1> QED
  BY <1>6, <1>7

LEMMA AtMostFive ==
    ASSUME NEW U, NEW p \in Seq(U), NEW s \in Seq(U), Len(p) <= 1, Len(s) <= 4
    PROVE  Len(p \o s) <= HeldPairs
<1>1. Len(p \o s) = Len(p) + Len(s) /\ Len(p) \in Nat /\ Len(s) \in Nat
  BY ConcatProperties, LenProperties
<1>2. Len(p \o s) <= 5
  BY <1>1
<1>3. HeldPairs \in {8, 24}
  BY DEF HeldPairs
<1> QED
  BY <1>1, <1>2, <1>3

\* No event has so many fields that one is lost.
LEMMA FewFields ==
    ASSUME NEW e, IsEvent(e), NEW pwd
    PROVE  Len(Fields(e, pwd)) <= HeldPairs
<1>1. PICK x : x = Pair(PASSWORD, SnStr(pwd))
  OBVIOUS
<1>2. PICK p : p = PwdFields(pwd)
  OBVIOUS
<1>3. p = <<>> \/ p = <<x>>
  BY <1>1, <1>2, Zenon DEF PwdFields
<1>4. ASSUME NEW U, x \in U PROVE p \in Seq(U) /\ Len(p) <= 1
  <2>1. CASE p = <<>>
    BY <2>1, EmptySeq
  <2>2. CASE p = <<x>>
    <3>1. <<x>> \in Seq(U) /\ Len(<<x>>) = 1
      BY <1>4
    <3> QED
      BY <2>2, <3>1
  <2> QED
    BY <1>3, <2>1, <2>2
<1>5. e.kind \in {Mouse, Keyboard, DiscoveryRequest, DiscoveryReply}
  <2>1. e = Event(DiscoveryRequest, 0, <<>>, <<>>) => e.kind = DiscoveryRequest
    BY DEF Event
  <2> QED
    BY <2>1, Zenon DEF IsEvent
<1>6. CASE e.kind = Mouse
  <2>1. Fields(e, pwd) = p \o MouseFields(e)
    BY <1>2, <1>6 DEF Fields, Mouse, Keyboard, DiscoveryRequest, DiscoveryReply
  <2>2. PICK a, b, c, m, n : /\ a = IntPair(EVENT_NAME, Mouse)
                             /\ b = IntPair(MOUSE_EVENT_TYPE, e.type)
                             /\ c = IntPair(MOUSE_DATA, Whole(e.nums[1]))
                             /\ m = IntPair(MOUSE_X, Whole(e.nums[1]))
                             /\ n = IntPair(MOUSE_Y, Whole(e.nums[2]))
    OBVIOUS
  <2>3. MouseFields(e) = <<a, b>> \o (IF IsWheel(e.type) THEN <<c>> ELSE <<m, n>>)
    BY <2>2, Zenon DEF MouseFields
  <2>4. PICK rest : rest = IF IsWheel(e.type) THEN <<c>> ELSE <<m, n>>
    OBVIOUS
  <2> DEFINE U == {x, a, b, c, m, n}
  <2>5. rest \in Seq(U) /\ Len(rest) <= 2 /\ <<a, b>> \in Seq(U) /\ Len(<<a, b>>) = 2
    <3>1. <<a, b>> \in Seq(U) /\ Len(<<a, b>>) = 2
      OBVIOUS
    <3>2. <<c>> \in Seq(U) /\ Len(<<c>>) = 1
      OBVIOUS
    <3>3. <<m, n>> \in Seq(U) /\ Len(<<m, n>>) = 2
      OBVIOUS
    <3>4. rest = <<c>> \/ rest = <<m, n>>
      BY <2>4
    <3> HIDE DEF U
    <3>5. CASE rest = <<c>>
      BY <3>1, <3>2, <3>5
    <3>6. CASE rest = <<m, n>>
      BY <3>1, <3>3, <3>6
    <3> QED
      BY <3>4, <3>5, <3>6
  <2>6. x \in U
    OBVIOUS
  <2> HIDE DEF U
  <2>7. PICK ab : ab = <<a, b>>
    OBVIOUS
  <2>8. ab \o rest \in Seq(U) /\ Len(ab \o rest) = Len(ab) + Len(rest)
    BY <2>5, <2>7, ConcatProperties
  <2>9. Len(ab \o rest) <= 4
    BY <2>5, <2>7, <2>8, LenProperties
  <2>10. Len(p \o (ab \o rest)) <= HeldPairs
    BY <1>4, <2>6, <2>8, <2>9, AtMostFive
  <2> QED
    BY <2>1, <2>3, <2>4, <2>7, <2>10, Zenon
<1>7. CASE e.kind = Keyboard
  <2>1. Fields(e, pwd) = p \o KeyboardFields(e)
    BY <1>2, <1>7 DEF Fields, Mouse, Keyboard, DiscoveryRequest, DiscoveryReply
  <2>2. \E a, b, c : KeyboardFields(e) = <<a, b, c>>
    BY Zenon DEF KeyboardFields
  <2>3. PICK a, b, c : KeyboardFields(e) = <<a, b, c>>
    BY <2>2
  <2> DEFINE U == {x, a, b, c}
  <2>4. <<a, b, c>> \in Seq(U) /\ Len(<<a, b, c>>) <= 4 /\ x \in U
    OBVIOUS
  <2> HIDE DEF U
  <2>5. p \in Seq(U) /\ Len(p) <= 1
    BY <1>4, <2>4
  <2>6. KeyboardFields(e) \in Seq(U) /\ Len(KeyboardFields(e)) <= 4
    BY <2>3, <2>4
  <2> QED
    BY <2>1, <2>5, <2>6, AtMostFive
<1>8. CASE e.kind \in {DiscoveryRequest, DiscoveryReply}
  <2>1. Len(RequestFields) = 1 /\ Len(ReplyFields(e)) = 3
    BY DEF RequestFields, ReplyFields
  <2>2. Fields(e, pwd) \in {RequestFields, ReplyFields(e)}
    BY <1>8 DEF Fields, Mouse, Keyboard, DiscoveryRequest, DiscoveryReply
  <2>3. HeldPairs \in {8, 24}
    BY DEF HeldPairs
  <2>4. PICK l : l = Len(Fields(e, pwd))
    OBVIOUS
  <2>5. l \in {1, 3}
    BY <2>1, <2>2, <2>4, Zenon
  <2> QED
    BY <2>3, <2>4, <2>5
<1> QED
  BY <1>5, <1>6, <1>7, <1>8

LEMMA LeftIs ==
    ASSUME NEW to \in {"server", "client"}, NEW e \in Events[to], NEW pwd \in Passwords,
           NEW k \in 0 .. Len(Fields(e, pwd)), NEW d, d = Left(e, pwd, k)
    PROVE  /\ d \in Seq(Field)
           /\ Distinct(d) /\ Len(d) <= HeldPairs
           /\ Pieces(d) \in Seq(Seq(Byte))
           /\ Len(Pieces(d)) \in Nat
<1>1. PICK D : D = Fields(e, pwd)
  OBVIOUS
<1>2. D \in Seq(Field) /\ Distinct(D)
  BY <1>1, FieldsAre
<1>3. k \in 0 .. Len(D) /\ d = RemoveFields(D, k)
  BY <1>1 DEF Left
<1>4. d \in Seq(Field) /\ Distinct(d) /\ Len(d) <= Len(D)
  BY <1>2, <1>3, LeftOut
<1>5. Len(d) <= HeldPairs
  <2>1. Len(D) <= HeldPairs
    BY <1>1, FewFields, MessageAssumption
  <2>2. Len(d) \in Nat /\ Len(D) \in Nat /\ HeldPairs \in Nat
    BY <1>2, <1>4, LenProperties DEF HeldPairs
  <2> QED
    BY <1>4, <2>1, <2>2
<1> QED
  BY <1>4, <1>5, PiecesAre

\* Pieces put one behind the other.
LEMMA FrontOf ==
    ASSUME NEW X, NEW ss \in Seq(Seq(X)), NEW j \in 0 .. Len(ss)
    PROVE  /\ FlattenSeq(SubSeq(ss, 1, j)) \in Seq(X)
           /\ j = 0 => FlattenSeq(SubSeq(ss, 1, j)) = <<>>
           /\ j < Len(ss) => FlattenSeq(SubSeq(ss, 1, j + 1)) =
                                FlattenSeq(SubSeq(ss, 1, j)) \o ss[j + 1]
           /\ Len(FlattenSeq(SubSeq(ss, 1, j))) <= Len(FlattenSeq(ss))
<1>1. Len(ss) \in Nat
  BY LenProperties
<1>2. PICK F \in [0 .. Len(ss) -> Seq(X)] : Table(ss, F)
  BY TableExists
<1>3. \A n \in 0 .. Len(ss) : FlattenSeq(SubSeq(ss, 1, n)) = F[n]
  BY <1>2, FlattenFirst
<1>4. F[0] = <<>> /\ \A n \in 1 .. Len(ss) : F[n] = F[n - 1] \o ss[n]
  BY <1>2 DEF Table
<1>5. FlattenSeq(ss) = F[Len(ss)]
  BY <1>2, FlattenIs
<1>6. \A n \in 0 .. Len(ss) : Len(F[n]) \in Nat
  <2> SUFFICES ASSUME NEW n \in 0 .. Len(ss) PROVE Len(F[n]) \in Nat
    OBVIOUS
  <2>1. F[n] \in Seq(X)
    BY <1>2
  <2> QED
    BY <2>1, LenProperties
<1>7. \A n \in 1 .. Len(ss) : Len(F[n - 1]) <= Len(F[n])
  <2> SUFFICES ASSUME NEW n \in 1 .. Len(ss) PROVE Len(F[n - 1]) <= Len(F[n])
    OBVIOUS
  <2>1. n - 1 \in 0 .. Len(ss)
    BY <1>1
  <2>2. F[n - 1] \in Seq(X) /\ ss[n] \in Seq(X) /\ F[n] = F[n - 1] \o ss[n]
    BY <1>2, <1>4, <2>1, ElementOfSeq
  <2>3. PICK a, b, c : a = F[n - 1] /\ b = ss[n] /\ c = F[n]
    OBVIOUS
  <2>4. a \in Seq(X) /\ b \in Seq(X) /\ c = a \o b
    BY <2>2, <2>3
  <2>5. Len(c) = Len(a) + Len(b) /\ Len(a) \in Nat /\ Len(b) \in Nat
    BY <2>4, ConcatProperties, LenProperties
  <2>6. Len(a) <= Len(c)
    BY <2>5
  <2> QED
    BY <2>3, <2>6
<1>8. Len(F[j]) <= Len(F[Len(ss)])
  <2> DEFINE Low == {i \in 0 .. Len(ss) - j : Len(F[j]) <= Len(F[j + i])}
  <2>1. PICK m : m = Len(ss) - j
    OBVIOUS
  <2>7. m \in Nat /\ j \in Nat
    BY <1>1, <2>1
  <2>2. 0 \in Low
    BY <1>6, <2>1, <2>7
  <2>3. \A i \in 0 .. m : i # m /\ i \in Low => i + 1 \in Low
    <3> SUFFICES ASSUME NEW i \in 0 .. m, i # m, i \in Low
                 PROVE  i + 1 \in Low
      OBVIOUS
    <3>1. PICK a, b : a = j + i /\ b = j + (i + 1)
      OBVIOUS
    <3>2. i + 1 \in 0 .. Len(ss) - j /\ b \in 1 .. Len(ss) /\ b - 1 = a /\ a \in 0 .. Len(ss)
      BY <1>1, <2>1, <2>7, <3>1
    <3>3. Len(F[b - 1]) <= Len(F[b])
      BY <1>7, <3>2
    <3>4. Len(F[j]) <= Len(F[a])
      BY <3>1
    <3>5. Len(F[j]) \in Nat /\ Len(F[a]) \in Nat /\ Len(F[b]) \in Nat
      BY <1>6, <3>2
    <3>6. Len(F[j]) <= Len(F[b])
      BY <3>2, <3>3, <3>4, <3>5
    <3> QED
      BY <3>1, <3>2, <3>6
  <2>4. m \in Low
    <3> HIDE DEF Low
    <3>1. \A i \in 0 .. m : i \in Low
      BY <2>2, <2>3, <2>7, UpTo
    <3>2. m \in 0 .. m
      BY <2>7
    <3> QED
      BY <3>1, <3>2, Zenon
  <2>5. Len(F[j]) <= Len(F[j + m])
    BY <2>4
  <2>6. j + m = Len(ss)
    BY <1>1, <2>1
  <2> QED
    BY <2>5, <2>6
<1>9. F[j] \in Seq(X) /\ FlattenSeq(SubSeq(ss, 1, j)) = F[j]
  BY <1>2, <1>3
<1>10. ASSUME j < Len(ss)
       PROVE  FlattenSeq(SubSeq(ss, 1, j + 1)) = F[j] \o ss[j + 1]
  <2>1. PICK n : n = j + 1
    OBVIOUS
  <2>2. n \in 0 .. Len(ss) /\ n \in 1 .. Len(ss) /\ n - 1 = j
    BY <1>1, <1>10, <2>1
  <2>3. FlattenSeq(SubSeq(ss, 1, n)) = F[n] /\ F[n] = F[n - 1] \o ss[n]
    BY <1>3, <1>4, <2>2
  <2> QED
    BY <2>1, <2>2, <2>3
<1> QED
  BY <1>4, <1>5, <1>8, <1>9, <1>10

\* What is still to be put.
LEMMA RestOf ==
    ASSUME NEW X, NEW ss \in Seq(X), NEW j \in 0 .. Len(ss), NEW rest,
           rest = SubSeq(ss, j + 1, Len(ss))
    PROVE  /\ rest = <<>> <=> j = Len(ss)
           /\ rest # <<>> => /\ j + 1 \in 0 .. Len(ss) /\ j < Len(ss)
                             /\ Head(rest) = ss[j + 1]
                             /\ Tail(rest) = SubSeq(ss, (j + 1) + 1, Len(ss))
<1>1. PICK n : n = Len(ss)
  OBVIOUS
<1>2. n \in Nat /\ j \in 0 .. n
  BY <1>1, LenProperties
<1>3. CASE j = n
  <2>1. SubSeq(ss, j + 1, n) = <<>>
    BY <1>2, <1>3, SubSeqEmpty
  <2> QED
    BY <1>1, <1>3, <2>1
<1>4. CASE j # n
  <2>1. j + 1 \in 1 .. n /\ n \in 1 .. n /\ j + 1 <= n /\ j < n /\ j + 1 \in 0 .. n
    BY <1>2, <1>4
  <2>2. rest \in Seq(X) /\ Len(rest) = n - (j + 1) + 1
    BY <1>1, <2>1, SubSeqProperties
  <2>3. rest # <<>>
    <3>1. Len(rest) # 0
      BY <1>2, <2>1, <2>2
    <3> QED
      BY <2>2, <3>1, EmptySeq
  <2>4. Head(rest) = ss[j + 1] /\ Tail(rest) = SubSeq(ss, (j + 1) + 1, n)
    BY <1>1, <2>1, HeadTailOfSubSeq
  <2> QED
    BY <1>1, <1>4, <2>1, <2>3, <2>4
<1> QED
  BY <1>3, <1>4

\* What the receiver makes of a message, or of nothing when there was no memory
\* for it.
LEMMA Received ==
    ASSUME NEW to \in {"server", "client"}, NEW pwd \in Passwords, NEW pwd2,
           NEW m, MessageOf(m, to, pwd), NEW data,
           data = m.bytes \/ (data = <<>> /\ ~m.whole),
           NEW result,
           result = IF to = "server" THEN ToEvent(SN_GetObject(data), pwd2)
                    ELSE ToDiscoveryReplyEvent(SN_GetObject(data))
    PROVE  Gives(result, m.event, pwd, pwd2, m.whole)
<1>1. PICK e, all : e = m.event /\ all = m.whole
  OBVIOUS
<1>2. e \in Events[to]
  BY <1>1 DEF MessageOf
<1>3. PICK k \in 0 .. Len(Fields(e, pwd)) :
         \E j \in 0 .. Len(Pieces(Left(e, pwd, k))) :
            /\ m.bytes = Cut(Left(e, pwd, k), j)
            /\ all => k = 0 /\ j = Len(Pieces(Left(e, pwd, k)))
  BY <1>1, Zenon DEF MessageOf
<1>4. PICK d : d = Left(e, pwd, k)
  OBVIOUS
<1>5. /\ d \in Seq(Field) /\ Distinct(d) /\ Len(d) <= HeldPairs
      /\ Pieces(d) \in Seq(Seq(Byte)) /\ Len(Pieces(d)) \in Nat
  BY <1>2, <1>4, LeftIs
<1>6. \E j \in 0 .. Len(Pieces(d)) : data = Cut(d, j) /\ (all => k = 0 /\ j = Len(Pieces(d)))
  <2>1. CASE data = m.bytes
    BY <1>3, <1>4, <2>1
  <2>2. CASE data = <<>> /\ ~all
    <3>1. 0 \in 0 .. Len(Pieces(d))
      BY <1>5
    <3>2. Cut(d, 0) = <<>>
      BY <1>5, <3>1, FrontOf DEF Cut
    <3> QED
      BY <2>2, <3>1, <3>2
  <2> QED
    BY <1>1, <2>1, <2>2
<1>7. PICK j \in 0 .. Len(Pieces(d)) :
         data = Cut(d, j) /\ (all => k = 0 /\ j = Len(Pieces(d)))
  BY <1>6
<1>8. PICK r : r = SN_GetObject(data)
  OBVIOUS
<1>9. /\ j = Len(Pieces(d)) => r = Found(SnDict(d), Len(data))
      /\ j # Len(Pieces(d)) => ~r.ok
  BY <1>5, <1>7, <1>8, MessageReadBack DEF Cut
<1>10. CASE j = Len(Pieces(d))
  <2>2. r.ok /\ r.obj = SnDict(d)
    BY <1>9, <1>10 DEF Found
  <2>3. IsEvent(e) /\ (to = "client" <=> e.kind = DiscoveryReply)
    BY <1>2, MessageAssumption
  <2>4. PICK D : D = Fields(e, pwd)
    OBVIOUS
  <2>5. k \in 0 .. Len(D) /\ d = RemoveFields(D, k)
    BY <1>4, <2>4 DEF Left
  <2>6. Gives(result, e, pwd, pwd2, k = 0)
    <3>1. CASE to = "server"
      <4>1. Gives(ToEvent(r, pwd2), e, pwd, pwd2, k = 0)
        BY <2>2, <2>3, <2>4, <2>5, <3>1, EventThrough
      <4> QED
        BY <1>8, <3>1, <4>1
    <3>2. CASE to # "server"
      <4>1. e.kind = DiscoveryReply /\ IsEvent(e)
        BY <2>3, <3>2
      <4>2. Gives(ToDiscoveryReplyEvent(r), e, pwd, pwd2, k = 0)
        BY <2>2, <2>4, <2>5, <4>1, ReplyThrough
      <4> QED
        BY <1>8, <3>2, <4>2
    <3> QED
      BY <3>1, <3>2
  <2> QED
    BY <1>1, <1>7, <2>6, Zenon DEF Gives
<1>11. CASE j # Len(Pieces(d))
  <2>1. result = NoEvent
    <3>1. ~r.ok
      BY <1>9, <1>11
    <3>2. ToEvent(r, pwd2) = NoEvent /\ ToDiscoveryReplyEvent(r) = NoEvent
      BY <3>1, NothingRead
    <3> QED
      BY <1>8, <3>2
  <2>2. ~all
    BY <1>7, <1>11
  <2> QED
    BY <1>1, <2>1, <2>2, Zenon DEF Gives
<1> QED
  BY <1>10, <1>11

-----------------------------------------------------------------------------
(* The invariant.                                                            *)

\* What is in the sender's buffer and what is still to be put make a message
\* of the event.
Sending(e, to, pwd, contents, rest, all) ==
    /\ e \in Events[to]
    /\ \E k \in 0 .. Len(Fields(e, pwd)) :
         \E j \in 0 .. Len(Pieces(Left(e, pwd, k))) :
            /\ contents = Cut(Left(e, pwd, k), j)
            /\ \/ rest = SubSeq(Pieces(Left(e, pwd, k)), j + 1, Len(Pieces(Left(e, pwd, k))))
               \/ rest = <<>> /\ ~all
            /\ all => k = 0

SenderOK ==
    /\ S!BufferOK
    /\ event = NoEvent => puts = <<>>
    /\ event # NoEvent => Sending(event, end, current_pwd, S!Contents, puts, whole)

\* The receiver's buffer has what was received, or nothing if there was no
\* memory for it.
ReceiverOK ==
    /\ pc \in {"idle", "cleared", "filled"}
    /\ pc # "idle" => MessageOf(receiving, end, current_pwd)
    /\ pc = "cleared" => BufferOK /\ Contents = <<>>
    /\ pc = "filled" => \/ Contents = receiving.bytes
                        \/ Contents = <<>> /\ ~receiving.whole

SettingOK ==
    end \in {"server", "client"} /\ current_pwd \in Passwords /\ m_pwd \in Passwords

MessageInv ==
    /\ SettingOK
    /\ SenderOK
    /\ \A m \in net : MessageOf(m, end, current_pwd)
    /\ ReceiverOK
    /\ ReceivedAsSent

-----------------------------------------------------------------------------
(* The sender.                                                               *)

SP == INSTANCE ArBufferProofs WITH mem <- smem, read_cur <- sread, write_cur <- swrite

LEMMA SenderInserts ==
    ASSUME S!BufferOK, NEW data \in Seq(Byte), S!InsertBuffer(data)
    PROVE  S!BufferOK' /\ S!Contents' = S!Contents \o data
<1>1. SP!BufferOK
  BY DEF S!BufferOK, SP!BufferOK, S!Contents, SP!Contents, S!last, SP!last,
         S!GetBufferAvailable, SP!GetBufferAvailable
<1>2. SP!InsertBuffer(data)
  BY DEF S!InsertBuffer, SP!InsertBuffer, S!last, SP!last,
         S!GetBufferAvailable, SP!GetBufferAvailable, S!GetBufferCapacity, SP!GetBufferCapacity,
         S!Fill, SP!Fill, S!MoveInternal, SP!MoveInternal, S!Written, SP!Written,
         S!IncreaseCapability, SP!IncreaseCapability, S!IncLen, SP!IncLen, S!Larger, SP!Larger
<1>3. SP!BufferOK' /\ SP!Contents' = SP!Contents \o data
  BY <1>1, <1>2, SP!InsertAppends, BufferAssumption
<1> QED
  BY <1>3
     DEF S!BufferOK, SP!BufferOK, S!Contents, SP!Contents, S!last, SP!last,
         S!GetBufferAvailable, SP!GetBufferAvailable

LEMMA SenderClears ==
    ASSUME S!ClearBuffer
    PROVE  S!BufferOK' /\ S!Contents' = <<>>
<1>1. smem' \in Seq(SP!Cell) /\ sread' = 0 /\ swrite' = 0
  BY EmptySeq DEF S!ClearBuffer
<1>2. SP!BufferOK' /\ SP!Contents' = <<>>
  BY <1>1, SP!Emptied, BufferAssumption
<1> QED
  BY <1>2
     DEF S!BufferOK, SP!BufferOK, S!Contents, SP!Contents, S!last, SP!last,
         S!GetBufferAvailable, SP!GetBufferAvailable

LEMMA SenderStarts ==
    ASSUME S!BufferInit
    PROVE  S!BufferOK /\ S!Contents = <<>>
<1>1. SP!BufferInit
  BY DEF S!BufferInit, SP!BufferInit
<1>2. SP!BufferOK /\ SP!Contents = <<>>
  BY <1>1, SP!FirstQueue, BufferAssumption
<1> QED
  BY <1>2
     DEF S!BufferOK, SP!BufferOK, S!Contents, SP!Contents, S!last, SP!last,
         S!GetBufferAvailable, SP!GetBufferAvailable

\* The sender's buffer is not touched.
LEMMA SenderStays ==
    ASSUME UNCHANGED <<smem, sread, swrite>>
    PROVE  /\ S!BufferOK => S!BufferOK'
           /\ S!Contents' = S!Contents
           /\ S!GetBufferAvailable' = S!GetBufferAvailable
BY DEF S!BufferOK, S!Contents, S!last, S!GetBufferAvailable

\* Nor the receiver's.
LEMMA ReceiverStays ==
    ASSUME UNCHANGED <<mem, read_cur, write_cur>>
    PROVE  (BufferOK => BufferOK') /\ Contents' = Contents
BY DEF BufferOK, Contents, last, GetBufferAvailable

-----------------------------------------------------------------------------
(* From the event to the datagram.                                           *)

LEMMA SendingStarts ==
    ASSUME NEW to \in {"server", "client"}, NEW e \in Events[to], NEW pwd \in Passwords,
           NEW k \in 0 .. Len(Fields(e, pwd))
    PROVE  Sending(e, to, pwd, <<>>, Pieces(RemoveFields(Fields(e, pwd), k)), k = 0)
<1>1. PICK d : d = Left(e, pwd, k)
  OBVIOUS
<1>2. Pieces(d) \in Seq(Seq(Byte)) /\ Len(Pieces(d)) \in Nat
  BY <1>1, LeftIs
<1>3. 0 \in 0 .. Len(Pieces(d))
  BY <1>2
<1>4. Cut(d, 0) = <<>>
  BY <1>2, <1>3, FrontOf DEF Cut
<1>5. Pieces(d) = SubSeq(Pieces(d), 0 + 1, Len(Pieces(d)))
  BY <1>2, SubSeqFull
<1>6. d = RemoveFields(Fields(e, pwd), k)
  BY <1>1 DEF Left
<1> QED
  BY <1>1, <1>3, <1>4, <1>5, <1>6, Zenon DEF Sending

LEMMA SendingGoesOn ==
    ASSUME NEW to \in {"server", "client"}, NEW e, NEW pwd \in Passwords, NEW c, NEW rest, NEW all,
           Sending(e, to, pwd, c, rest, all), rest # <<>>
    PROVE  /\ Head(rest) \in Seq(Byte)
           /\ Sending(e, to, pwd, c \o Head(rest), Tail(rest), all)
           /\ Sending(e, to, pwd, c, <<>>, FALSE)
<1>1. e \in Events[to]
  BY Zenon DEF Sending
<1>2. PICK k \in 0 .. Len(Fields(e, pwd)) :
         \E j \in 0 .. Len(Pieces(Left(e, pwd, k))) :
            /\ c = Cut(Left(e, pwd, k), j)
            /\ rest = SubSeq(Pieces(Left(e, pwd, k)), j + 1, Len(Pieces(Left(e, pwd, k))))
            /\ all => k = 0
  BY Zenon DEF Sending
<1>3. PICK d : d = Left(e, pwd, k)
  OBVIOUS
<1>4. Pieces(d) \in Seq(Seq(Byte)) /\ Len(Pieces(d)) \in Nat
  BY <1>1, <1>3, LeftIs
<1>5. PICK j \in 0 .. Len(Pieces(d)) :
         /\ c = Cut(d, j)
         /\ rest = SubSeq(Pieces(d), j + 1, Len(Pieces(d)))
         /\ all => k = 0
  BY <1>2, <1>3
<1>6. /\ j + 1 \in 0 .. Len(Pieces(d)) /\ j < Len(Pieces(d))
      /\ Head(rest) = Pieces(d)[j + 1]
      /\ Tail(rest) = SubSeq(Pieces(d), (j + 1) + 1, Len(Pieces(d)))
  BY <1>4, <1>5, RestOf
<1>7. Head(rest) \in Seq(Byte)
  <2>1. j + 1 \in 1 .. Len(Pieces(d))
    BY <1>4, <1>6
  <2> QED
    BY <1>4, <1>6, <2>1, ElementOfSeq
<1>8. c \o Head(rest) = Cut(d, j + 1)
  BY <1>4, <1>5, <1>6, FrontOf DEF Cut
<1>9. Sending(e, to, pwd, c \o Head(rest), Tail(rest), all)
  BY <1>1, <1>3, <1>5, <1>6, <1>8, Zenon DEF Sending
<1>10. Sending(e, to, pwd, c, <<>>, FALSE)
  BY <1>1, <1>3, <1>5, Zenon DEF Sending
<1> QED
  BY <1>7, <1>9, <1>10

LEMMA SendingEnds ==
    ASSUME NEW to \in {"server", "client"}, NEW e, NEW pwd \in Passwords, NEW c, NEW all,
           Sending(e, to, pwd, c, <<>>, all), NEW m, m = [bytes |-> c, event |-> e, whole |-> all]
    PROVE  MessageOf(m, to, pwd)
<1>1. e \in Events[to]
  BY Zenon DEF Sending
<1>2. PICK k \in 0 .. Len(Fields(e, pwd)) :
         \E j \in 0 .. Len(Pieces(Left(e, pwd, k))) :
            /\ c = Cut(Left(e, pwd, k), j)
            /\ \/ <<>> = SubSeq(Pieces(Left(e, pwd, k)), j + 1, Len(Pieces(Left(e, pwd, k))))
               \/ ~all
            /\ all => k = 0
  BY Zenon DEF Sending
<1>3. PICK d : d = Left(e, pwd, k)
  OBVIOUS
<1>4. Pieces(d) \in Seq(Seq(Byte)) /\ Len(Pieces(d)) \in Nat
  BY <1>1, <1>3, LeftIs
<1>5. PICK j \in 0 .. Len(Pieces(d)) :
         /\ c = Cut(d, j)
         /\ <<>> = SubSeq(Pieces(d), j + 1, Len(Pieces(d))) \/ ~all
         /\ all => k = 0
  BY <1>2, <1>3
<1>6. all => k = 0 /\ j = Len(Pieces(d))
  BY <1>4, <1>5, RestOf
<1>7. m.bytes = c /\ m.event = e /\ m.whole = all /\ "whole" \in DOMAIN m
  OBVIOUS
<1> QED
  BY <1>1, <1>3, <1>5, <1>6, <1>7, Zenon DEF MessageOf

\* A message is of bytes, and the client has room for any that it gets.
LEMMA MessageBytes ==
    ASSUME NEW to \in {"server", "client"}, NEW pwd \in Passwords, NEW m, MessageOf(m, to, pwd)
    PROVE  /\ m.bytes \in Seq(Byte)
           /\ to = "client" => Len(m.bytes) <= RecvMax
<1>1. PICK e : e = m.event
  OBVIOUS
<1>2. e \in Events[to]
  BY <1>1, Zenon DEF MessageOf
<1>3. PICK k \in 0 .. Len(Fields(e, pwd)) :
         \E j \in 0 .. Len(Pieces(Left(e, pwd, k))) : m.bytes = Cut(Left(e, pwd, k), j)
  BY <1>1, Zenon DEF MessageOf
<1>4. PICK d : d = Left(e, pwd, k)
  OBVIOUS
<1>5. Pieces(d) \in Seq(Seq(Byte)) /\ Len(Pieces(d)) \in Nat
  BY <1>2, <1>4, LeftIs
<1>6. PICK j \in 0 .. Len(Pieces(d)) : m.bytes = Cut(d, j)
  BY <1>3, <1>4
<1>7. m.bytes \in Seq(Byte) /\ Len(m.bytes) <= Len(FlattenSeq(Pieces(d)))
  BY <1>5, <1>6, FrontOf DEF Cut
<1>8. ASSUME to = "client" PROVE Len(m.bytes) <= RecvMax
  <2>1. Fields(e, pwd) = ReplyFields(e) /\ Len(Fields(e, pwd)) = 3
    BY <1>2, <1>8, FieldsAre
  <2>2. k \in 0 .. 3 /\ d = RemoveFields(ReplyFields(e), k)
    BY <1>4, <2>1 DEF Left
  <2>3. Len(FlattenSeq(Pieces(d))) <= RecvMax
    BY <1>2, <1>8, <2>2, MessageAssumption
  <2>4. PICK a, b : a = Len(m.bytes) /\ b = Len(FlattenSeq(Pieces(d)))
    OBVIOUS
  <2>5. a \in Nat /\ RecvMax \in Nat
    BY <1>7, <2>4, LenProperties, MessageAssumption
  <2>6. b \in Nat
    <3>1. Len(Pieces(d)) \in 0 .. Len(Pieces(d))
      BY <1>5
    <3>2. FlattenSeq(SubSeq(Pieces(d), 1, Len(Pieces(d)))) \in Seq(Byte)
      BY <1>5, <3>1, FrontOf
    <3>3. SubSeq(Pieces(d), 1, Len(Pieces(d))) = Pieces(d)
      BY <1>5, SubSeqFull
    <3> QED
      BY <2>4, <3>2, <3>3, LenProperties
  <2> QED
    BY <1>7, <2>3, <2>4, <2>5, <2>6
<1> QED
  BY <1>7, <1>8

\* So nothing of it is cut off.
LEMMA ReceivedWhole ==
    ASSUME NEW b \in Seq(Byte), Len(b) <= RecvMax
    PROVE  SubSeq(b, 1, Min({Len(b), RecvMax})) = b
<1>1. Len(b) \in Nat /\ RecvMax \in Nat
  BY LenProperties, MessageAssumption
<1>2. Min({Len(b), RecvMax}) = Len(b)
  BY <1>1 DEF Min
<1> QED
  BY <1>2, SubSeqFull

-----------------------------------------------------------------------------
(* The steps.                                                                *)

\* What one end does leaves the other as it is.
LEMMA SettingKept ==
    ASSUME SettingOK, UNCHANGED setting
    PROVE  SettingOK' /\ end' = end /\ current_pwd' = current_pwd /\ m_pwd' = m_pwd
BY DEF SettingOK, setting

LEMMA SenderKept ==
    ASSUME SenderOK, UNCHANGED setting, UNCHANGED sender
    PROVE  SenderOK'
<1>1. /\ end' = end /\ current_pwd' = current_pwd
      /\ event' = event /\ puts' = puts /\ whole' = whole
      /\ UNCHANGED <<smem, sread, swrite>>
  BY DEF setting, sender
<1>2. (S!BufferOK => S!BufferOK') /\ S!Contents' = S!Contents
  BY <1>1, SenderStays
<1> QED
  BY <1>1, <1>2, Zenon DEF SenderOK

LEMMA GotKept ==
    ASSUME ReceivedAsSent, UNCHANGED setting, got' = got
    PROVE  ReceivedAsSent'
BY DEF ReceivedAsSent, Admitted, setting

LEMMA ReceiverKept ==
    ASSUME ReceiverOK, ReceivedAsSent, UNCHANGED setting, UNCHANGED receiver
    PROVE  ReceiverOK' /\ ReceivedAsSent'
<1>1. /\ end' = end /\ current_pwd' = current_pwd
      /\ receiving' = receiving /\ pc' = pc /\ got' = got
      /\ UNCHANGED <<mem, read_cur, write_cur>>
  BY DEF setting, receiver
<1>2. (BufferOK => BufferOK') /\ Contents' = Contents
  BY <1>1, ReceiverStays
<1>3. ReceiverOK'
  BY <1>1, <1>2, Zenon DEF ReceiverOK
<1> QED
  BY <1>1, <1>3, GotKept

LEMMA EncodeStep == MessageInv /\ Encode => MessageInv'
<1> SUFFICES ASSUME MessageInv, Encode PROVE MessageInv'
  OBVIOUS
<1>1. SettingOK /\ SenderOK /\ ReceiverOK /\ ReceivedAsSent
      /\ \A m \in net : MessageOf(m, end, current_pwd)
  BY DEF MessageInv
<1>2. UNCHANGED setting /\ UNCHANGED receiver /\ net' = net /\ S!ClearBuffer
  BY DEF Encode
<1>11. PICK e \in Events[end] :
         \E k \in 0 .. Len(Fields(e, current_pwd)) :
            /\ event' = e
            /\ puts' = Pieces(RemoveFields(Fields(e, current_pwd), k))
            /\ whole' = (k = 0)
  BY DEF Encode
<1>3. PICK k \in 0 .. Len(Fields(e, current_pwd)) :
         /\ event' = e
         /\ puts' = Pieces(RemoveFields(Fields(e, current_pwd), k))
         /\ whole' = (k = 0)
  BY <1>11
<1>4. SettingOK' /\ end' = end /\ current_pwd' = current_pwd
  BY <1>1, <1>2, SettingKept
<1>5. S!BufferOK' /\ S!Contents' = <<>>
  BY <1>2, SenderClears
<1>6. Sending(e, end, current_pwd, <<>>, puts', whole')
  <2>1. end \in {"server", "client"} /\ current_pwd \in Passwords
    BY <1>1 DEF SettingOK
  <2>2. Sending(e, end, current_pwd, <<>>, Pieces(RemoveFields(Fields(e, current_pwd), k)), k = 0)
    BY <2>1, SendingStarts
  <2> QED
    BY <1>3, <2>2
<1>7. event' # NoEvent
  <2>1. IsEvent(e)
    BY <1>1, MessageAssumption DEF SettingOK
  <2> QED
    BY <1>3, <2>1, KindOf
<1>8. SenderOK'
  BY <1>3, <1>4, <1>5, <1>6, <1>7, Zenon DEF SenderOK
<1>9. ReceiverOK' /\ ReceivedAsSent'
  BY <1>1, <1>2, ReceiverKept
<1>10. (\A m \in net : MessageOf(m, end, current_pwd))'
  BY <1>1, <1>2, <1>4
<1> QED
  BY <1>4, <1>8, <1>9, <1>10 DEF MessageInv

LEMMA PutStep == MessageInv /\ Put => MessageInv'
<1> SUFFICES ASSUME MessageInv, Put PROVE MessageInv'
  OBVIOUS
<1>1. SettingOK /\ SenderOK /\ ReceiverOK /\ ReceivedAsSent
      /\ \A m \in net : MessageOf(m, end, current_pwd)
  BY DEF MessageInv
<1>2. UNCHANGED setting /\ UNCHANGED receiver /\ net' = net /\ event' = event /\ puts # <<>>
  BY DEF Put
<1>3. SettingOK' /\ end' = end /\ current_pwd' = current_pwd
  BY <1>1, <1>2, SettingKept
<1>4. S!BufferOK /\ event # NoEvent /\ Sending(event, end, current_pwd, S!Contents, puts, whole)
  BY <1>1, <1>2 DEF SenderOK
<1>5. /\ Head(puts) \in Seq(Byte)
      /\ Sending(event, end, current_pwd, S!Contents \o Head(puts), Tail(puts), whole)
      /\ Sending(event, end, current_pwd, S!Contents, <<>>, FALSE)
  <2>1. end \in {"server", "client"} /\ current_pwd \in Passwords
    BY <1>1 DEF SettingOK
  <2> QED
    BY <1>2, <1>4, <2>1, SendingGoesOn
<1>6. SenderOK'
  <2>1. CASE S!InsertBuffer(Head(puts)) /\ puts' = Tail(puts) /\ whole' = whole
    <3>1. S!BufferOK' /\ S!Contents' = S!Contents \o Head(puts)
      BY <1>4, <1>5, <2>1, SenderInserts
    <3> QED
      BY <1>2, <1>3, <1>4, <1>5, <2>1, <3>1, Zenon DEF SenderOK
  <2>2. CASE S!InsertFails(Head(puts)) /\ puts' = <<>> /\ whole' = FALSE
    <3>1. UNCHANGED <<smem, sread, swrite>>
      BY <2>2 DEF S!InsertFails, S!buffer
    <3>2. S!BufferOK' /\ S!Contents' = S!Contents
      BY <1>4, <3>1, SenderStays
    <3> QED
      BY <1>2, <1>3, <1>4, <1>5, <2>2, <3>2, Zenon DEF SenderOK
  <2> QED
    BY <2>1, <2>2 DEF Put
<1>7. ReceiverOK' /\ ReceivedAsSent'
  BY <1>1, <1>2, ReceiverKept
<1>8. (\A m \in net : MessageOf(m, end, current_pwd))'
  BY <1>1, <1>2, <1>3
<1> QED
  BY <1>3, <1>6, <1>7, <1>8 DEF MessageInv

LEMMA SendStep == MessageInv /\ Send => MessageInv'
<1> SUFFICES ASSUME MessageInv, Send PROVE MessageInv'
  OBVIOUS
<1>1. SettingOK /\ SenderOK /\ ReceiverOK /\ ReceivedAsSent
      /\ \A m \in net : MessageOf(m, end, current_pwd)
  BY DEF MessageInv
<1>2. PICK sent : sent = [bytes |-> S!Contents, event |-> event, whole |-> whole]
  OBVIOUS
<1>3. /\ UNCHANGED setting /\ UNCHANGED receiver /\ S!ClearBuffer
      /\ event # NoEvent /\ event' = NoEvent /\ puts = <<>> /\ puts' = puts
      /\ net' = net \/ net' = net \cup {sent}
  BY <1>2 DEF Send
<1>4. SettingOK' /\ end' = end /\ current_pwd' = current_pwd
  BY <1>1, <1>3, SettingKept
<1>5. MessageOf(sent, end, current_pwd)
  <2>1. end \in {"server", "client"} /\ current_pwd \in Passwords
    BY <1>1 DEF SettingOK
  <2>2. Sending(event, end, current_pwd, S!Contents, <<>>, whole)
    BY <1>1, <1>3 DEF SenderOK
  <2> QED
    BY <1>2, <2>1, <2>2, SendingEnds
<1>6. SenderOK'
  <2>1. S!BufferOK'
    BY <1>3, SenderClears
  <2> QED
    BY <1>3, <2>1 DEF SenderOK
<1>7. ReceiverOK' /\ ReceivedAsSent'
  BY <1>1, <1>3, ReceiverKept
<1>8. (\A m \in net : MessageOf(m, end, current_pwd))'
  BY <1>1, <1>3, <1>4, <1>5
<1> QED
  BY <1>4, <1>6, <1>7, <1>8 DEF MessageInv

LEMMA LoseStep == MessageInv /\ Lose => MessageInv'
<1> SUFFICES ASSUME MessageInv, Lose PROVE MessageInv'
  OBVIOUS
<1>1. SettingOK /\ SenderOK /\ ReceiverOK /\ ReceivedAsSent
      /\ \A m \in net : MessageOf(m, end, current_pwd)
  BY DEF MessageInv
<1>2. UNCHANGED setting /\ UNCHANGED sender /\ UNCHANGED receiver /\ net' \subseteq net
  BY DEF Lose
<1>3. SettingOK' /\ end' = end /\ current_pwd' = current_pwd
  BY <1>1, <1>2, SettingKept
<1>4. (\A m \in net : MessageOf(m, end, current_pwd))'
  BY <1>1, <1>2, <1>3
<1> QED
  BY <1>1, <1>2, <1>3, <1>4, SenderKept, ReceiverKept DEF MessageInv

LEMMA ReceiveStep == MessageInv /\ Receive => MessageInv'
<1> SUFFICES ASSUME MessageInv, Receive PROVE MessageInv'
  OBVIOUS
<1>1. SettingOK /\ SenderOK /\ ReceiverOK /\ ReceivedAsSent
      /\ \A m \in net : MessageOf(m, end, current_pwd)
  BY DEF MessageInv
<1>2. UNCHANGED setting /\ UNCHANGED sender
  BY DEF Receive
<1>3. PICK m \in net :
         /\ net' \in {net, net \ {m}}
         /\ IF \/ end = "server" /\ Len(m.bytes) > RecvMax
               \/ end = "client" /\ m.bytes = <<>>
            THEN UNCHANGED receiver
            ELSE /\ receiving' = [m EXCEPT !.bytes =
                                    SubSeq(@, 1, Min({Len(@), RecvMax}))]
                 /\ IF end = "server" THEN ClearBuffer ELSE CreateBuffer(InitBufLen)
                 /\ pc' = "cleared"
                 /\ UNCHANGED got
  BY DEF Receive
<1>4. SettingOK' /\ end' = end /\ current_pwd' = current_pwd
  BY <1>1, <1>2, SettingKept
<1>5. SenderOK'
  BY <1>1, <1>2, SenderKept
<1>6. (\A n \in net : MessageOf(n, end, current_pwd))'
  BY <1>1, <1>3, <1>4
<1>7. CASE UNCHANGED receiver
  <2>1. ReceiverOK' /\ ReceivedAsSent'
    BY <1>1, <1>2, <1>7, ReceiverKept
  <2> QED
    BY <1>4, <1>5, <1>6, <2>1 DEF MessageInv
<1>8. CASE ~(UNCHANGED receiver)
  <2>1. /\ ~(end = "server" /\ Len(m.bytes) > RecvMax)
        /\ receiving' = [m EXCEPT !.bytes = SubSeq(@, 1, Min({Len(@), RecvMax}))]
        /\ IF end = "server" THEN ClearBuffer ELSE CreateBuffer(InitBufLen)
        /\ pc' = "cleared"
        /\ got' = got
    BY <1>3, <1>8
  <2>2. MessageOf(m, end, current_pwd)
    BY <1>1
  <2>3. end \in {"server", "client"} /\ current_pwd \in Passwords
    BY <1>1 DEF SettingOK
  <2>4. m.bytes \in Seq(Byte) /\ (end = "client" => Len(m.bytes) <= RecvMax)
    BY <2>2, <2>3, MessageBytes
  <2>5. Len(m.bytes) <= RecvMax
    <3>1. PICK n : n = Len(m.bytes)
      OBVIOUS
    <3>2. n \in Nat /\ RecvMax \in Nat
      BY <2>4, <3>1, LenProperties, MessageAssumption
    <3>3. end = "server" => n <= RecvMax
      BY <2>1, <3>1, <3>2
    <3> QED
      BY <2>3, <2>4, <3>1, <3>3
  <2>6. SubSeq(m.bytes, 1, Min({Len(m.bytes), RecvMax})) = m.bytes
    BY <2>4, <2>5, ReceivedWhole
  <2>7. receiving'.bytes = m.bytes /\ receiving'.event = m.event /\ receiving'.whole = m.whole
        /\ DOMAIN receiving' = DOMAIN m
    <3>1. receiving' = [m EXCEPT !.bytes = m.bytes]
      BY <2>1, <2>6, Zenon
    <3> QED
      BY <3>1
  <2>8. MessageOf(receiving', end, current_pwd)
    BY <2>2, <2>7, Zenon DEF MessageOf
  <2>9. BufferOK' /\ Contents' = <<>>
    <3>1. CASE end = "server"
      <4>1. mem' \in Seq(Cell) /\ read_cur' = 0 /\ write_cur' = 0
        BY <2>1, <3>1, EmptySeq DEF ClearBuffer
      <4> QED
        BY <4>1, Emptied
    <3>2. CASE end # "server"
      <4>1. CreateBuffer(InitBufLen) /\ InitBufLen \in Nat
        BY <2>1, <3>2, BufferAssumption
      <4> QED
        BY <4>1, CreateEmpty
    <3> QED
      BY <3>1, <3>2
  <2>10. ReceiverOK'
    BY <1>4, <2>1, <2>8, <2>9 DEF ReceiverOK
  <2>11. ReceivedAsSent'
    BY <1>1, <1>2, <2>1, GotKept
  <2> QED
    BY <1>4, <1>5, <1>6, <2>10, <2>11 DEF MessageInv
<1> QED
  BY <1>7, <1>8

LEMMA InsertStep == MessageInv /\ Insert => MessageInv'
<1> SUFFICES ASSUME MessageInv, Insert PROVE MessageInv'
  OBVIOUS
<1>1. SettingOK /\ SenderOK /\ ReceiverOK /\ ReceivedAsSent
      /\ \A m \in net : MessageOf(m, end, current_pwd)
  BY DEF MessageInv
<1>2. UNCHANGED setting /\ UNCHANGED sender /\ net' = net /\ got' = got
      /\ pc = "cleared" /\ pc' = "filled"
  BY DEF Insert
<1>3. SettingOK' /\ end' = end /\ current_pwd' = current_pwd
  BY <1>1, <1>2, SettingKept
<1>4. SenderOK'
  BY <1>1, <1>2, SenderKept
<1>5. (\A m \in net : MessageOf(m, end, current_pwd))'
  BY <1>1, <1>2, <1>3
<1>6. ReceivedAsSent'
  BY <1>1, <1>2, GotKept
<1>7. MessageOf(receiving, end, current_pwd) /\ BufferOK /\ Contents = <<>>
  BY <1>1, <1>2 DEF ReceiverOK
<1>8. receiving.bytes \in Seq(Byte)
  BY <1>1, <1>7, MessageBytes DEF SettingOK
<1>9. MessageOf(receiving', end, current_pwd)
      /\ (Contents' = receiving'.bytes \/ (Contents' = <<>> /\ ~receiving'.whole))
  <2>1. CASE InsertBuffer(receiving.bytes) /\ receiving' = receiving
    <3>1. Contents' = Contents \o receiving.bytes
      BY <1>7, <1>8, <2>1, InsertAppends
    <3>2. Contents' = receiving.bytes
      BY <1>7, <1>8, <3>1, ConcatEmptySeq
    <3> QED
      BY <1>7, <2>1, <3>2
  <2>2. CASE InsertFails(receiving.bytes) /\ receiving' = [receiving EXCEPT !.whole = FALSE]
    <3>1. UNCHANGED <<mem, read_cur, write_cur>>
      BY <2>2 DEF InsertFails, buffer
    <3>2. Contents' = <<>>
      BY <1>7, <3>1, ReceiverStays
    <3>3. receiving'.event = receiving.event /\ receiving'.bytes = receiving.bytes
          /\ DOMAIN receiving' = DOMAIN receiving
      BY <2>2
    <3>4. ~receiving'.whole
      <4>1. "whole" \in DOMAIN receiving
        BY <1>7 DEF MessageOf
      <4> QED
        BY <2>2, <4>1
    <3>5. MessageOf(receiving', end, current_pwd)
      BY <1>7, <3>3, <3>4, Zenon DEF MessageOf
    <3> QED
      BY <3>2, <3>4, <3>5
  <2> QED
    BY <2>1, <2>2 DEF Insert
<1>10. ReceiverOK'
  BY <1>2, <1>3, <1>9 DEF ReceiverOK
<1> QED
  BY <1>3, <1>4, <1>5, <1>6, <1>10 DEF MessageInv

LEMMA DecodeStep == MessageInv /\ Decode => MessageInv'
<1> SUFFICES ASSUME MessageInv, Decode PROVE MessageInv'
  OBVIOUS
<1>1. SettingOK /\ SenderOK /\ ReceiverOK /\ ReceivedAsSent
      /\ \A m \in net : MessageOf(m, end, current_pwd)
  BY DEF MessageInv
<1>2. PICK result : result = IF end = "server" THEN ToEvent(SN_GetObject(Contents), m_pwd)
                             ELSE ToDiscoveryReplyEvent(SN_GetObject(Contents))
  OBVIOUS
<1>3. UNCHANGED setting /\ UNCHANGED sender /\ net' = net
      /\ pc = "filled" /\ pc' = "idle" /\ got' = [from |-> receiving, event |-> result]
  BY <1>2 DEF Decode
<1>4. SettingOK' /\ end' = end /\ current_pwd' = current_pwd /\ m_pwd' = m_pwd
  BY <1>1, <1>3, SettingKept
<1>5. SenderOK'
  BY <1>1, <1>3, SenderKept
<1>6. (\A m \in net : MessageOf(m, end, current_pwd))'
  BY <1>1, <1>3, <1>4
<1>7. ReceiverOK'
  BY <1>3 DEF ReceiverOK
<1>8. Gives(result, receiving.event, current_pwd, m_pwd, receiving.whole)
  <2>1. MessageOf(receiving, end, current_pwd)
        /\ (Contents = receiving.bytes \/ (Contents = <<>> /\ ~receiving.whole))
    BY <1>1, <1>3 DEF ReceiverOK
  <2>2. end \in {"server", "client"} /\ current_pwd \in Passwords
    BY <1>1 DEF SettingOK
  <2> QED
    BY <1>2, <2>1, <2>2, Received
<1>9. ReceivedAsSent'
  <2>1. got'.from = receiving /\ got'.event = result
    BY <1>3
  <2>2. \A e : Admitted(e)' <=> Accept(e, current_pwd, m_pwd)
    BY <1>4 DEF Admitted, Accept, Agree
  <2>3. IF result = NoEvent
        THEN ~receiving.whole \/ ~Accept(receiving.event, current_pwd, m_pwd)
        ELSE result = AsWhole(receiving.event) /\ Accept(receiving.event, current_pwd, m_pwd)
    BY <1>8, Zenon DEF Gives
  <2> QED
    BY <2>1, <2>2, <2>3 DEF ReceivedAsSent
<1> QED
  BY <1>4, <1>5, <1>6, <1>7, <1>9 DEF MessageInv

LEMMA FirstMessage == MsgInit => MessageInv
<1> SUFFICES ASSUME MsgInit PROVE MessageInv
  OBVIOUS
<1>1. SettingOK
  BY DEF MsgInit, SettingOK
<1>2. SenderOK
  BY SenderStarts DEF MsgInit, SenderOK
<1>3. ReceiverOK
  BY DEF MsgInit, ReceiverOK
<1>4. ReceivedAsSent
  BY DEF MsgInit, ReceivedAsSent
<1> QED
  BY <1>1, <1>2, <1>3, <1>4 DEF MsgInit, MessageInv

\* Whatever fails, is lost or comes twice, what a datagram is decoded into
\* (NetMessage.h, ToEvent and ToDiscoveryReplyEvent) is the event it was made
\* for or none, and none only if an allocation failed or the passwords do not
\* agree.
THEOREM MessagesReceivedAsSent == MsgSpec => []ReceivedAsSent
<1>1. MsgInit => MessageInv
  BY FirstMessage
<1>2. MessageInv /\ [MsgNext]_msg_vars => MessageInv'
  <2> SUFFICES ASSUME MessageInv, [MsgNext]_msg_vars PROVE MessageInv'
    OBVIOUS
  <2>1. CASE MsgNext
    BY <2>1, EncodeStep, PutStep, SendStep, LoseStep, ReceiveStep, InsertStep, DecodeStep
       DEF MsgNext
  <2>2. CASE UNCHANGED msg_vars
    <3>1. UNCHANGED setting /\ UNCHANGED sender /\ UNCHANGED receiver /\ net' = net
      BY <2>2 DEF msg_vars
    <3>2. SettingOK /\ SenderOK /\ ReceiverOK /\ ReceivedAsSent
          /\ \A m \in net : MessageOf(m, end, current_pwd)
      BY DEF MessageInv
    <3>3. SettingOK' /\ end' = end /\ current_pwd' = current_pwd
      BY <3>1, <3>2, SettingKept
    <3> QED
      BY <3>1, <3>2, <3>3, SenderKept, ReceiverKept DEF MessageInv
  <2> QED
    BY <2>1, <2>2
<1>3. MessageInv => ReceivedAsSent
  BY DEF MessageInv
<1> QED
  BY <1>1, <1>2, <1>3, PTL DEF MsgSpec
=============================================================================
