---------------------------- MODULE ParserProofs -----------------------------
(* Whatever the tokens, the handlers' failures and the repairs, a reduction  *)
(* finds its nodes on the stack, and every leaf made is on it, once, or was  *)
(* freed, once: for every grammar whose tables are an LR parser's.           *)
EXTENDS Parser, WellFoundedInduction, SequenceTheorems, TLAPS

-----------------------------------------------------------------------------
(* Induction for sets of numbers.                                            *)

\* A set of numbers has a smallest one.
LEMMA LeastOf ==
    ASSUME NEW T \in SUBSET Nat, T # {}
    PROVE  \E k \in T : \A j \in T : k <= j
<1>1. IsWellFoundedOn(OpToRel(<, Nat), Nat)
  BY NatLessThanWellFounded
<1>2. PICK k \in T : \A j \in T : ~(<<j, k>> \in OpToRel(<, Nat))
  BY <1>1, WFMin
<1>3. \A j \in T : ~(j < k)
  BY <1>2 DEF OpToRel
<1>4. ASSUME NEW j \in T PROVE k <= j
  <2>1. k \in Int /\ j \in Int /\ ~(j < k)
    BY <1>3
  <2> QED
    BY <2>1
<1> QED
  BY <1>2, <1>4

\* What holds of 0 and of every next number up to n holds up to n.
LEMMA StepByStep ==
    ASSUME NEW n \in Nat, NEW T, 0 \in T, \A k \in 0 .. n : k # n /\ k \in T => k + 1 \in T
    PROVE  \A k \in 0 .. n : k \in T
<1> DEFINE Rest == {k \in 0 .. n : k \notin T}
<1> SUFFICES ASSUME Rest # {} PROVE FALSE
  OBVIOUS
<1>1. Rest \in SUBSET Nat
  OBVIOUS
<1>2. PICK k \in Rest : \A j \in Rest : k <= j
  <2> HIDE DEF Rest
  <2> QED
    BY <1>1, LeastOf
<1>3. k # 0 /\ k - 1 \in 0 .. n /\ k - 1 # n
  OBVIOUS
<1>4. k - 1 \in T
  BY <1>2, <1>3
<1> QED
  BY <1>3, <1>4

-----------------------------------------------------------------------------
(* Sums: how often a sequence of nodes frees the leaf of a position.         *)

\* Every node of the sequence tells how often it frees each position of K.
AreNodes(s, K) ==
    /\ s \in Seq(ToSet(s))
    /\ \A i \in 1 .. Len(s) : s[i].frees \in [K -> Nat]

\* The sum of the first i nodes, for every i.
Sums(s, k, f) ==
    /\ f[0] = 0
    /\ \A i \in 1 .. Len(s) : f[i] = f[i - 1] + s[i].frees[k]

\* Any such sums tell what Frees is.
LEMMA FreesIs ==
    ASSUME NEW s, Len(s) \in Nat, NEW k, NEW f, Sums(s, k, f)
    PROVE  Frees(s, k) = f[Len(s)]
<1> DEFINE Is(g) == g = [i \in 0 .. Len(s) |->
                            IF i = 0 THEN 0 ELSE g[i - 1] + s[i].frees[k]]
           f0 == [i \in 0 .. Len(s) |-> f[i]]
           g == CHOOSE g : Is(g)
<1>1. Is(f0)
  <2>1. ASSUME NEW i \in 0 .. Len(s)
        PROVE  f[i] = IF i = 0 THEN 0 ELSE f0[i - 1] + s[i].frees[k]
    <3>1. CASE i # 0
      <4>1. i - 1 \in 0 .. Len(s) /\ i \in 1 .. Len(s)
        BY <3>1
      <4> QED
        BY <3>1, <4>1 DEF Sums
    <3> QED
      BY <3>1 DEF Sums
  <2> QED
    BY <2>1
<1>2. Is(g)
  BY <1>1
<1>3. \A i \in 0 .. Len(s) : g[i] = IF i = 0 THEN 0 ELSE g[i - 1] + s[i].frees[k]
  BY <1>2
<1>4. Frees(s, k) = g[Len(s)]
  BY DEF Frees
<1> HIDE DEF g
<1> DEFINE T == {i \in 0 .. Len(s) : g[i] = f[i]}
<1>5. 0 \in T
  BY <1>3 DEF Sums
<1>6. ASSUME NEW i \in 0 .. Len(s), i # Len(s), i \in T PROVE i + 1 \in T
  <2>1. i + 1 \in 1 .. Len(s) /\ i + 1 \in 0 .. Len(s) /\ (i + 1) - 1 = i /\ i + 1 # 0
    BY <1>6
  <2>2. g[i] = f[i]
    BY <1>6
  <2>3. g[i + 1] = g[i] + s[i + 1].frees[k]
    BY <1>3, <2>1
  <2>4. f[i + 1] = f[i] + s[i + 1].frees[k]
    BY <2>1 DEF Sums
  <2> QED
    BY <2>1, <2>2, <2>3, <2>4
<1>7. Len(s) \in T
  <2> HIDE DEF T
  <2>1. \A i \in 0 .. Len(s) : i # Len(s) /\ i \in T => i + 1 \in T
    BY <1>6
  <2>2. Len(s) \in 0 .. Len(s)
    OBVIOUS
  <2> QED
    BY <1>5, <2>1, <2>2, StepByStep
<1> QED
  BY <1>4, <1>7

\* There are such sums.
LEMMA Summing ==
    ASSUME NEW K, NEW k \in K, NEW s, AreNodes(s, K)
    PROVE  /\ Len(s) \in Nat
           /\ \E f \in [0 .. Len(s) -> Nat] : Sums(s, k, f)
<1>1. Len(s) \in Nat
  BY LenProperties DEF AreNodes
<1>2. \A i \in 1 .. Len(s) : s[i].frees[k] \in Nat
  BY DEF AreNodes
<1> DEFINE T == {n \in 0 .. Len(s) : \E f \in [0 .. n -> Nat] :
                   f[0] = 0 /\ \A i \in 1 .. n : f[i] = f[i - 1] + s[i].frees[k]}
<1>3. 0 \in T
  <2> DEFINE f == [i \in 0 .. 0 |-> 0]
  <2>1. f \in [0 .. 0 -> Nat] /\ f[0] = 0
    OBVIOUS
  <2>2. \A i \in 1 .. 0 : f[i] = f[i - 1] + s[i].frees[k]
    OBVIOUS
  <2>3. 0 \in 0 .. Len(s)
    BY <1>1
  <2> HIDE DEF f
  <2> QED
    BY <2>1, <2>2, <2>3
<1>4. ASSUME NEW n \in 0 .. Len(s), n # Len(s), n \in T PROVE n + 1 \in T
  <2>1. PICK f \in [0 .. n -> Nat] :
            f[0] = 0 /\ \A i \in 1 .. n : f[i] = f[i - 1] + s[i].frees[k]
    BY <1>4
  <2>2. n + 1 \in 1 .. Len(s) /\ n + 1 \in 0 .. Len(s) /\ n \in Nat
    BY <1>1, <1>4
  <2> DEFINE g == [i \in 0 .. n + 1 |->
                     IF i = n + 1 THEN f[n] + s[n + 1].frees[k] ELSE f[i]]
  <2>3. s[n + 1].frees[k] \in Nat /\ f[n] \in Nat
    BY <1>2, <2>2
  <2>4. g \in [0 .. n + 1 -> Nat] /\ g[0] = 0
    BY <2>1, <2>2, <2>3
  <2>5. ASSUME NEW i \in 1 .. n + 1 PROVE g[i] = g[i - 1] + s[i].frees[k]
    <3>1. i \in 0 .. n + 1 /\ i - 1 \in 0 .. n + 1 /\ i - 1 # n + 1
      BY <2>2
    <3>2. g[i - 1] = f[i - 1]
      BY <3>1
    <3>3. CASE i = n + 1
      <4>1. i - 1 = n
        BY <2>2, <3>3
      <4> QED
        BY <3>1, <3>2, <3>3, <4>1
    <3>4. CASE i # n + 1
      <4>1. i \in 1 .. n
        BY <2>2, <3>4
      <4> QED
        BY <2>1, <3>1, <3>2, <3>4, <4>1
    <3> QED
      BY <3>3, <3>4
  <2> HIDE DEF g
  <2> QED
    BY <2>2, <2>4, <2>5
<1>5. Len(s) \in T
  <2> HIDE DEF T
  <2>1. \A n \in 0 .. Len(s) : n # Len(s) /\ n \in T => n + 1 \in T
    BY <1>4
  <2>2. Len(s) \in 0 .. Len(s)
    BY <1>1
  <2> QED
    BY <1>1, <1>3, <2>1, <2>2, StepByStep
<1> QED
  BY <1>1, <1>5 DEF Sums

\* Nodes by the set they are from, and the other way round.
LEMMA NodesFrom ==
    ASSUME NEW K, NEW S, NEW s \in Seq(S), \A i \in 1 .. Len(s) : s[i].frees \in [K -> Nat]
    PROVE  AreNodes(s, K)
<1>1. s \in Seq(Range(s))
  BY SeqOfRange
<1>2. Range(s) = ToSet(s)
  BY DEF Range, ToSet
<1> QED
  BY <1>1, <1>2 DEF AreNodes

LEMMA NodesHave ==
    ASSUME NEW K, NEW s, AreNodes(s, K)
    PROVE  /\ Len(s) \in Nat
           /\ DOMAIN s = 1 .. Len(s)
           /\ \A i \in 1 .. Len(s) : s[i] \in ToSet(s) /\ s[i].frees \in [K -> Nat]
BY LenProperties, ElementOfSeq DEF AreNodes

LEMMA FreesANumber ==
    ASSUME NEW K, NEW k \in K, NEW s, AreNodes(s, K)
    PROVE  Frees(s, k) \in Nat
<1>1. PICK f \in [0 .. Len(s) -> Nat] : Sums(s, k, f)
  BY Summing
<1>2. Len(s) \in Nat /\ Len(s) \in 0 .. Len(s)
  BY Summing
<1>3. Frees(s, k) = f[Len(s)]
  BY <1>1, <1>2, FreesIs
<1> QED
  BY <1>2, <1>3

\* A node more.
LEMMA FreesOneMore ==
    ASSUME NEW K, NEW s, AreNodes(s, K), NEW x, x.frees \in [K -> Nat]
    PROVE  /\ AreNodes(Append(s, x), K)
           /\ Len(Append(s, x)) = Len(s) + 1
           /\ Append(s, x)[Len(s) + 1] = x
           /\ \A i \in 1 .. Len(s) : Append(s, x)[i] = s[i]
           /\ \A k \in K : Frees(Append(s, x), k) = Frees(s, k) + x.frees[k]
<1> DEFINE S == ToSet(s) \cup {x}
           t == Append(s, x)
<1>1. Len(s) \in Nat /\ \A i \in 1 .. Len(s) : s[i].frees \in [K -> Nat]
  BY NodesHave
<1>2. s \in Seq(S) /\ x \in S
  BY SeqMonotonic DEF AreNodes
<1>3. /\ t \in Seq(S)
      /\ Len(t) = Len(s) + 1
      /\ t[Len(s) + 1] = x
      /\ \A i \in 1 .. Len(s) : t[i] = s[i]
  <2> HIDE DEF S
  <2> QED
    BY <1>2, AppendProperties
<1> HIDE DEF S, t
<1>4. ASSUME NEW i \in 1 .. Len(t) PROVE t[i].frees \in [K -> Nat]
  <2>1. i \in 1 .. Len(s) \/ i = Len(s) + 1
    BY <1>1, <1>3
  <2> QED
    BY <1>1, <1>3, <2>1
<1>5. AreNodes(t, K)
  BY <1>3, <1>4, NodesFrom
<1>6. ASSUME NEW k \in K PROVE Frees(t, k) = Frees(s, k) + x.frees[k]
  <2>1. PICK f \in [0 .. Len(s) -> Nat] : Sums(s, k, f)
    BY Summing
  <2>2. Frees(s, k) = f[Len(s)]
    BY <1>1, <2>1, FreesIs
  <2> DEFINE g == [i \in 0 .. Len(t) |-> IF i = Len(t) THEN f[Len(s)] + x.frees[k] ELSE f[i]]
  <2>3. g[0] = 0
    BY <1>1, <1>3, <2>1 DEF Sums
  <2>4. ASSUME NEW i \in 1 .. Len(t) PROVE g[i] = g[i - 1] + t[i].frees[k]
    <3>1. i \in 0 .. Len(t) /\ i - 1 \in 0 .. Len(t) /\ i - 1 # Len(t)
      BY <1>1, <1>3
    <3>2. g[i - 1] = f[i - 1]
      BY <3>1
    <3>3. CASE i = Len(t)
      <4>1. i - 1 = Len(s) /\ t[i] = x
        BY <1>1, <1>3, <3>3
      <4> QED
        BY <3>1, <3>2, <3>3, <4>1
    <3>4. CASE i # Len(t)
      <4>1. i \in 1 .. Len(s) /\ t[i] = s[i]
        BY <1>1, <1>3, <3>4
      <4> QED
        BY <2>1, <3>1, <3>2, <3>4, <4>1 DEF Sums
    <3> QED
      BY <3>3, <3>4
  <2>5. Sums(t, k, g)
    BY <2>3, <2>4 DEF Sums
  <2>6. Len(t) \in Nat /\ g[Len(t)] = f[Len(s)] + x.frees[k]
    BY <1>1, <1>3
  <2> HIDE DEF g
  <2> QED
    BY <2>2, <2>5, <2>6, FreesIs
<1> QED
  BY <1>3, <1>5, <1>6 DEF t

\* The first n nodes, and the others.
LEMMA FreesOfParts ==
    ASSUME NEW K, NEW s, AreNodes(s, K), NEW n \in 0 .. Len(s)
    PROVE  /\ AreNodes(SubSeq(s, 1, n), K)
           /\ Len(SubSeq(s, 1, n)) = n
           /\ \A i \in 1 .. n : SubSeq(s, 1, n)[i] = s[i]
           /\ AreNodes(SubSeq(s, n + 1, Len(s)), K)
           /\ Len(SubSeq(s, n + 1, Len(s))) = Len(s) - n
           /\ \A i \in 1 .. Len(s) - n : SubSeq(s, n + 1, Len(s))[i] = s[n + i]
           /\ \A k \in K : Frees(SubSeq(s, 1, n), k) + Frees(SubSeq(s, n + 1, Len(s)), k)
                              = Frees(s, k)
<1> DEFINE a == SubSeq(s, 1, n)
           b == SubSeq(s, n + 1, Len(s))
<1>1. Len(s) \in Nat /\ n \in Nat /\ n <= Len(s)
      /\ \A i \in 1 .. Len(s) : s[i] \in ToSet(s) /\ s[i].frees \in [K -> Nat]
  BY NodesHave
<1>2. a \in Seq(ToSet(s)) /\ Len(a) = n /\ \A i \in 1 .. n : a[i] = s[i]
  <2>1. \A i \in 1 .. n : s[i] \in ToSet(s)
    BY <1>1
  <2>2. /\ a \in Seq(ToSet(s))
        /\ Len(a) = IF 1 <= n THEN n - 1 + 1 ELSE 0
        /\ \A i \in 1 .. n - 1 + 1 : a[i] = s[1 + i - 1]
    BY <1>1, <2>1, SubSeqProperties
  <2>3. \A i \in 1 .. n : i \in 1 .. n - 1 + 1 /\ 1 + i - 1 = i
    BY <1>1
  <2> HIDE DEF a
  <2> QED
    BY <1>1, <2>2, <2>3
<1>3. b \in Seq(ToSet(s)) /\ Len(b) = Len(s) - n
      /\ \A i \in 1 .. Len(s) - n : b[i] = s[n + i]
  <2>1. \A i \in n + 1 .. Len(s) : s[i] \in ToSet(s)
    BY <1>1
  <2>2. /\ b \in Seq(ToSet(s))
        /\ Len(b) = IF n + 1 <= Len(s) THEN Len(s) - (n + 1) + 1 ELSE 0
        /\ \A i \in 1 .. Len(s) - (n + 1) + 1 : b[i] = s[(n + 1) + i - 1]
    BY <1>1, <2>1, SubSeqProperties
  <2>3. \A i \in 1 .. Len(s) - n : i \in 1 .. Len(s) - (n + 1) + 1 /\ (n + 1) + i - 1 = n + i
    BY <1>1
  <2> HIDE DEF b
  <2> QED
    BY <1>1, <2>2, <2>3
<1> HIDE DEF a, b
<1>4. AreNodes(a, K)
  <2>1. \A i \in 1 .. Len(a) : a[i].frees \in [K -> Nat]
    BY <1>1, <1>2
  <2> QED
    BY <1>2, <2>1, NodesFrom
<1>5. AreNodes(b, K)
  <2>1. ASSUME NEW i \in 1 .. Len(b) PROVE b[i].frees \in [K -> Nat]
    <3>1. n + i \in 1 .. Len(s) /\ b[i] = s[n + i]
      BY <1>1, <1>3
    <3> QED
      BY <1>1, <3>1
  <2> QED
    BY <1>3, <2>1, NodesFrom
<1>6. ASSUME NEW k \in K PROVE Frees(a, k) + Frees(b, k) = Frees(s, k)
  <2>1. PICK f \in [0 .. Len(s) -> Nat] : Sums(s, k, f)
    BY Summing
  <2>2. Frees(s, k) = f[Len(s)]
    BY <1>1, <2>1, FreesIs
  <2>3. Sums(a, k, f)
    BY <1>1, <1>2, <2>1 DEF Sums
  <2>4. Frees(a, k) = f[n]
    BY <1>1, <1>2, <2>3, FreesIs
  <2> DEFINE g == [i \in 0 .. Len(b) |-> f[n + i] - f[n]]
  <2>5. n + 0 = n /\ 0 \in 0 .. Len(b) /\ f[n] \in Nat
    BY <1>1, <1>3, <2>1
  <2>6. g[0] = 0
    BY <2>5
  <2>7. ASSUME NEW i \in 1 .. Len(b) PROVE g[i] = g[i - 1] + b[i].frees[k]
    <3>1. i \in 0 .. Len(b) /\ i - 1 \in 0 .. Len(b) /\ n + i \in 1 .. Len(s)
          /\ n + (i - 1) \in 0 .. Len(s) /\ (n + i) - 1 = n + (i - 1)
      BY <1>1, <1>3
    <3>2. f[n + i] = f[n + (i - 1)] + s[n + i].frees[k]
      BY <2>1, <3>1 DEF Sums
    <3>3. g[i] = f[n + i] - f[n] /\ g[i - 1] = f[n + (i - 1)] - f[n]
      BY <3>1
    <3>4. b[i].frees[k] = s[n + i].frees[k] /\ s[n + i].frees[k] \in Nat
      BY <1>1, <1>3, <3>1
    <3>5. f[n + (i - 1)] \in Nat /\ f[n + i] \in Nat
      BY <3>1
    <3> HIDE DEF g
    <3> QED
      BY <2>5, <3>2, <3>3, <3>4, <3>5
  <2>8. Sums(b, k, g)
    BY <2>6, <2>7 DEF Sums
  <2>9. Len(b) \in Nat /\ Len(b) \in 0 .. Len(b) /\ n + Len(b) = Len(s)
    BY <1>1, <1>3
  <2>10. g[Len(b)] = f[Len(s)] - f[n]
    BY <2>9
  <2>11. f[Len(s)] \in Nat
    BY <1>1
  <2> HIDE DEF g
  <2>12. Frees(b, k) = f[Len(s)] - f[n]
    BY <2>8, <2>9, <2>10, FreesIs
  <2> QED
    BY <2>2, <2>4, <2>5, <2>11, <2>12
<1> QED
  BY <1>2, <1>3, <1>4, <1>5, <1>6 DEF a, b

\* One of the nodes replaced by one that frees nothing.
LEMMA FreesBut ==
    ASSUME NEW K, NEW s, AreNodes(s, K), NEW j \in 1 .. Len(s),
           NEW z, z.frees \in [K -> Nat], \A k \in K : z.frees[k] = 0
    PROVE  /\ AreNodes([i \in DOMAIN s |-> IF i = j THEN z ELSE s[i]], K)
           /\ \A k \in K : Frees([i \in DOMAIN s |-> IF i = j THEN z ELSE s[i]], k)
                              + s[j].frees[k] = Frees(s, k)
<1> DEFINE t == [i \in DOMAIN s |-> IF i = j THEN z ELSE s[i]]
           S == ToSet(s) \cup {z}
<1>1. Len(s) \in Nat /\ DOMAIN s = 1 .. Len(s)
      /\ \A i \in 1 .. Len(s) : s[i] \in ToSet(s) /\ s[i].frees \in [K -> Nat]
  BY NodesHave
<1>2. t = [i \in 1 .. Len(s) |-> IF i = j THEN z ELSE s[i]]
  BY <1>1
<1>3. \A i \in 1 .. Len(s) : (IF i = j THEN z ELSE s[i]) \in S
  BY <1>1
<1>4. t \in Seq(S) /\ Len(t) = Len(s)
  <2>1. t \in [1 .. Len(s) -> S]
    BY <1>2, <1>3
  <2> HIDE DEF t, S
  <2> QED
    BY <1>1, <2>1
<1>5. \A i \in 1 .. Len(s) : t[i] = IF i = j THEN z ELSE s[i]
  BY <1>2
<1> HIDE DEF t, S
<1>6. AreNodes(t, K)
  <2>1. \A i \in 1 .. Len(t) : t[i].frees \in [K -> Nat]
    BY <1>1, <1>4, <1>5
  <2> QED
    BY <1>4, <2>1, NodesFrom
<1>7. ASSUME NEW k \in K PROVE Frees(t, k) + s[j].frees[k] = Frees(s, k)
  <2>1. PICK f \in [0 .. Len(s) -> Nat] : Sums(s, k, f)
    BY Summing
  <2>2. Frees(s, k) = f[Len(s)]
    BY <1>1, <2>1, FreesIs
  <2> DEFINE c == s[j].frees[k]
             g == [i \in 0 .. Len(s) |-> IF i < j THEN f[i] ELSE f[i] - c]
  <2>3. c \in Nat
    BY <1>1
  <2>4. g[0] = 0
    BY <1>1, <2>1 DEF Sums
  <2>5. ASSUME NEW i \in 1 .. Len(t) PROVE g[i] = g[i - 1] + t[i].frees[k]
    <3>1. i \in 0 .. Len(s) /\ i - 1 \in 0 .. Len(s) /\ i \in 1 .. Len(s)
      BY <1>1, <1>4
    <3>2. f[i] = f[i - 1] + s[i].frees[k] /\ f[i] \in Nat /\ f[i - 1] \in Nat
          /\ s[i].frees[k] \in Nat
      BY <1>1, <2>1, <3>1 DEF Sums
    <3>3. /\ g[i] = IF i < j THEN f[i] ELSE f[i] - c
          /\ g[i - 1] = IF i - 1 < j THEN f[i - 1] ELSE f[i - 1] - c
      BY <3>1
    <3>4. t[i] = IF i = j THEN z ELSE s[i]
      BY <1>5, <3>1
    <3> HIDE DEF g
    <3>5. CASE i = j
      <4>1. t[i].frees[k] = 0 /\ s[i].frees[k] = c /\ i - 1 < j /\ ~(i < j)
        BY <3>1, <3>4, <3>5
      <4> HIDE DEF c
      <4> QED
        BY <2>3, <3>2, <3>3, <4>1
    <3>6. CASE i < j
      <4>1. t[i].frees[k] = s[i].frees[k] /\ i - 1 < j
        BY <3>1, <3>4, <3>6
      <4> HIDE DEF c
      <4> QED
        BY <2>3, <3>2, <3>3, <3>6, <4>1
    <3>7. CASE i > j
      <4>1. t[i].frees[k] = s[i].frees[k] /\ ~(i < j) /\ ~(i - 1 < j)
        BY <3>1, <3>4, <3>7
      <4> HIDE DEF c
      <4> QED
        BY <2>3, <3>2, <3>3, <4>1
    <3> QED
      BY <3>1, <3>5, <3>6, <3>7
  <2>6. Sums(t, k, g)
    BY <2>4, <2>5 DEF Sums
  <2>7. Len(s) \in 0 .. Len(s) /\ ~(Len(s) < j) /\ f[Len(s)] \in Nat
    BY <1>1
  <2>8. g[Len(t)] = f[Len(s)] - c
    BY <1>4, <2>7
  <2> HIDE DEF g
  <2>9. Frees(t, k) = f[Len(s)] - c
    BY <1>1, <1>4, <2>6, <2>8, FreesIs
  <2> HIDE DEF c
  <2>10. Frees(t, k) + c = Frees(s, k)
    BY <2>2, <2>3, <2>7, <2>9
  <2> QED
    BY <2>10 DEF c
<1> QED
  BY <1>6, <1>7 DEF t

\* Nodes that free nothing.
LEMMA FreesNothing ==
    ASSUME NEW K, NEW s, AreNodes(s, K), NEW k \in K,
           \A i \in 1 .. Len(s) : s[i].frees[k] = 0
    PROVE  Frees(s, k) = 0
<1>1. Len(s) \in Nat
  BY NodesHave
<1> DEFINE f == [i \in 0 .. Len(s) |-> 0]
<1>2. f[0] = 0
  BY <1>1
<1>3. ASSUME NEW i \in 1 .. Len(s) PROVE f[i] = f[i - 1] + s[i].frees[k]
  <2>1. i \in 0 .. Len(s) /\ i - 1 \in 0 .. Len(s)
    BY <1>1
  <2> QED
    BY <2>1
<1>4. Sums(s, k, f) /\ f[Len(s)] = 0
  BY <1>1, <1>2, <1>3 DEF Sums
<1> HIDE DEF f
<1> QED
  BY <1>1, <1>4, FreesIs

\* Only one that does.
LEMMA FreesOnlyOne ==
    ASSUME NEW K, NEW s, AreNodes(s, K), NEW k \in K, NEW j \in 1 .. Len(s),
           \A i \in 1 .. Len(s) : i # j => s[i].frees[k] = 0
    PROVE  Frees(s, k) = s[j].frees[k]
<1> DEFINE z == [frees |-> [x \in K |-> 0]]
           t == [i \in DOMAIN s |-> IF i = j THEN z ELSE s[i]]
<1>1. z.frees \in [K -> Nat] /\ \A x \in K : z.frees[x] = 0
  OBVIOUS
<1>2. AreNodes(t, K) /\ Frees(t, k) + s[j].frees[k] = Frees(s, k)
  <2> HIDE DEF z
  <2>1. /\ AreNodes([i \in DOMAIN s |-> IF i = j THEN z ELSE s[i]], K)
        /\ \A x \in K : Frees([i \in DOMAIN s |-> IF i = j THEN z ELSE s[i]], x)
                           + s[j].frees[x] = Frees(s, x)
    BY <1>1, FreesBut
  <2> QED
    BY <2>1
<1>3. Len(s) \in Nat /\ DOMAIN s = 1 .. Len(s) /\ s[j].frees \in [K -> Nat]
  BY NodesHave
<1>4. DOMAIN t = 1 .. Len(s) /\ \A i \in 1 .. Len(s) : t[i].frees[k] = 0
  BY <1>1, <1>3
<1>5. Len(t) = Len(s)
  <2>1. DOMAIN t = 1 .. Len(t) /\ Len(t) \in Nat
    BY <1>2, NodesHave
  <2> HIDE DEF t
  <2>2. 1 .. Len(t) = 1 .. Len(s)
    BY <1>4, <2>1
  <2>3. \A m, n \in Nat : m < n => n \in 1 .. n /\ n \notin 1 .. m
    OBVIOUS
  <2>4. ~(Len(t) < Len(s)) /\ ~(Len(s) < Len(t))
    BY <1>3, <2>1, <2>2, <2>3, Zenon
  <2>5. Len(t) \in Nat /\ Len(s) \in Nat
    BY <1>3, <2>1
  <2> HIDE DEF t
  <2> QED
    BY <2>4, <2>5
<1> HIDE DEF t, z
<1>6. Frees(t, k) = 0
  BY <1>2, <1>4, <1>5, FreesNothing
<1> QED
  BY <1>2, <1>3, <1>6

-----------------------------------------------------------------------------
(* States: each has been reached from the one below it.                      *)

AreStates(tables, stack) ==
    /\ stack \in Seq(DOMAIN tables.actions)
    /\ stack # <<>> => stack[1] = 1
    /\ \A i \in 2 .. Len(stack) : LeadsTo(tables, stack[i - 1], stack[i])

\* A mark in a rule on top has come there from the rule's beginning below.
LEMMA MarkHasComeThere ==
    ASSUME NEW tables, NEW g, AreLR(tables, g), NEW stack, AreStates(tables, stack),
           stack # <<>>, NEW r, NEW m \in Nat, <<r, m>> \in tables.configs[stack[Len(stack)]]
    PROVE  m < Len(stack) /\ <<r, 0>> \in tables.configs[stack[Len(stack) - m]]
<1>1. Len(stack) \in Nat \ {0} /\ stack[1] = 1
  BY EmptySeq DEF AreStates
<1> DEFINE T == {j \in 0 .. m : /\ j < Len(stack)
                                /\ <<r, m - j>> \in tables.configs[stack[Len(stack) - j]]}
<1>2. 0 \in T
  <2>1. m - 0 = m /\ Len(stack) - 0 = Len(stack) /\ 0 < Len(stack) /\ 0 \in 0 .. m
    BY <1>1
  <2> QED
    BY <2>1
<1>3. ASSUME NEW j \in 0 .. m, j # m, j \in T PROVE j + 1 \in T
  <2>1. /\ j \in Nat /\ j < Len(stack) /\ m - j > 0
        /\ <<r, m - j>> \in tables.configs[stack[Len(stack) - j]]
    BY <1>3
  <2>2. Len(stack) - j # 1
    <3> SUFFICES ASSUME Len(stack) - j = 1 PROVE FALSE
      OBVIOUS
    <3>1. <<r, m - j>> \in tables.configs[1]
      BY <1>1, <2>1
    <3>2. <<r, m - j>>[2] = 0
      BY <3>1, Zenon DEF AreLR
    <3> QED
      BY <2>1, <3>2
  <2>3. Len(stack) - j \in 2 .. Len(stack) /\ (Len(stack) - j) - 1 = Len(stack) - (j + 1)
        /\ j + 1 < Len(stack) /\ j + 1 \in 0 .. m
    BY <1>1, <1>3, <2>1, <2>2
  <2>4. LeadsTo(tables, stack[(Len(stack) - j) - 1], stack[Len(stack) - j])
    BY <2>3 DEF AreStates
  <2>5. LeadsTo(tables, stack[Len(stack) - (j + 1)], stack[Len(stack) - j])
    BY <2>3, <2>4
  <2>6. <<r, m - j>>[2] > 0 =>
            <<<<r, m - j>>[1], <<r, m - j>>[2] - 1>>
                \in tables.configs[stack[Len(stack) - (j + 1)]]
    BY <2>1, <2>5, Zenon DEF LeadsTo
  <2>7. <<r, (m - j) - 1>> \in tables.configs[stack[Len(stack) - (j + 1)]]
    BY <2>1, <2>6
  <2>8. (m - j) - 1 = m - (j + 1)
    BY <2>1
  <2> QED
    BY <2>3, <2>7, <2>8
<1>4. m \in T
  <2> HIDE DEF T
  <2>1. \A j \in 0 .. m : j # m /\ j \in T => j + 1 \in T
    BY <1>3
  <2>2. m \in 0 .. m
    OBVIOUS
  <2> QED
    BY <1>2, <2>1, <2>2, StepByStep
<1>5. m < Len(stack) /\ <<r, m - m>> \in tables.configs[stack[Len(stack) - m]]
  BY <1>4
<1>6. m - m = 0
  OBVIOUS
<1> QED
  BY <1>5, <1>6

LEMMA StatesHave ==
    ASSUME NEW tables, NEW stack, AreStates(tables, stack)
    PROVE  /\ Len(stack) \in Nat
           /\ DOMAIN stack = 1 .. Len(stack)
           /\ stack # <<>> <=> Len(stack) > 0
           /\ \A i \in 1 .. Len(stack) : stack[i] \in DOMAIN tables.actions
<1>1. stack \in Seq(DOMAIN tables.actions)
  BY DEF AreStates
<1>2. Len(stack) \in Nat /\ DOMAIN stack = 1 .. Len(stack)
  BY <1>1, LenProperties
<1>3. stack # <<>> => Len(stack) > 0
  BY <1>1, <1>2, EmptySeq
<1>4. Len(<<>>) = 0
  BY EmptySeq
<1> QED
  BY <1>1, <1>2, <1>3, <1>4, ElementOfSeq

\* A state more, that the top leads to.
LEMMA StatePushed ==
    ASSUME NEW tables, NEW stack, AreStates(tables, stack), stack # <<>>,
           NEW t, LeadsTo(tables, stack[Len(stack)], t)
    PROVE  /\ AreStates(tables, Append(stack, t))
           /\ Append(stack, t) # <<>>
           /\ Len(Append(stack, t)) = Len(stack) + 1
<1>1. t \in DOMAIN tables.actions /\ stack \in Seq(DOMAIN tables.actions)
  BY DEF LeadsTo, AreStates
<1>2. Len(stack) \in Nat /\ Len(stack) > 0
  BY StatesHave
<1> DEFINE s == Append(stack, t)
<1>3. /\ s \in Seq(DOMAIN tables.actions)
      /\ s # <<>>
      /\ Len(s) = Len(stack) + 1
      /\ \A i \in 1 .. Len(stack) : s[i] = stack[i]
      /\ s[Len(stack) + 1] = t
  BY <1>1, AppendProperties
<1> HIDE DEF s
<1>4. s[1] = 1
  <2>1. 1 \in 1 .. Len(stack) /\ stack[1] = 1
    BY <1>2 DEF AreStates
  <2> QED
    BY <1>3, <2>1
<1>5. ASSUME NEW i \in 2 .. Len(s) PROVE LeadsTo(tables, s[i - 1], s[i])
  <2>1. i - 1 \in 1 .. Len(stack) /\ s[i - 1] = stack[i - 1]
    BY <1>2, <1>3
  <2>2. CASE i = Len(stack) + 1
    <3>1. i - 1 = Len(stack) /\ s[i] = t
      BY <1>2, <1>3, <2>2
    <3> QED
      BY <2>1, <3>1
  <2>3. CASE i # Len(stack) + 1
    <3>1. i \in 2 .. Len(stack) /\ s[i] = stack[i]
      BY <1>2, <1>3, <2>3
    <3> QED
      BY <2>1, <3>1 DEF AreStates
  <2> QED
    BY <2>2, <2>3
<1> QED
  BY <1>3, <1>4, <1>5 DEF AreStates, s

\* The first n states.
LEMMA StatesLeft ==
    ASSUME NEW tables, NEW stack, AreStates(tables, stack), NEW n \in 0 .. Len(stack)
    PROVE  /\ AreStates(tables, SubSeq(stack, 1, n))
           /\ Len(SubSeq(stack, 1, n)) = n
           /\ \A i \in 1 .. n : SubSeq(stack, 1, n)[i] = stack[i]
<1>1. Len(stack) \in Nat /\ n \in Nat /\ n <= Len(stack)
      /\ \A i \in 1 .. Len(stack) : stack[i] \in DOMAIN tables.actions
  BY StatesHave
<1> DEFINE s == SubSeq(stack, 1, n)
<1>2. s \in Seq(DOMAIN tables.actions) /\ Len(s) = n /\ \A i \in 1 .. n : s[i] = stack[i]
  <2>1. \A i \in 1 .. n : stack[i] \in DOMAIN tables.actions
    BY <1>1
  <2>2. /\ s \in Seq(DOMAIN tables.actions)
        /\ Len(s) = IF 1 <= n THEN n - 1 + 1 ELSE 0
        /\ \A i \in 1 .. n - 1 + 1 : s[i] = stack[1 + i - 1]
    <3> DEFINE A == DOMAIN tables.actions
    <3>1. \A i \in 1 .. n : stack[i] \in A
      BY <2>1
    <3> HIDE DEF A
    <3>2. /\ s \in Seq(A)
          /\ Len(s) = IF 1 <= n THEN n - 1 + 1 ELSE 0
          /\ \A i \in 1 .. n - 1 + 1 : s[i] = stack[1 + i - 1]
      BY <1>1, <3>1, SubSeqProperties
    <3> QED
      BY <3>2 DEF A
  <2>3. \A i \in 1 .. n : i \in 1 .. n - 1 + 1 /\ 1 + i - 1 = i
    BY <1>1
  <2> HIDE DEF s
  <2> QED
    BY <1>1, <2>2, <2>3
<1> HIDE DEF s
<1>3. s # <<>> => s[1] = 1
  <2> SUFFICES ASSUME s # <<>> PROVE s[1] = 1
    OBVIOUS
  <2>1. Len(s) \in Nat \ {0}
    BY <1>2, EmptySeq
  <2>2. 1 \in 1 .. n /\ Len(stack) > 0
    BY <1>1, <1>2, <2>1
  <2>3. stack # <<>>
    BY <2>2, StatesHave
  <2> QED
    BY <1>2, <2>2, <2>3 DEF AreStates
<1>4. ASSUME NEW i \in 2 .. Len(s) PROVE LeadsTo(tables, s[i - 1], s[i])
  <2>1. i \in 1 .. n /\ i - 1 \in 1 .. n /\ i \in 2 .. Len(stack)
    BY <1>1, <1>2
  <2>2. LeadsTo(tables, stack[i - 1], stack[i])
    BY <2>1 DEF AreStates
  <2> QED
    BY <1>2, <2>1, <2>2
<1> QED
  BY <1>2, <1>3, <1>4 DEF AreStates, s

\* Where a rule may be reduced its body is on the stack, over a state; and that
\* state leads on with the rule's head.
LEMMA BodyOnStack ==
    ASSUME NEW tables, NEW g, AreLR(tables, g), NEW stack, AreStates(tables, stack),
           stack # <<>>, NEW t \in TermNames(g),
           tables.actions[stack[Len(stack)]][t].type = "reduce",
           NEW r, r = tables.actions[stack[Len(stack)]][t].rule_num,
           Len(g.rules[r].body) \in Nat
    PROVE  /\ r \in DOMAIN g.rules \ {1}
           /\ Len(g.rules[r].body) < Len(stack)
           /\ LeadsTo(tables, stack[Len(stack) - Len(g.rules[r].body)],
                      tables.goto[stack[Len(stack) - Len(g.rules[r].body)]][g.rules[r].head])
<1>1. Len(stack) \in Nat /\ Len(stack) > 0
      /\ \A i \in 1 .. Len(stack) : stack[i] \in DOMAIN tables.actions
  BY StatesHave
<1>2. stack[Len(stack)] \in DOMAIN tables.actions
  BY <1>1
<1>3. /\ r \in DOMAIN g.rules \ {1}
      /\ <<r, Len(g.rules[r].body)>> \in tables.configs[stack[Len(stack)]]
  BY <1>2 DEF AreLR
<1> DEFINE n == Len(g.rules[r].body)
           s == stack[Len(stack) - n]
<1>4. n < Len(stack) /\ <<r, 0>> \in tables.configs[s]
  <2>1. n \in Nat /\ <<r, n>> \in tables.configs[stack[Len(stack)]]
    BY <1>3
  <2> HIDE DEF n
  <2> QED
    BY <2>1, MarkHasComeThere
<1>5. Len(stack) - n \in 1 .. Len(stack)
  <2>1. n \in Nat /\ Len(stack) \in Nat /\ n < Len(stack)
    BY <1>1, <1>4
  <2> HIDE DEF n
  <2> QED
    BY <2>1
<1>6. s \in DOMAIN tables.actions
  BY <1>1, <1>5
<1>7. LeadsTo(tables, s, tables.goto[s][g.rules[r].head])
  <2> HIDE DEF s
  <2> QED
    BY <1>3, <1>4, <1>6 DEF AreLR
<1> QED
  BY <1>3, <1>4, <1>7

\* The input is accepted on the start symbol over the first state.
LEMMA AcceptedOnTwo ==
    ASSUME NEW tables, NEW g, AreLR(tables, g), NEW stack, AreStates(tables, stack),
           stack # <<>>, NEW t \in TermNames(g),
           tables.actions[stack[Len(stack)]][t].type = "accept"
    PROVE  Len(stack) = 2
<1>1. Len(stack) \in Nat /\ Len(stack) > 0
      /\ \A i \in 1 .. Len(stack) : stack[i] \in DOMAIN tables.actions
  BY StatesHave
<1>2. stack[Len(stack)] \in DOMAIN tables.actions
  BY <1>1
<1>3. <<1, 1>> \in tables.configs[stack[Len(stack)]]
  BY <1>2 DEF AreLR
<1>4. 1 < Len(stack) /\ <<1, 0>> \in tables.configs[stack[Len(stack) - 1]]
  BY <1>3, MarkHasComeThere
<1>5. Len(stack) - 1 \in 1 .. Len(stack)
  BY <1>1, <1>4
<1>6. stack[Len(stack) - 1] = 1
  BY <1>1, <1>4, <1>5 DEF AreLR
<1>7. CASE Len(stack) # 2
  <2>1. Len(stack) - 1 \in 2 .. Len(stack)
    <3>1. Len(stack) \in Nat /\ 1 < Len(stack) /\ Len(stack) # 2
      BY <1>1, <1>4, <1>7
    <3>2. \A n \in Nat : 1 < n /\ n # 2 => n - 1 \in 2 .. n
      OBVIOUS
    <3> QED
      BY <3>1, <3>2, Zenon
  <2>2. LeadsTo(tables, stack[Len(stack) - 1 - 1], stack[Len(stack) - 1])
    BY <2>1 DEF AreStates
  <2>3. stack[Len(stack) - 1] # 1
    BY <2>2 DEF LeadsTo
  <2> QED
    BY <1>6, <2>3
<1> QED
  BY <1>7

-----------------------------------------------------------------------------
(* The nodes handlers and reductions make.                                   *)

\* A node alone, and the top node and those below it.
LEMMA FreesOfOne ==
    ASSUME NEW K, NEW x, x.frees \in [K -> Nat]
    PROVE  /\ AreNodes(<<x>>, K)
           /\ Len(<<x>>) = 1
           /\ \A k \in K : Frees(<<x>>, k) = x.frees[k]
<1>1. <<x>> \in Seq({x}) /\ Len(<<x>>) = 1 /\ <<x>>[1] = x
  OBVIOUS
<1>2. \A i \in 1 .. Len(<<x>>) : <<x>>[i].frees \in [K -> Nat]
  BY <1>1
<1>3. AreNodes(<<x>>, K)
  BY <1>1, <1>2, NodesFrom
<1>4. ASSUME NEW k \in K PROVE Frees(<<x>>, k) = x.frees[k]
  <2> DEFINE s == <<x>>
  <2>1. AreNodes(s, K) /\ Len(s) = 1 /\ s[1] = x
    BY <1>1, <1>3
  <2> HIDE DEF s
  <2>2. 1 \in 1 .. Len(s) /\ \A i \in 1 .. Len(s) : i # 1 => s[i].frees[k] = 0
    BY <2>1
  <2>3. Frees(s, k) = s[1].frees[k]
    BY <2>1, <2>2, FreesOnlyOne
  <2> QED
    BY <2>1, <2>3 DEF s
<1> QED
  BY <1>1, <1>3, <1>4

LEMMA FreesOfTop ==
    ASSUME NEW K, NEW s, AreNodes(s, K), Len(s) > 0, NEW k \in K
    PROVE  Frees(SubSeq(s, 1, Len(s) - 1), k) + Frees(<<s[Len(s)]>>, k) = Frees(s, k)
<1>1. Len(s) \in Nat /\ \A i \in 1 .. Len(s) : s[i].frees \in [K -> Nat]
  BY NodesHave
<1>2. Len(s) - 1 \in 0 .. Len(s) /\ (Len(s) - 1) + 1 = Len(s) /\ Len(s) - (Len(s) - 1) = 1
      /\ Len(s) \in 1 .. Len(s)
  BY <1>1
<1> DEFINE n == Len(s) - 1
           b == SubSeq(s, n + 1, Len(s))
<1>3. /\ AreNodes(b, K)
      /\ Len(b) = Len(s) - n
      /\ \A i \in 1 .. Len(s) - n : b[i] = s[n + i]
      /\ Frees(SubSeq(s, 1, n), k) + Frees(b, k) = Frees(s, k)
  <2>1. n \in 0 .. Len(s)
    BY <1>2
  <2> HIDE DEF n
  <2> QED
    BY <2>1, FreesOfParts
<1>4. Len(b) = 1 /\ b[1] = s[Len(s)]
  <2>1. Len(s) - n = 1 /\ n + 1 = Len(s) /\ 1 \in 1 .. 1
    BY <1>2
  <2> HIDE DEF n, b
  <2> QED
    BY <1>3, <2>1
<1> HIDE DEF b
<1>5. Frees(b, k) = b[1].frees[k]
  <2>1. 1 \in 1 .. Len(b) /\ \A i \in 1 .. Len(b) : i # 1 => b[i].frees[k] = 0
    BY <1>4
  <2>2. AreNodes(b, K)
    BY <1>3
  <2> HIDE DEF n
  <2> QED
    BY <1>4, <2>1, <2>2, FreesOnlyOne
<1>6. Frees(<<s[Len(s)]>>, k) = s[Len(s)].frees[k]
  BY <1>1, <1>2, FreesOfOne
<1> QED
  BY <1>3, <1>4, <1>5, <1>6

LEMMA FreesOfNone ==
    ASSUME NEW K
    PROVE  AreNodes(<<>>, K) /\ \A k \in K : Frees(<<>>, k) = 0
<1>1. Len(<<>>) = 0 /\ <<>> \in Seq({})
  BY EmptySeq
<1>2. \A i \in 1 .. Len(<<>>) : <<>>[i].frees \in [K -> Nat]
  BY <1>1
<1>3. AreNodes(<<>>, K)
  BY <1>1, <1>2, NodesFrom
<1>4. \A k \in K : \A i \in 1 .. Len(<<>>) : <<>>[i].frees[k] = 0
  BY <1>1
<1> QED
  BY <1>3, <1>4, FreesNothing

LEMMA NullFrees ==
    NullNode.frees \in [Positions -> Nat] /\ \A k \in Positions : NullNode.frees[k] = 0
BY DEF NullNode, NothingFreed

LEMMA LeafFrees ==
    ASSUME NEW p \in Positions
    PROVE  /\ Leaf(p).frees \in [Positions -> Nat]
           /\ \A k \in Positions : Leaf(p).frees[k] = IF k = p THEN 1 ELSE 0
BY DEF Leaf

\* What rule_f makes of its children frees what they free.
LEMMA RuleNodeFrees ==
    ASSUME NEW n, NEW s, AreNodes(s, Positions)
    PROVE  /\ RuleNode(n, s).frees \in [Positions -> Nat]
           /\ \A k \in Positions : RuleNode(n, s).frees[k] = Frees(s, k)
<1> DEFINE IsNode(node) == node # NullNode
           real == {i \in DOMAIN s : IsNode(s[i])}
<1>1. Len(s) \in Nat /\ DOMAIN s = 1 .. Len(s)
      /\ \A i \in 1 .. Len(s) : s[i].frees \in [Positions -> Nat]
  BY NodesHave
<1>2. CASE real = {}
  <2>1. RuleNode(n, s) = NullNode
    BY <1>2 DEF RuleNode
  <2>2. \A i \in 1 .. Len(s) : s[i] = NullNode
    BY <1>1, <1>2
  <2>3. \A k \in Positions : \A i \in 1 .. Len(s) : s[i].frees[k] = 0
    BY <2>2, NullFrees
  <2>4. \A k \in Positions : Frees(s, k) = 0
    BY <2>3, FreesNothing
  <2> QED
    BY <2>1, <2>4, NullFrees
<1>3. CASE real # {} /\ \E i \in real : real = {i}
  <2>1. PICK i \in real : real = {i}
    BY <1>3
  <2>2. (CHOOSE j \in real : TRUE) = i
    <3> HIDE DEF real
    <3> QED
      BY <2>1
  <2>3. RuleNode(n, s) = s[CHOOSE j \in real : TRUE]
    BY <1>3 DEF RuleNode
  <2>4. RuleNode(n, s) = s[i]
    BY <2>2, <2>3
  <2>5. i \in 1 .. Len(s) /\ \A j \in 1 .. Len(s) : j # i => s[j] = NullNode
    BY <1>1, <2>1
  <2>6. \A k \in Positions : \A j \in 1 .. Len(s) : j # i => s[j].frees[k] = 0
    BY <2>5, NullFrees
  <2>7. \A k \in Positions : Frees(s, k) = s[i].frees[k]
    BY <2>5, <2>6, FreesOnlyOne
  <2> QED
    BY <1>1, <2>4, <2>5, <2>7
<1>4. CASE real # {} /\ ~\E i \in real : real = {i}
  <2>1. RuleNode(n, s).frees = [k \in Positions |-> Frees(s, k)]
    BY <1>4 DEF RuleNode
  <2>2. \A k \in Positions : Frees(s, k) \in Nat
    BY FreesANumber
  <2> QED
    BY <2>1, <2>2
<1> QED
  BY <1>2, <1>3, <1>4

\* What a rule without a handler returns and what it frees are what there was.
LEMMA AutoNodeFrees ==
    ASSUME NEW s, AreNodes(s, Positions), NEW j
    PROVE  /\ AutoNode(s, j).frees \in [Positions -> Nat]
           /\ \A k \in Positions :
                 /\ Frees([i \in DOMAIN s |-> IF i = j THEN NullNode ELSE s[i]], k) \in Nat
                 /\ Frees([i \in DOMAIN s |-> IF i = j THEN NullNode ELSE s[i]], k)
                        + AutoNode(s, j).frees[k] = Frees(s, k)
<1>1. Len(s) \in Nat /\ DOMAIN s = 1 .. Len(s)
      /\ \A i \in 1 .. Len(s) : s[i].frees \in [Positions -> Nat]
  BY NodesHave
<1>2. CASE j \in DOMAIN s
  <2>1. AutoNode(s, j) = s[j] /\ j \in 1 .. Len(s)
    BY <1>1, <1>2 DEF AutoNode
  <2> DEFINE t == [i \in DOMAIN s |-> IF i = j THEN NullNode ELSE s[i]]
  <2>2. /\ AreNodes([i \in DOMAIN s |-> IF i = j THEN NullNode ELSE s[i]], Positions)
        /\ \A k \in Positions :
              Frees([i \in DOMAIN s |-> IF i = j THEN NullNode ELSE s[i]], k)
                  + s[j].frees[k] = Frees(s, k)
    <3> DEFINE z == NullNode
               K == Positions
    <3>1. z.frees \in [K -> Nat] /\ \A k \in K : z.frees[k] = 0
      BY NullFrees
    <3>2. j \in 1 .. Len(s) /\ AreNodes(s, K)
      BY <2>1
    <3> HIDE DEF z, K
    <3>3. /\ AreNodes([i \in DOMAIN s |-> IF i = j THEN z ELSE s[i]], K)
          /\ \A k \in K :
                Frees([i \in DOMAIN s |-> IF i = j THEN z ELSE s[i]], k)
                    + s[j].frees[k] = Frees(s, k)
      BY <3>1, <3>2, FreesBut
    <3> QED
      BY <3>3 DEF z, K
  <2>3. AreNodes(t, Positions)
    BY <2>2
  <2>4. \A k \in Positions : Frees(t, k) \in Nat
    <3> HIDE DEF t
    <3> QED
      BY <2>3, FreesANumber
  <2> QED
    BY <1>1, <2>1, <2>2, <2>4
<1>3. CASE j \notin DOMAIN s
  <2>1. AutoNode(s, j) = NullNode
    BY <1>3 DEF AutoNode
  <2>2. s \in Seq(ToSet(s))
    BY DEF AreNodes
  <2>3. s \in [1 .. Len(s) -> ToSet(s)]
    BY <2>2, LenProperties
  <2>4. s = [i \in DOMAIN s |-> s[i]]
    BY <2>3
  <2>5. [i \in DOMAIN s |-> IF i = j THEN NullNode ELSE s[i]] = s
    BY <1>3, <2>4
  <2>6. \A k \in Positions : Frees(s, k) \in Nat
    BY FreesANumber
  <2>7. \A k \in Positions : Frees(s, k) + NullNode.frees[k] = Frees(s, k)
    BY <2>6, NullFrees
  <2> QED
    BY <2>1, <2>5, <2>6, <2>7, NullFrees
<1> QED
  BY <1>2, <1>3

-----------------------------------------------------------------------------
(* The inductive invariant.                                                  *)

\* The state stack is a path through the tables, over the first state, and over
\* that there is no node.
StacksOK ==
    /\ AreStates(Tables[psr], state_stack)
    /\ AreNodes(node_stack, Positions)
    /\ node_stack # <<>> => node_stack[1] = NullNode
    /\ freed \in [Positions -> Nat]

\* What there is of an input, and when it has been read or accepted.
InputOK ==
    /\ Len(input) <= MaxTokens
    /\ Len(input) = MaxTokens => Ended
    /\ input # <<>> => made \subseteq 1 .. Len(input)
    /\ input = <<>> => \A k \in Positions : Frees(node_stack, k) = 0
    /\ pc # "idle" => /\ input # <<>>
                      /\ Len(input) \notin made
                      /\ status = "yes"
                      /\ ~is_accepted
    /\ pc = "act" => state_stack # <<>>
    /\ is_accepted => /\ status = "yes"
                      /\ Len(state_stack) = 2

IInv ==
    /\ TypeOK
    /\ StacksOK
    /\ NodesFreedOnce
    /\ InputOK

\* What the assumption says of the parser at hand.
LEMMA OfTheParser ==
    ASSUME TypeOK
    PROVE  /\ AreLR(Tables[psr], Parsers[psr].grammar)
           /\ {EOI, Error} \subseteq TermNames(Parsers[psr].grammar)
           /\ Parsers[psr].tokens \subseteq {t.val : t \in ToSet(Parsers[psr].grammar.terms)}
           /\ MaxTokens \in Nat \ {0}
           /\ \A n \in DOMAIN Parsers[psr].grammar.rules :
                 Len(Parsers[psr].grammar.rules[n].body) \in Nat
           /\ RepairMaxValidShift \in Nat \ {0}
BY ParserAssumption DEF TypeOK

\* A value of the lexer's is a term's.
LEMMA TokenIsTerm ==
    ASSUME TypeOK, input # <<>>
    PROVE  Token \in TermNames(Parsers[psr].grammar)
<1> DEFINE terms == ToSet(Parsers[psr].grammar.terms)
           val == Last(input)
           bucket == {t \in terms : t.val % TermBucketSize = val % TermBucketSize}
<1>1. val \in Parsers[psr].tokens
  <2>1. Len(input) \in Nat \ {0} /\ input \in Seq(Parsers[psr].tokens)
    BY EmptySeq DEF TypeOK
  <2>2. Len(input) \in 1 .. Len(input)
    BY <2>1
  <2> QED
    BY <2>1, <2>2, ElementOfSeq DEF Last
<1>2. PICK t \in terms : t.val = val
  BY <1>1, OfTheParser
<1>3. t \in bucket
  BY <1>2
<1>4. (CHOOSE x \in bucket : TRUE) \in bucket
  BY <1>3
<1>5. (CHOOSE x \in bucket : x.val = val) \in bucket
  BY <1>2, <1>3
<1>6. Token = IF Cardinality(bucket) = 1 THEN (CHOOSE x \in bucket : TRUE).name
              ELSE (CHOOSE x \in bucket : x.val = val).name
  BY DEF Token, FindTermFromInfoTable
<1>7. \A x \in bucket : x.name \in TermNames(Parsers[psr].grammar)
  BY DEF TermNames
<1> HIDE DEF bucket
<1> QED
  BY <1>4, <1>5, <1>6, <1>7

\* The length of an input that is there, and where its tokens stand.
LEMMA InputHas ==
    ASSUME TypeOK, InputOK
    PROVE  /\ Len(input) \in Nat
           /\ Len(input) \in 0 .. MaxTokens
           /\ Positions = 1 .. MaxTokens
           /\ input # <<>> => Len(input) \in Positions
<1>1. Len(input) \in Nat
  BY LenProperties DEF TypeOK
<1>2. input # <<>> => Len(input) \in Nat \ {0}
  BY EmptySeq DEF TypeOK
<1>3. MaxTokens \in Nat \ {0}
  BY OfTheParser
<1> QED
  BY <1>1, <1>2, <1>3 DEF InputOK, Positions

LEMMA EqualHeight ==
    ASSUME StacksOK, NodesFreedOnce, pc # "idle" \/ status # "failed"
    PROVE  Len(state_stack) = Len(node_stack)
<1>1. Len(state_stack) \in Nat /\ Len(node_stack) \in Nat
  BY StatesHave, NodesHave DEF StacksOK
<1>2. Len(state_stack) - Len(node_stack) = 0
  BY DEF NodesFreedOnce
<1> QED
  BY <1>1, <1>2

\* What is left of a stack that more than c are not taken from.
LEMMA LeftOver ==
    ASSUME NEW L \in Nat, NEW c \in Nat, c < L
    PROVE  /\ L - c \in Nat
           /\ L - c \in 1 .. L
           /\ L - c \in 0 .. L
           /\ L - c \in 1 .. (L - c)
           /\ 1 \in 1 .. (L - c)
           /\ L - c > 0
OBVIOUS

LEMMA SameParser ==
    ASSUME psr' = psr
    PROVE  Positions' = Positions /\ NullNode' = NullNode /\ NothingFreed' = NothingFreed
BY DEF Positions, NullNode, NothingFreed

LEMMA StackStates ==
    ASSUME StacksOK
    PROVE  \A k \in DOMAIN state_stack : state_stack[k] \in DOMAIN Tables[psr].actions
BY StatesHave DEF StacksOK

LEMMA RepairCounted ==
    ASSUME TypeOK, CountRepair
    PROVE  is_repair' \in BOOLEAN /\ repair_valid_shift' \in 0 .. RepairMaxValidShift - 1
<1>1. RepairMaxValidShift \in Nat \ {0}
  BY OfTheParser
<1>2. is_repair \in BOOLEAN /\ repair_valid_shift \in 0 .. RepairMaxValidShift - 1
  BY DEF TypeOK
<1>3. CASE ~is_repair
  BY <1>2, <1>3 DEF CountRepair, repair
<1>4. CASE is_repair /\ repair_valid_shift + 1 >= RepairMaxValidShift
  <2>1. RecoverDone
    BY <1>4, Zenon DEF CountRepair
  <2>2. is_repair' = FALSE /\ repair_valid_shift' = 0
    BY <2>1 DEF RecoverDone
  <2>3. \A R \in Nat \ {0} : 0 \in 0 .. R - 1
    OBVIOUS
  <2>4. 0 \in 0 .. RepairMaxValidShift - 1
    BY <1>1, <2>3
  <2> QED
    BY <2>2, <2>4
<1>5. CASE is_repair /\ ~(repair_valid_shift + 1 >= RepairMaxValidShift)
  BY <1>1, <1>2, <1>5 DEF CountRepair
<1> QED
  BY <1>3, <1>4, <1>5

-----------------------------------------------------------------------------
(* Shifts and reductions.                                                    *)

LEMMA ShiftKeeps ==
    ASSUME IInv, Shift
    PROVE  IInv'
<1> DEFINE tables == Tables[psr]
           top == state_stack[Len(state_stack)]
           action == tables.actions[top][Token]
<1>1. /\ pc = "act" /\ input # <<>> /\ state_stack # <<>> /\ status = "yes" /\ ~is_accepted
      /\ Len(input) \notin made
  BY DEF Shift, IInv, InputOK
<1>2. Token \in TermNames(Parsers[psr].grammar) /\ AreLR(tables, Parsers[psr].grammar)
  BY <1>1, TokenIsTerm, OfTheParser DEF IInv
<1>3. action.type = "shift" /\ HandleShift(action)
  BY DEF Shift, GetAction, Top, Last
<1>4. AreStates(tables, state_stack) /\ AreNodes(node_stack, Positions)
  BY DEF IInv, StacksOK
<1>5. Len(state_stack) \in Nat /\ Len(state_stack) > 0 /\ top \in DOMAIN tables.actions
  <2>1. Len(state_stack) \in Nat /\ Len(state_stack) > 0
    BY <1>1, <1>4, StatesHave
  <2>2. Len(state_stack) \in 1 .. Len(state_stack)
    BY <2>1
  <2> QED
    BY <1>4, <2>1, <2>2, StatesHave
<1>6. LeadsTo(tables, top, action.to)
  BY <1>2, <1>3, <1>5 DEF AreLR
<1>7. /\ psr' = psr /\ is_accepted' = is_accepted /\ handled' = handled
      /\ input' = input /\ freed' = freed /\ erred' = erred
      /\ state_stack' = Append(state_stack, action.to)
      /\ pc' = "idle"
  BY <1>3 DEF HandleShift, Return
<1>8. /\ AreStates(tables, state_stack')
      /\ Len(state_stack') = Len(state_stack) + 1
  <2> HIDE DEF tables, action
  <2> QED
    BY <1>1, <1>4, <1>6, <1>7, StatePushed
<1>9. Len(node_stack) \in Nat /\ Len(node_stack) = Len(state_stack)
  BY <1>1, <1>5, EqualHeight DEF IInv
<1>10. Positions' = Positions /\ NullNode' = NullNode
  BY <1>7, SameParser
<1>11. Len(input) \in Positions /\ Positions = 1 .. MaxTokens /\ Len(input) \in Nat
  BY <1>1, InputHas DEF IInv
<1>12. CASE /\ node_stack' = Append(node_stack, Leaf(Len(input)))
            /\ made' = made \cup {Len(input)}
            /\ CountRepair
            /\ status' = "yes"
  <2> DEFINE leaf == Leaf(Len(input))
  <2>1. /\ leaf.frees \in [Positions -> Nat]
        /\ \A k \in Positions : leaf.frees[k] = IF k = Len(input) THEN 1 ELSE 0
    BY <1>11, LeafFrees
  <2>2. /\ AreNodes(node_stack', Positions)
        /\ Len(node_stack') = Len(node_stack) + 1
        /\ \A i \in 1 .. Len(node_stack) : node_stack'[i] = node_stack[i]
        /\ \A k \in Positions : Frees(node_stack', k) = Frees(node_stack, k) + leaf.frees[k]
    <3>1. node_stack' = Append(node_stack, leaf)
      BY <1>12
    <3> HIDE DEF leaf
    <3> QED
      BY <1>4, <2>1, <3>1, FreesOneMore
  <2>3. node_stack'[1] = NullNode
    <3>1. 1 \in 1 .. Len(node_stack)
      BY <1>5, <1>9
    <3>2. node_stack # <<>>
      BY <1>5, <1>9, EmptySeq
    <3> QED
      BY <2>2, <3>1, <3>2 DEF IInv, StacksOK
  <2>4. StacksOK'
    BY <1>7, <1>8, <1>10, <2>2, <2>3 DEF IInv, StacksOK
  <2>5. ASSUME NEW k \in Positions
        PROVE  freed[k] + Frees(node_stack', k) = IF k \in made' THEN 1 ELSE 0
    <3>1. freed[k] + Frees(node_stack, k) = IF k \in made THEN 1 ELSE 0
      BY DEF IInv, NodesFreedOnce
    <3>2. freed[k] \in Nat /\ Frees(node_stack, k) \in Nat
      BY <1>4, FreesANumber DEF IInv, StacksOK
    <3>3. Frees(node_stack', k) = Frees(node_stack, k) + (IF k = Len(input) THEN 1 ELSE 0)
      BY <2>1, <2>2
    <3> QED
      BY <1>1, <1>12, <3>1, <3>2, <3>3
  <2>6. Len(state_stack') - Len(node_stack') = 0
    BY <1>5, <1>8, <1>9, <2>2
  <2>7. NodesFreedOnce'
    BY <1>7, <1>10, <2>5, <2>6 DEF NodesFreedOnce
  <2>8. InputOK'
    BY <1>1, <1>7, <1>11, <1>12 DEF IInv, InputOK, Ended
  <2>9. TypeOK'
    <3>1. made' \subseteq Positions
      BY <1>11, <1>12 DEF IInv, TypeOK
    <3>2. is_repair' \in BOOLEAN /\ repair_valid_shift' \in 0 .. RepairMaxValidShift - 1
      BY <1>12, RepairCounted DEF IInv
    <3>3. (\A k \in DOMAIN state_stack : state_stack[k] \in DOMAIN Tables[psr].actions)'
      BY <2>4, StackStates, PTL
    <3> QED
      BY <1>7, <1>10, <1>12, <3>1, <3>2, <3>3 DEF IInv, TypeOK
  <2> QED
    BY <2>4, <2>7, <2>8, <2>9 DEF IInv
<1>13. CASE /\ UNCHANGED <<node_stack, made, repair>>
            /\ status' = "failed"
  <2>1. StacksOK'
    BY <1>7, <1>8, <1>10, <1>13 DEF IInv, StacksOK
  <2>2. NodesFreedOnce'
    <3>1. Len(state_stack') - Len(node_stack') = 1
      BY <1>5, <1>8, <1>9, <1>13
    <3> QED
      BY <1>7, <1>10, <1>13, <3>1 DEF IInv, NodesFreedOnce
  <2>3. InputOK'
    BY <1>1, <1>7, <1>10, <1>13 DEF IInv, InputOK, Ended
  <2>4. TypeOK'
    <3>1. (\A k \in DOMAIN state_stack : state_stack[k] \in DOMAIN Tables[psr].actions)'
      BY <2>1, StackStates, PTL
    <3> QED
      BY <1>7, <1>10, <1>13, <3>1 DEF IInv, TypeOK, repair
  <2> QED
    BY <2>1, <2>2, <2>3, <2>4 DEF IInv
<1> QED
  BY <1>3, <1>12, <1>13 DEF HandleShift, Return

\* The nodes a reduction takes, those it leaves, and what it puts in their place.
LEMMA ReductionKeeps ==
    ASSUME IInv, pc # "idle", state_stack # <<>>,
           NEW t \in TermNames(Parsers[psr].grammar),
           GetAction(Top(state_stack), t).type = "reduce",
           HandleReduce(GetAction(Top(state_stack), t))
    PROVE  IInv'
<1> DEFINE tables == Tables[psr]
           g == Parsers[psr].grammar
           top == state_stack[Len(state_stack)]
           r == tables.actions[top][t].rule_num
           count == Len(g.rules[r].body)
           auto_ret == Parsers[psr].auto_ret[r]
           n == Len(state_stack) - count
           below == SubSeq(state_stack, 1, n)
           rest == SubSeq(node_stack, 1, n)
           nodes == SubSeq(node_stack, n + 1, Len(node_stack))
           to == tables.goto[state_stack[n]][g.rules[r].head]
<1>1. GetAction(Top(state_stack), t) = tables.actions[top][t]
  BY DEF GetAction, Top, Last
<1>2. tables.actions[top][t].type = "reduce" /\ HandleReduce(tables.actions[top][t])
  BY <1>1
<1>3. AreLR(tables, g) /\ \A m \in DOMAIN g.rules : Len(g.rules[m].body) \in Nat
  BY OfTheParser DEF IInv
<1>4. AreStates(tables, state_stack) /\ AreNodes(node_stack, Positions)
  BY DEF IInv, StacksOK
<1>5. Len(state_stack) \in Nat /\ Len(state_stack) > 0 /\ top \in DOMAIN tables.actions
  <2>1. Len(state_stack) \in Nat /\ Len(state_stack) > 0
    BY <1>4, StatesHave
  <2>2. Len(state_stack) \in 1 .. Len(state_stack)
    BY <2>1
  <2> QED
    BY <1>4, <2>1, <2>2, StatesHave
<1>6. count \in Nat
  <2>1. r \in DOMAIN g.rules
    BY <1>2, <1>3, <1>5 DEF AreLR
  <2> QED
    BY <1>3, <2>1
<1>7. count < Len(state_stack) /\ LeadsTo(tables, state_stack[n], to)
  <2>1. r = tables.actions[state_stack[Len(state_stack)]][t].rule_num
    OBVIOUS
  <2>2. tables.actions[state_stack[Len(state_stack)]][t].type = "reduce"
    BY <1>2
  <2>3. Len(g.rules[r].body) \in Nat /\ t \in TermNames(g) /\ state_stack # <<>>
    BY <1>6
  <2> HIDE DEF tables, g, r
  <2>4. /\ Len(g.rules[r].body) < Len(state_stack)
        /\ LeadsTo(tables, state_stack[Len(state_stack) - Len(g.rules[r].body)],
                   tables.goto[state_stack[Len(state_stack) - Len(g.rules[r].body)]][g.rules[r].head])
    BY <1>3, <1>4, <2>1, <2>2, <2>3, BodyOnStack
  <2> QED
    BY <2>4
<1>8. /\ n \in Nat /\ n \in 1 .. Len(state_stack) /\ n \in 0 .. Len(state_stack)
      /\ n \in 1 .. n /\ 1 \in 1 .. n /\ n > 0
  <2> HIDE DEF count
  <2> QED
    BY <1>5, <1>6, <1>7, LeftOver
<1>9. Len(node_stack) = Len(state_stack)
  BY EqualHeight DEF IInv
<1>10. /\ AreStates(tables, below)
       /\ Len(below) = n
       /\ below[n] = state_stack[n]
  <2> HIDE DEF n, tables
  <2> QED
    BY <1>4, <1>8, StatesLeft
<1>11. below # <<>>
  <2> HIDE DEF n, tables, below
  <2> QED
    BY <1>8, <1>10, StatesHave
<1>12. /\ AreStates(tables, Append(below, to))
       /\ Len(Append(below, to)) = n + 1
  <2>1. LeadsTo(tables, below[Len(below)], to)
    BY <1>7, <1>10
  <2> HIDE DEF n, tables, below, to
  <2> QED
    BY <1>10, <1>11, <2>1, StatePushed
<1>13. /\ AreNodes(rest, Positions)
       /\ Len(rest) = n
       /\ \A i \in 1 .. n : rest[i] = node_stack[i]
       /\ AreNodes(nodes, Positions)
       /\ \A k \in Positions : Frees(rest, k) + Frees(nodes, k) = Frees(node_stack, k)
  <2>1. n \in 0 .. Len(node_stack)
    BY <1>8, <1>9
  <2> HIDE DEF n
  <2> QED
    BY <1>4, <2>1, FreesOfParts
<1>14. /\ psr' = psr /\ is_accepted' = is_accepted /\ handled' = handled
       /\ input' = input /\ made' = made /\ erred' = erred
  BY <1>2 DEF HandleReduce
<1>15. Positions' = Positions /\ NullNode' = NullNode
  BY <1>14, SameParser
<1>16. /\ input # <<>> /\ Len(input) \notin made /\ status = "yes" /\ ~is_accepted
  BY DEF IInv, InputOK
<1>17. ASSUME NEW node, node.frees \in [Positions -> Nat],
              freed' \in [Positions -> Nat],
              \A k \in Positions : freed'[k] + node.frees[k] = freed[k] + Frees(nodes, k),
              state_stack' = Append(below, to),
              node_stack' = Append(rest, node),
              CountRepair,
              UNCHANGED <<pc, status>>
       PROVE  IInv'
  <2>1. /\ AreNodes(node_stack', Positions)
        /\ Len(node_stack') = n + 1
        /\ \A i \in 1 .. n : node_stack'[i] = rest[i]
        /\ \A k \in Positions : Frees(node_stack', k) = Frees(rest, k) + node.frees[k]
    <3> DEFINE K == Positions
    <3>1. AreNodes(rest, K) /\ node.frees \in [K -> Nat] /\ Len(rest) = n
          /\ node_stack' = Append(rest, node)
      BY <1>13, <1>17
    <3> HIDE DEF rest, n, K
    <3>2. /\ AreNodes(node_stack', K)
          /\ Len(node_stack') = n + 1
          /\ \A i \in 1 .. n : node_stack'[i] = rest[i]
          /\ \A k \in K : Frees(node_stack', k) = Frees(rest, k) + node.frees[k]
      BY <3>1, FreesOneMore
    <3> QED
      BY <3>2 DEF K
  <2>2. node_stack'[1] = NullNode
    <3>2. node_stack # <<>>
      BY <1>5, <1>9, EmptySeq
    <3> HIDE DEF n, rest
    <3>3. node_stack'[1] = node_stack[1]
      BY <1>8, <1>13, <2>1
    <3> QED
      BY <3>2, <3>3 DEF IInv, StacksOK
  <2>3. StacksOK'
    <3>1. AreStates(Tables[psr], state_stack')
      BY <1>12, <1>17
    <3> QED
      BY <1>14, <1>15, <1>17, <2>1, <2>2, <3>1 DEF StacksOK
  <2>4. ASSUME NEW k \in Positions
        PROVE  freed'[k] + Frees(node_stack', k) = IF k \in made THEN 1 ELSE 0
    <3>1. freed[k] + Frees(node_stack, k) = IF k \in made THEN 1 ELSE 0
      BY DEF IInv, NodesFreedOnce
    <3>2. /\ freed'[k] \in Nat /\ node.frees[k] \in Nat /\ freed[k] \in Nat
          /\ Frees(nodes, k) \in Nat /\ Frees(rest, k) \in Nat /\ Frees(node_stack, k) \in Nat
      BY <1>4, <1>13, <1>17, FreesANumber DEF IInv, StacksOK
    <3>3. /\ freed'[k] + node.frees[k] = freed[k] + Frees(nodes, k)
          /\ Frees(rest, k) + Frees(nodes, k) = Frees(node_stack, k)
          /\ Frees(node_stack', k) = Frees(rest, k) + node.frees[k]
      BY <1>13, <1>17, <2>1
    <3> HIDE DEF nodes, rest
    <3> QED
      BY <3>1, <3>2, <3>3
  <2>5. Len(state_stack') - Len(node_stack') = 0
    <3>1. Len(state_stack') = n + 1 /\ Len(node_stack') = n + 1
      BY <1>12, <1>17, <2>1
    <3> HIDE DEF n
    <3> QED
      BY <1>8, <3>1
  <2>6. NodesFreedOnce'
    BY <1>14, <1>15, <2>4, <2>5 DEF NodesFreedOnce
  <2>7. state_stack' # <<>>
    <3>1. Len(state_stack') = n + 1
      BY <1>12, <1>17
    <3>2. state_stack' = <<>> => Len(state_stack') = 0
      BY EmptySeq
    <3> HIDE DEF n
    <3> QED
      BY <1>8, <3>1, <3>2
  <2>8. InputOK'
    BY <1>14, <1>15, <1>16, <1>17, <2>7 DEF IInv, InputOK, Ended
  <2>9. TypeOK'
    <3>1. is_repair' \in BOOLEAN /\ repair_valid_shift' \in 0 .. RepairMaxValidShift - 1
      BY <1>17, RepairCounted DEF IInv
    <3>2. (\A k \in DOMAIN state_stack : state_stack[k] \in DOMAIN Tables[psr].actions)'
      BY <2>3, StackStates, PTL
    <3>3. DOMAIN freed' = Positions
      BY <1>17
    <3> QED
      BY <1>14, <1>15, <1>17, <3>1, <3>2, <3>3 DEF IInv, TypeOK
  <2> QED
    BY <2>3, <2>6, <2>8, <2>9 DEF IInv
<1>18. /\ SubSeq(node_stack, Len(node_stack) - count + 1, Len(node_stack)) = nodes
       /\ Pop(state_stack, count) = below
       /\ Pop(node_stack, count) = rest
       /\ GetState(Top(below), g.rules[r].head) = to
  BY <1>9, <1>10 DEF Pop, GetState, Top, Last
<1>19. CASE /\ state_stack' = Append(below, to)
            /\ node_stack' = Append(rest, RuleNode(r, nodes))
            /\ CountRepair
            /\ UNCHANGED <<pc, status>>
            /\ UNCHANGED freed
  <2>1. /\ RuleNode(r, nodes).frees \in [Positions -> Nat]
        /\ \A k \in Positions : RuleNode(r, nodes).frees[k] = Frees(nodes, k)
    <3> HIDE DEF nodes, r
    <3> QED
      BY <1>13, RuleNodeFrees
  <2>2. freed' \in [Positions -> Nat]
    BY <1>19 DEF IInv, StacksOK
  <2>3. \A k \in Positions :
            freed'[k] + RuleNode(r, nodes).frees[k] = freed[k] + Frees(nodes, k)
    BY <1>19, <2>1
  <2> HIDE DEF nodes, r, below, rest, to
  <2> QED
    BY <1>17, <1>19, <2>1, <2>2, <2>3
<1>20. CASE /\ state_stack' = Append(below, to)
            /\ node_stack' = Append(rest, AutoNode(nodes, auto_ret))
            /\ CountRepair
            /\ UNCHANGED <<pc, status>>
            /\ freed' = FreeingOthers(nodes, auto_ret)
  <2> DEFINE others == [i \in DOMAIN nodes |-> IF i = auto_ret THEN NullNode ELSE nodes[i]]
             node == AutoNode(nodes, auto_ret)
  <2>1. /\ node.frees \in [Positions -> Nat]
        /\ \A k \in Positions :
              /\ Frees(others, k) \in Nat
              /\ Frees(others, k) + node.frees[k] = Frees(nodes, k)
    <3> HIDE DEF nodes, auto_ret
    <3> QED
      BY <1>13, AutoNodeFrees
  <2>2. freed' = [k \in Positions |-> freed[k] + Frees(others, k)]
    BY <1>20 DEF FreeingOthers, Freeing
  <2> HIDE DEF others, node
  <2>3. freed \in [Positions -> Nat]
    BY DEF IInv, StacksOK
  <2>4. freed' \in [Positions -> Nat]
    <3>1. \A k \in Positions : freed[k] \in Nat /\ Frees(others, k) \in Nat
      BY <2>1, <2>3
    <3>2. \A x, y \in Nat : x + y \in Nat
      OBVIOUS
    <3>3. \A k \in Positions : freed[k] + Frees(others, k) \in Nat
      BY <3>1, <3>2, Zenon
    <3> QED
      BY <2>2, <3>3
  <2>5. ASSUME NEW k \in Positions
        PROVE  freed'[k] + node.frees[k] = freed[k] + Frees(nodes, k)
    <3>1. freed[k] \in Nat /\ node.frees[k] \in Nat /\ Frees(others, k) \in Nat
          /\ Frees(others, k) + node.frees[k] = Frees(nodes, k)
          /\ freed'[k] = freed[k] + Frees(others, k)
      BY <2>1, <2>2, <2>3
    <3> HIDE DEF nodes
    <3> QED
      BY <3>1
  <2>6. node_stack' = Append(rest, node)
    BY <1>20 DEF node
  <2> HIDE DEF nodes, below, rest, to
  <2> QED
    BY <1>17, <1>20, <2>1, <2>4, <2>5, <2>6
<1>21. CASE /\ status' = "failed" /\ pc' = "idle"
            /\ UNCHANGED <<stacks, repair, freed>>
  <2>1. StacksOK'
    BY <1>14, <1>15, <1>21 DEF IInv, StacksOK, stacks
  <2>2. NodesFreedOnce'
    <3>1. Len(state_stack') - Len(node_stack') = 0
      BY <1>5, <1>9, <1>21 DEF stacks
    <3> QED
      BY <1>14, <1>15, <1>21, <3>1 DEF IInv, NodesFreedOnce, stacks
  <2>3. InputOK'
    BY <1>14, <1>15, <1>16, <1>21 DEF IInv, InputOK, Ended, stacks
  <2>4. TypeOK'
    BY <1>14, <1>15, <1>21 DEF IInv, TypeOK, stacks, repair
  <2> QED
    BY <2>1, <2>2, <2>3, <2>4 DEF IInv
<1> QED
  <2>1. g.rules[tables.actions[top][t].rule_num] = g.rules[r]
    OBVIOUS
  <2> QED
    BY <1>2, <1>18, <1>19, <1>20, <1>21 DEF HandleReduce, Return

-----------------------------------------------------------------------------
(* The other steps.                                                          *)

LEMMA InitHolds ==
    ASSUME Init
    PROVE  IInv
<1>1. AreNodes(node_stack, Positions) /\ \A k \in Positions : Frees(node_stack, k) = 0
  BY FreesOfNone DEF Init
<1>2. AreStates(Tables[psr], state_stack)
  <2>1. <<>> \in Seq(DOMAIN Tables[psr].actions) /\ Len(<<>>) = 0
    BY EmptySeq
  <2> QED
    BY <2>1 DEF Init, AreStates
<1>3. freed \in [Positions -> Nat] /\ \A k \in Positions : freed[k] = 0
  BY DEF Init, NothingFreed
<1>4. StacksOK
  BY <1>1, <1>2, <1>3 DEF Init, StacksOK
<1>5. NodesFreedOnce
  BY <1>1, <1>3 DEF Init, NodesFreedOnce
<1>6. TypeOK
  <2>1. RepairMaxValidShift \in Nat \ {0}
    BY ParserAssumption
  <2>2. \A R \in Nat \ {0} : 0 \in 0 .. R - 1
    OBVIOUS
  <2>3. 0 \in 0 .. RepairMaxValidShift - 1
    BY <2>1, <2>2
  <2>4. <<>> \in Seq(Parsers[psr].tokens)
    BY EmptySeq
  <2>5. DOMAIN state_stack = {}
    BY DEF Init
  <2> QED
    BY <1>3, <2>3, <2>4, <2>5 DEF Init, TypeOK
<1>7. InputOK
  <2>1. MaxTokens \in Nat \ {0}
    BY <1>6, OfTheParser
  <2>2. Len(input) = 0
    BY EmptySeq DEF Init
  <2> QED
    BY <1>1, <2>1, <2>2 DEF Init, InputOK
<1> QED
  BY <1>4, <1>5, <1>6, <1>7 DEF IInv

\* A step of the loop that leaves the stacks and the input as they are.
LEMMA AnswerKeeps ==
    ASSUME IInv, pc # "idle", UNCHANGED <<psr, stacks, is_accepted, input, made, freed>>,
           \/ pc' = "idle" /\ status' \in {"yes", "no", "failed"}
           \/ pc = "act" /\ pc' \in {"act", "recover"} /\ status' = status,
           is_repair' \in BOOLEAN, repair_valid_shift' \in 0 .. RepairMaxValidShift - 1,
           handled' \in BOOLEAN, erred' = erred \/ FirstError
    PROVE  IInv'
<1>1. Positions' = Positions /\ NullNode' = NullNode
  BY SameParser
<1>2. StacksOK'
  BY <1>1 DEF IInv, StacksOK, stacks
<1>3. Len(state_stack) - Len(node_stack) = 0
  BY DEF IInv, NodesFreedOnce
<1>4. NodesFreedOnce'
  BY <1>1, <1>3 DEF IInv, NodesFreedOnce, stacks
<1>5. /\ input # <<>> /\ Len(input) \notin made /\ status = "yes" /\ ~is_accepted
      /\ pc = "act" => state_stack # <<>>
  BY DEF IInv, InputOK
<1>6. InputOK'
  BY <1>1, <1>5 DEF IInv, InputOK, Ended, stacks
<1>7. erred' \in {0} \cup Positions
  BY <1>5, InputHas DEF IInv, TypeOK, FirstError
<1>8. TypeOK'
  <2>1. (\A k \in DOMAIN state_stack : state_stack[k] \in DOMAIN Tables[psr].actions)'
    BY <1>2, StackStates, PTL
  <2> QED
    BY <1>1, <1>7, <2>1 DEF IInv, TypeOK
<1> QED
  BY <1>2, <1>4, <1>6, <1>8 DEF IInv

LEMMA ErrorKeeps ==
    ASSUME IInv, OnError \/ Discard \/ EndInRepair \/ RecoverFails
    PROVE  IInv'
<1>1. /\ is_repair \in BOOLEAN /\ repair_valid_shift \in 0 .. RepairMaxValidShift - 1
      /\ handled \in BOOLEAN
  BY DEF IInv, TypeOK
<1>2. CASE OnError
  <2>1. /\ pc = "act" /\ FirstError
        /\ UNCHANGED <<psr, stacks, repair_valid_shift, is_accepted, input, made, freed>>
    BY <1>2 DEF OnError, IsError
  <2>2. /\ \/ pc' = "idle" /\ status' \in {"yes", "no", "failed"}
           \/ pc' \in {"act", "recover"} /\ status' = status
        /\ is_repair' \in BOOLEAN /\ handled' \in BOOLEAN
    BY <1>1, <1>2, <2>1 DEF OnError, Return
  <2> QED
    BY <1>1, <2>1, <2>2, AnswerKeeps
<1>3. CASE Discard
  <2>1. /\ pc = "act" /\ FirstError /\ pc' = "idle" /\ status' = "yes"
        /\ UNCHANGED <<psr, stacks, repair, is_accepted, handled, input, made, freed>>
    BY <1>3 DEF Discard, IsError, Return
  <2>2. is_repair' = is_repair /\ repair_valid_shift' = repair_valid_shift
    BY <2>1 DEF repair
  <2> QED
    BY <1>1, <2>1, <2>2, AnswerKeeps
<1>4. CASE EndInRepair
  <2>1. /\ pc = "act" /\ FirstError /\ pc' = "idle" /\ status' \in {"yes", "no", "failed"}
        /\ UNCHANGED <<psr, stacks, repair, is_accepted, handled, input, made, freed>>
    BY <1>4 DEF EndInRepair, IsError, Return
  <2>2. is_repair' = is_repair /\ repair_valid_shift' = repair_valid_shift
    BY <2>1 DEF repair
  <2> QED
    BY <1>1, <2>1, <2>2, AnswerKeeps
<1>5. CASE RecoverFails
  <2>1. /\ pc = "recover" /\ pc' = "idle" /\ status' = "no"
        /\ UNCHANGED <<psr, stacks, repair, is_accepted, handled, input, made, freed, erred>>
    BY <1>5 DEF RecoverFails, Return, ghosts
  <2>2. is_repair' = is_repair /\ repair_valid_shift' = repair_valid_shift
    BY <2>1 DEF repair
  <2> QED
    BY <1>1, <2>1, <2>2, AnswerKeeps
<1> QED
  BY <1>2, <1>3, <1>4, <1>5

LEMMA AcceptKeeps ==
    ASSUME IInv, Accept
    PROVE  IInv'
<1> DEFINE tables == Tables[psr]
           g == Parsers[psr].grammar
<1>1. /\ psr' = psr /\ state_stack' = state_stack /\ node_stack' = node_stack
      /\ handled' = handled /\ input' = input /\ made' = made /\ freed' = freed /\ erred' = erred
      /\ is_repair' = FALSE /\ repair_valid_shift' = 0 /\ is_accepted' = TRUE
      /\ pc = "act" /\ pc' = "idle" /\ status' = "yes"
  BY DEF Accept, RecoverDone, Return, stacks, ghosts
<1>2. Positions' = Positions /\ NullNode' = NullNode
  BY <1>1, SameParser
<1>3. StacksOK'
  BY <1>1, <1>2 DEF IInv, StacksOK
<1>4. Len(state_stack) - Len(node_stack) = 0
  BY <1>1 DEF IInv, NodesFreedOnce
<1>5. NodesFreedOnce'
  BY <1>1, <1>2, <1>4 DEF IInv, NodesFreedOnce
<1>6. Len(state_stack) = 2
  <2>1. input # <<>> /\ state_stack # <<>>
    BY <1>1 DEF IInv, InputOK
  <2>2. Token \in TermNames(g) /\ AreLR(tables, g) /\ AreStates(tables, state_stack)
    BY <2>1, TokenIsTerm, OfTheParser DEF IInv, StacksOK
  <2>3. tables.actions[state_stack[Len(state_stack)]][Token].type = "accept"
    BY DEF Accept, GetAction, Top, Last
  <2> HIDE DEF tables, g
  <2> QED
    BY <2>1, <2>2, <2>3, AcceptedOnTwo
<1>7. InputOK'
  BY <1>1, <1>2, <1>6 DEF IInv, InputOK, Ended
<1>8. TypeOK'
  <2>1. (\A k \in DOMAIN state_stack : state_stack[k] \in DOMAIN Tables[psr].actions)'
    BY <1>3, StackStates, PTL
  <2>2. \A R \in Nat \ {0} : 0 \in 0 .. R - 1
    OBVIOUS
  <2>3. 0 \in 0 .. RepairMaxValidShift - 1
    BY <2>2, ParserAssumption
  <2> QED
    BY <1>1, <1>2, <2>1, <2>3 DEF IInv, TypeOK
<1> QED
  BY <1>3, <1>5, <1>7, <1>8 DEF IInv

\* The top node is freed, and its state left.
LEMMA PopKeeps ==
    ASSUME IInv, state_stack # <<>>, Len(state_stack) = Len(node_stack),
           UNCHANGED <<psr, made>>,
           freed' = Freeing(<<Top(node_stack)>>),
           node_stack' = Pop(node_stack, 1),
           state_stack' = Pop(state_stack, 1)
    PROVE  /\ StacksOK'
           /\ NodesFreedOnce'
           /\ Len(node_stack') = Len(node_stack) - 1
           /\ \A i \in 1 .. Len(node_stack) - 1 : node_stack'[i] = node_stack[i]
<1> DEFINE n == Len(state_stack) - 1
           top == node_stack[Len(node_stack)]
<1>1. Positions' = Positions /\ NullNode' = NullNode
  BY SameParser
<1>2. AreStates(Tables[psr], state_stack) /\ AreNodes(node_stack, Positions)
      /\ freed \in [Positions -> Nat]
  BY DEF IInv, StacksOK
<1>3. Len(state_stack) \in Nat /\ Len(state_stack) > 0
  BY <1>2, StatesHave
<1>4. /\ n \in Nat /\ n \in 0 .. Len(state_stack) /\ n + 1 = Len(state_stack)
      /\ Len(state_stack) \in 1 .. Len(state_stack)
  BY <1>3
<1>5. state_stack' = SubSeq(state_stack, 1, n) /\ node_stack' = SubSeq(node_stack, 1, n)
  BY DEF Pop
<1>6. AreStates(Tables[psr], state_stack') /\ Len(state_stack') = n
  <2> HIDE DEF n
  <2>1. /\ AreStates(Tables[psr], SubSeq(state_stack, 1, n))
        /\ Len(SubSeq(state_stack, 1, n)) = n
    BY <1>2, <1>4, StatesLeft
  <2> QED
    BY <1>5, <2>1
<1>7. /\ AreNodes(node_stack', Positions)
      /\ Len(node_stack') = n
      /\ \A i \in 1 .. n : node_stack'[i] = node_stack[i]
  <2>1. n \in 0 .. Len(node_stack)
    BY <1>4
  <2> HIDE DEF n
  <2>2. /\ AreNodes(SubSeq(node_stack, 1, n), Positions)
        /\ Len(SubSeq(node_stack, 1, n)) = n
        /\ \A i \in 1 .. n : SubSeq(node_stack, 1, n)[i] = node_stack[i]
    BY <1>2, <2>1, FreesOfParts
  <2> QED
    BY <1>5, <2>2
<1>8. top.frees \in [Positions -> Nat]
  BY <1>2, <1>4, NodesHave
<1>9. \A k \in Positions : Frees(node_stack', k) + Frees(<<top>>, k) = Frees(node_stack, k)
  <2>1. node_stack' = SubSeq(node_stack, 1, Len(node_stack) - 1)
    BY <1>5
  <2> QED
    BY <1>2, <1>3, <2>1, FreesOfTop
<1>10. freed' = [k \in Positions |-> freed[k] + Frees(<<top>>, k)]
  BY DEF Freeing, Top, Last
<1>11. ASSUME NEW k \in Positions
       PROVE  freed'[k] \in Nat /\ freed'[k] + Frees(node_stack', k) = IF k \in made THEN 1 ELSE 0
  <2>1. freed[k] \in Nat /\ Frees(<<top>>, k) \in Nat
    BY <1>2, <1>8, FreesOfOne, FreesANumber
  <2>2. freed[k] + Frees(node_stack, k) = IF k \in made THEN 1 ELSE 0
    BY DEF IInv, NodesFreedOnce
  <2>3. Frees(node_stack, k) \in Nat /\ Frees(node_stack', k) \in Nat
    BY <1>2, <1>7, FreesANumber
  <2>4. freed'[k] = freed[k] + Frees(<<top>>, k)
    BY <1>10
  <2>5. Frees(node_stack', k) + Frees(<<top>>, k) = Frees(node_stack, k)
    BY <1>9
  <2> HIDE DEF top
  <2> QED
    BY <2>1, <2>2, <2>3, <2>4, <2>5
<1>12. freed' \in [Positions -> Nat]
  BY <1>10, <1>11
<1>13. node_stack' # <<>> => node_stack'[1] = NullNode
  <2> SUFFICES ASSUME node_stack' # <<>> PROVE node_stack'[1] = NullNode
    OBVIOUS
  <2>1. node_stack' \in Seq(ToSet(node_stack'))
    BY <1>7 DEF AreNodes
  <2>2. Len(node_stack') # 0
    BY <2>1, EmptySeq
  <2>3. 1 \in 1 .. n
    BY <1>4, <1>7, <2>2
  <2>4. node_stack # <<>>
    BY <1>3, EmptySeq
  <2> QED
    BY <1>7, <2>3, <2>4 DEF IInv, StacksOK
<1>14. StacksOK'
  BY <1>1, <1>6, <1>7, <1>12, <1>13 DEF StacksOK
<1>15. Len(state_stack') - Len(node_stack') = 0
  <2> HIDE DEF n
  <2> QED
    BY <1>4, <1>6, <1>7
<1>16. NodesFreedOnce'
  BY <1>1, <1>11, <1>15 DEF NodesFreedOnce
<1> QED
  BY <1>7, <1>14, <1>16

LEMMA RecoverPopKeeps ==
    ASSUME IInv, RecoverPop
    PROVE  IInv'
<1>1. /\ pc = "recover" /\ state_stack # <<>>
      /\ psr' = psr /\ is_repair' = is_repair /\ repair_valid_shift' = repair_valid_shift
      /\ is_accepted' = is_accepted /\ pc' = pc /\ handled' = handled /\ status' = status
      /\ input' = input /\ made' = made /\ erred' = erred
      /\ freed' = Freeing(<<Top(node_stack)>>)
      /\ node_stack' = Pop(node_stack, 1) /\ state_stack' = Pop(state_stack, 1)
  BY DEF RecoverPop, OnTop, repair
<1>2. Len(state_stack) = Len(node_stack)
  BY <1>1, EqualHeight DEF IInv
<1>3. StacksOK' /\ NodesFreedOnce'
  BY <1>1, <1>2, PopKeeps
<1>4. Positions' = Positions
  BY <1>1, SameParser
<1>5. InputOK'
  BY <1>1, <1>4 DEF IInv, InputOK, Ended
<1>6. TypeOK'
  <2>1. (\A k \in DOMAIN state_stack : state_stack[k] \in DOMAIN Tables[psr].actions)'
    BY <1>3, StackStates, PTL
  <2>2. DOMAIN freed' = Positions
    BY <1>1 DEF Freeing
  <2> QED
    BY <1>1, <1>4, <2>1, <2>2 DEF IInv, TypeOK
<1> QED
  BY <1>3, <1>5, <1>6 DEF IInv

\* The error that is shifted has no node to free.
LEMMA RecoverShiftKeeps ==
    ASSUME IInv, RecoverShift
    PROVE  IInv'
<1> DEFINE tables == Tables[psr]
           g == Parsers[psr].grammar
           top == state_stack[Len(state_stack)]
           to == tables.actions[top][Error].to
<1>1. /\ pc = "recover" /\ state_stack # <<>>
      /\ tables.actions[top][Error].type = "shift"
      /\ psr' = psr /\ is_repair' = TRUE /\ repair_valid_shift' = 0
      /\ is_accepted' = is_accepted /\ pc' = "act" /\ handled' = handled /\ status' = status
      /\ input' = input /\ made' = made /\ freed' = freed /\ erred' = erred
      /\ state_stack' = Append(state_stack, to)
      /\ node_stack' = Append(node_stack, NullNode)
  BY DEF RecoverShift, OnTop, GetAction, Top, Last, ghosts
<1>2. Positions' = Positions /\ NullNode' = NullNode
  BY <1>1, SameParser
<1>3. Len(state_stack) = Len(node_stack)
  BY <1>1, EqualHeight DEF IInv
<1>4. AreStates(tables, state_stack) /\ AreNodes(node_stack, Positions)
      /\ AreLR(tables, g) /\ Error \in TermNames(g)
  BY OfTheParser DEF IInv, StacksOK
<1>5. Len(state_stack) \in Nat /\ Len(state_stack) > 0 /\ top \in DOMAIN tables.actions
  <2>1. Len(state_stack) \in Nat /\ Len(state_stack) > 0
    BY <1>1, <1>4, StatesHave
  <2>2. Len(state_stack) \in 1 .. Len(state_stack)
    BY <2>1
  <2> QED
    BY <1>4, <2>1, <2>2, StatesHave
<1>6. LeadsTo(tables, top, to)
  BY <1>1, <1>4, <1>5 DEF AreLR
<1>7. /\ AreStates(tables, state_stack')
      /\ state_stack' # <<>>
      /\ Len(state_stack') = Len(state_stack) + 1
  <2> HIDE DEF tables, to
  <2> QED
    BY <1>1, <1>4, <1>6, StatePushed
<1>8. /\ AreNodes(node_stack', Positions)
      /\ Len(node_stack') = Len(node_stack) + 1
      /\ \A i \in 1 .. Len(node_stack) : node_stack'[i] = node_stack[i]
      /\ \A k \in Positions : Frees(node_stack', k) = Frees(node_stack, k) + NullNode.frees[k]
  <2> DEFINE K == Positions
             z == NullNode
  <2>1. z.frees \in [K -> Nat] /\ AreNodes(node_stack, K) /\ node_stack' = Append(node_stack, z)
    BY <1>1, <1>4, NullFrees
  <2> HIDE DEF K, z
  <2>2. /\ AreNodes(node_stack', K)
        /\ Len(node_stack') = Len(node_stack) + 1
        /\ \A i \in 1 .. Len(node_stack) : node_stack'[i] = node_stack[i]
        /\ \A k \in K : Frees(node_stack', k) = Frees(node_stack, k) + z.frees[k]
    BY <2>1, FreesOneMore
  <2> QED
    BY <2>2 DEF K, z
<1>9. \A k \in Positions : Frees(node_stack', k) = Frees(node_stack, k)
  <2>1. \A k \in Positions : Frees(node_stack, k) \in Nat /\ NullNode.frees[k] = 0
    BY <1>4, NullFrees, FreesANumber
  <2>2. \A m \in Nat : m + 0 = m
    OBVIOUS
  <2> QED
    BY <1>8, <2>1, <2>2
<1>10. StacksOK'
  <2>1. node_stack'[1] = NullNode
    <3>1. 1 \in 1 .. Len(node_stack)
      BY <1>3, <1>5
    <3>2. node_stack # <<>>
      BY <1>3, <1>5, EmptySeq
    <3> QED
      BY <1>8, <3>1, <3>2 DEF IInv, StacksOK
  <2> QED
    BY <1>1, <1>2, <1>7, <1>8, <2>1 DEF IInv, StacksOK
<1>11. NodesFreedOnce'
  <2>1. Len(state_stack') - Len(node_stack') = 0
    BY <1>3, <1>5, <1>7, <1>8
  <2> QED
    BY <1>1, <1>2, <1>9, <2>1 DEF IInv, NodesFreedOnce
<1>12. InputOK'
  BY <1>1, <1>2, <1>7 DEF IInv, InputOK, Ended
<1>13. TypeOK'
  <2>1. (\A k \in DOMAIN state_stack : state_stack[k] \in DOMAIN Tables[psr].actions)'
    BY <1>10, StackStates, PTL
  <2>2. \A R \in Nat \ {0} : 0 \in 0 .. R - 1
    OBVIOUS
  <2>3. 0 \in 0 .. RepairMaxValidShift - 1
    BY <2>2, ParserAssumption
  <2> QED
    BY <1>1, <1>2, <2>1, <2>3 DEF IInv, TypeOK
<1> QED
  BY <1>10, <1>11, <1>12, <1>13 DEF IInv

LEMMA ReduceKeeps ==
    ASSUME IInv, Reduce \/ RecoverReduce
    PROVE  IInv'
<1>1. CASE Reduce
  <2>1. /\ pc = "act"
        /\ GetAction(Top(state_stack), Token).type = "reduce"
        /\ HandleReduce(GetAction(Top(state_stack), Token))
    BY <1>1 DEF Reduce
  <2>2. input # <<>> /\ state_stack # <<>> /\ pc # "idle"
    BY <2>1 DEF IInv, InputOK
  <2>3. Token \in TermNames(Parsers[psr].grammar)
    BY <2>2, TokenIsTerm DEF IInv
  <2> QED
    BY <2>1, <2>2, <2>3, ReductionKeeps
<1>2. CASE RecoverReduce
  <2>1. /\ pc # "idle" /\ state_stack # <<>>
        /\ GetAction(Top(state_stack), Error).type = "reduce"
        /\ HandleReduce(GetAction(Top(state_stack), Error))
    BY <1>2 DEF RecoverReduce, OnTop
  <2>2. Error \in TermNames(Parsers[psr].grammar)
    BY OfTheParser DEF IInv
  <2> QED
    BY <2>1, <2>2, ReductionKeeps
<1> QED
  BY <1>1, <1>2

\* A caller adds a token: over the first state, when there is none.
LEMMA AddTokenKeeps ==
    ASSUME IInv, AddToken
    PROVE  IInv'
<1> DEFINE tables == Tables[psr]
           max == MaxTokens
<1>1. /\ pc = "idle" /\ status = "yes" /\ ~is_accepted /\ ~Ended
      /\ psr' = psr /\ is_repair' = is_repair /\ repair_valid_shift' = repair_valid_shift
      /\ is_accepted' = is_accepted /\ status' = status /\ pc' = "act" /\ handled' = FALSE
  BY DEF AddToken, repair
<1>2. PICK val \in Parsers[psr].tokens :
          /\ input' = Append(input, val)
          /\ Len(input') < max \/ val = EndOfInput
  BY DEF AddToken
<1>3. Positions' = Positions /\ NullNode' = NullNode
  BY <1>1, SameParser
<1>4. /\ input' \in Seq(Parsers[psr].tokens)
      /\ input' # <<>>
      /\ Len(input') = Len(input) + 1
      /\ input'[Len(input')] = val
  <2>1. input \in Seq(Parsers[psr].tokens)
    BY DEF IInv, TypeOK
  <2> DEFINE T == Parsers[psr].tokens
  <2>2. input \in Seq(T) /\ val \in T
    BY <2>1
  <2> HIDE DEF T
  <2>3. /\ Append(input, val) \in Seq(T)
        /\ Append(input, val) # <<>>
        /\ Len(Append(input, val)) = Len(input) + 1
        /\ Append(input, val)[Len(input) + 1] = val
    BY <2>2, AppendProperties
  <2> QED
    BY <1>2, <2>3 DEF T
<1>5. Len(input) \in Nat /\ Len(input) <= max /\ Len(input) # max /\ max \in Nat \ {0}
      /\ Positions = 1 .. max
  <2>1. Len(input) \in Nat /\ max \in Nat \ {0} /\ Positions = 1 .. max
    BY InputHas, OfTheParser DEF IInv
  <2>2. Len(input) <= max /\ Len(input) # max
    BY <1>1 DEF IInv, InputOK
  <2> QED
    BY <2>1, <2>2
<1>6. Len(input') <= max /\ Len(input') \notin 1 .. Len(input)
  <2> HIDE DEF max
  <2> QED
    BY <1>4, <1>5
<1>7. val = EndOfInput => Ended'
  BY <1>4 DEF Ended, Last
<1>8. Len(input') = max => Ended'
  <2>1. Len(input') \in Nat
    BY <1>4, <1>5
  <2> HIDE DEF max
  <2>2. Len(input') = max => ~(Len(input') < max)
    BY <2>1
  <2> QED
    BY <1>2, <1>7, <2>2
<1>9. AreStates(tables, state_stack) /\ AreNodes(node_stack, Positions)
      /\ freed \in [Positions -> Nat]
  BY DEF IInv, StacksOK
<1>10. Len(state_stack) = Len(node_stack) /\ Len(state_stack) \in Nat
  BY <1>1, <1>9, EqualHeight, StatesHave DEF IInv
<1>11. /\ AreStates(tables, state_stack')
       /\ state_stack' # <<>>
       /\ AreNodes(node_stack', Positions)
       /\ Len(state_stack') - Len(node_stack') = 0
       /\ node_stack' # <<>> => node_stack'[1] = NullNode
       /\ \A k \in Positions : Frees(node_stack', k) = Frees(node_stack, k)
  <2>1. CASE state_stack = <<>>
    <3>1. state_stack' = <<1>> /\ node_stack' = <<NullNode>>
      BY <2>1 DEF AddToken
    <3>2. 1 \in DOMAIN tables.actions
      BY OfTheParser DEF IInv, AreLR
    <3>3. AreStates(tables, state_stack') /\ state_stack' # <<>>
      <4> DEFINE D == DOMAIN tables.actions
      <4>1. 1 \in D
        BY <3>2
      <4> HIDE DEF D
      <4>2. state_stack' \in Seq(D) /\ state_stack'[1] = 1 /\ Len(state_stack') = 1
            /\ state_stack' # <<>>
        BY <3>1, <4>1
      <4>3. \A i \in 2 .. Len(state_stack') : FALSE
        BY <4>2
      <4> QED
        BY <4>2, <4>3 DEF AreStates, D
    <3>4. node_stack = <<>>
      <4>1. Len(state_stack) = 0
        BY <2>1, EmptySeq
      <4>2. Len(node_stack) = 0 /\ node_stack \in Seq(ToSet(node_stack))
        BY <1>9, <1>10, <4>1 DEF AreNodes
      <4> QED
        BY <4>2, EmptySeq
    <3>5. \A k \in Positions : Frees(node_stack, k) = 0
      BY <3>4, FreesOfNone
    <3>6. /\ AreNodes(<<NullNode>>, Positions)
          /\ Len(<<NullNode>>) = 1
          /\ \A k \in Positions : Frees(<<NullNode>>, k) = NullNode.frees[k]
      <4> DEFINE z == NullNode
                 K == Positions
      <4>1. z.frees \in [K -> Nat]
        BY NullFrees
      <4> HIDE DEF z, K
      <4>2. /\ AreNodes(<<z>>, K)
            /\ Len(<<z>>) = 1
            /\ \A k \in K : Frees(<<z>>, k) = z.frees[k]
        BY <4>1, FreesOfOne
      <4> QED
        BY <4>2 DEF z, K
    <3>7. \A k \in Positions : Frees(<<NullNode>>, k) = 0
      BY <3>6, NullFrees
    <3>8. node_stack'[1] = NullNode
      BY <3>1
    <3>9. Len(state_stack') - Len(node_stack') = 0
      <4>1. Len(state_stack') = 1 /\ Len(node_stack') = 1
        BY <3>1, <3>6
      <4> QED
        BY <4>1
    <3> QED
      BY <3>1, <3>3, <3>5, <3>6, <3>7, <3>8, <3>9
  <2>2. CASE state_stack # <<>>
    <3>1. state_stack' = state_stack /\ node_stack' = node_stack
      BY <2>2 DEF AddToken, stacks
    <3> QED
      BY <1>9, <1>10, <2>2, <3>1 DEF IInv, StacksOK
  <2> QED
    BY <2>1, <2>2
<1>12. /\ made' \subseteq Positions
       /\ made' \subseteq 1 .. Len(input')
       /\ Len(input') \notin made'
       /\ freed' \in [Positions -> Nat]
       /\ erred' \in {0} \cup Positions
       /\ \A k \in Positions : freed'[k] + Frees(node_stack', k) = IF k \in made' THEN 1 ELSE 0
  <2>1. CASE input = <<>>
    <3>1. made' = {} /\ freed' = NothingFreed /\ erred' = 0
      BY <2>1 DEF AddToken
    <3>2. \A k \in Positions : Frees(node_stack', k) = 0
      BY <1>11, <2>1 DEF IInv, InputOK
    <3>3. freed' \in [Positions -> Nat] /\ \A k \in Positions : freed'[k] = 0
      BY <3>1 DEF NothingFreed
    <3> QED
      BY <3>1, <3>2, <3>3
  <2>2. CASE input # <<>>
    <3>1. made' = made /\ freed' = freed /\ erred' = erred
      BY <2>2 DEF AddToken, ghosts
    <3>2. made \subseteq 1 .. Len(input) /\ made \subseteq Positions
          /\ erred \in {0} \cup Positions
      BY <2>2 DEF IInv, InputOK, TypeOK
    <3>3. \A k \in 1 .. Len(input) : k \in 1 .. Len(input')
      BY <1>4, <1>5
    <3>4. \A k \in Positions : freed[k] + Frees(node_stack, k) = IF k \in made THEN 1 ELSE 0
      BY DEF IInv, NodesFreedOnce
    <3> QED
      BY <1>6, <1>9, <1>11, <3>1, <3>2, <3>3, <3>4
  <2> QED
    BY <2>1, <2>2
<1>13. StacksOK'
  BY <1>1, <1>3, <1>11, <1>12 DEF StacksOK
<1>14. NodesFreedOnce'
  BY <1>3, <1>11, <1>12 DEF NodesFreedOnce
<1>15. InputOK'
  <2>1. /\ Len(input') <= MaxTokens
        /\ Len(input') = MaxTokens => Ended'
    BY <1>1, <1>6, <1>8
  <2> QED
    BY <1>1, <1>4, <1>11, <1>12, <2>1 DEF InputOK
<1>16. TypeOK'
  <2>1. (\A k \in DOMAIN state_stack : state_stack[k] \in DOMAIN Tables[psr].actions)'
    BY <1>13, StackStates, PTL
  <2>2. DOMAIN freed' = Positions
    BY <1>12
  <2> QED
    BY <1>1, <1>3, <1>4, <1>12, <2>1, <2>2 DEF IInv, TypeOK
<1> QED
  BY <1>13, <1>14, <1>15, <1>16 DEF IInv

\* The result is taken from the first state, over which there is nothing more.
LEMMA GetResultKeeps ==
    ASSUME IInv, GetResult
    PROVE  IInv'
<1>1. /\ pc = "idle" /\ is_accepted
      /\ psr' = psr /\ is_repair' = is_repair /\ repair_valid_shift' = repair_valid_shift
      /\ is_accepted' = FALSE /\ pc' = pc /\ handled' = handled /\ status' = status
      /\ input' = <<>> /\ made' = made /\ erred' = erred
      /\ freed' = Freeing(<<Top(node_stack)>>)
      /\ node_stack' = Pop(node_stack, 1) /\ state_stack' = Pop(state_stack, 1)
  BY DEF GetResult, repair
<1>2. status = "yes" /\ Len(state_stack) = 2
  BY <1>1 DEF IInv, InputOK
<1>3. Len(state_stack) = Len(node_stack) /\ state_stack # <<>>
  BY <1>2, EqualHeight, EmptySeq DEF IInv
<1>4. /\ StacksOK' /\ NodesFreedOnce'
      /\ Len(node_stack') = Len(node_stack) - 1
      /\ \A i \in 1 .. Len(node_stack) - 1 : node_stack'[i] = node_stack[i]
  BY <1>1, <1>3, PopKeeps
<1>5. Positions' = Positions
  BY <1>1, SameParser
<1>6. \A k \in Positions : Frees(node_stack', k) = 0
  <2>1. Len(node_stack') = 1 /\ node_stack'[1] = node_stack[1]
    <3>1. Len(node_stack) - 1 = 1
      <4>1. Len(node_stack) = 2
        BY <1>2, <1>3, Zenon
      <4> QED
        BY <4>1
    <3>2. 1 \in 1 .. 1
      OBVIOUS
    <3>3. Len(node_stack') = 1
      BY <1>4, <3>1, Zenon
    <3>4. \A i \in 1 .. 1 : node_stack'[i] = node_stack[i]
      BY <1>4, <3>1, Zenon
    <3> QED
      BY <3>2, <3>3, <3>4, Zenon
  <2>2. node_stack # <<>>
    BY <1>2, <1>3, EmptySeq
  <2>3. node_stack[1] = NullNode
    BY <2>2 DEF IInv, StacksOK
  <2>4. \A i \in 1 .. Len(node_stack') : i = 1
    BY <2>1
  <2>5. \A k \in Positions : \A i \in 1 .. Len(node_stack') : node_stack'[i].frees[k] = 0
    BY <2>1, <2>3, <2>4, NullFrees
  <2>6. AreNodes(node_stack', Positions)
    BY <1>4, <1>5 DEF StacksOK
  <2> QED
    BY <2>5, <2>6, FreesNothing
<1>7. InputOK'
  <2>1. Len(input') = 0 /\ MaxTokens \in Nat \ {0}
    BY <1>1, OfTheParser, EmptySeq DEF IInv
  <2> QED
    BY <1>1, <1>5, <1>6, <2>1 DEF InputOK
<1>8. TypeOK'
  <2>1. (\A k \in DOMAIN state_stack : state_stack[k] \in DOMAIN Tables[psr].actions)'
    BY <1>4, StackStates, PTL
  <2>2. DOMAIN freed' = Positions
    BY <1>1 DEF Freeing
  <2>3. input' \in Seq(Parsers[psr].tokens)
    BY <1>1, EmptySeq
  <2> QED
    BY <1>1, <1>5, <2>1, <2>2, <2>3 DEF IInv, TypeOK
<1> QED
  BY <1>4, <1>7, <1>8 DEF IInv

LEMMA ClearKeeps ==
    ASSUME IInv, Clear
    PROVE  IInv'
<1>1. /\ pc = "idle" /\ psr' = psr /\ pc' = pc /\ handled' = handled
      /\ made' = made /\ erred' = erred
      /\ freed' = [k \in Positions |-> freed[k] + Frees(node_stack, k)]
      /\ is_accepted' = FALSE /\ is_repair' = FALSE /\ repair_valid_shift' = 0
      /\ state_stack' = <<>> /\ node_stack' = <<>> /\ input' = <<>> /\ status' = "yes"
  BY DEF Clear, RecoverDone, Freeing
<1>2. Positions' = Positions /\ NullNode' = NullNode
  BY <1>1, SameParser
<1>3. AreNodes(node_stack', Positions) /\ \A k \in Positions : Frees(node_stack', k) = 0
  BY <1>1, FreesOfNone
<1>4. ASSUME NEW k \in Positions
      PROVE  freed'[k] \in Nat /\ freed'[k] + Frees(node_stack', k) = IF k \in made THEN 1 ELSE 0
  <2>1. freed[k] \in Nat /\ Frees(node_stack, k) \in Nat
    BY FreesANumber DEF IInv, StacksOK
  <2>2. freed[k] + Frees(node_stack, k) = IF k \in made THEN 1 ELSE 0
    BY DEF IInv, NodesFreedOnce
  <2>3. freed'[k] = freed[k] + Frees(node_stack, k) /\ Frees(node_stack', k) = 0
    BY <1>1, <1>3
  <2> QED
    BY <2>1, <2>2, <2>3
<1>5. freed' \in [Positions -> Nat]
  BY <1>1, <1>4
<1>6. AreStates(Tables[psr'], state_stack')
  <2>1. <<>> \in Seq(DOMAIN Tables[psr'].actions) /\ Len(<<>>) = 0
    BY EmptySeq
  <2> QED
    BY <1>1, <2>1 DEF AreStates
<1>7. StacksOK'
  BY <1>1, <1>2, <1>3, <1>5, <1>6 DEF StacksOK
<1>8. NodesFreedOnce'
  <2>1. Len(state_stack') - Len(node_stack') = 0
    BY <1>1, EmptySeq
  <2> QED
    BY <1>1, <1>2, <1>4, <2>1 DEF NodesFreedOnce
<1>9. InputOK'
  <2>1. Len(input') = 0 /\ MaxTokens \in Nat \ {0}
    BY <1>1, OfTheParser, EmptySeq DEF IInv
  <2> QED
    BY <1>1, <1>2, <1>3, <2>1 DEF InputOK
<1>10. TypeOK'
  <2>1. (\A k \in DOMAIN state_stack : state_stack[k] \in DOMAIN Tables[psr].actions)'
    BY <1>7, StackStates, PTL
  <2>2. \A R \in Nat \ {0} : 0 \in 0 .. R - 1
    OBVIOUS
  <2>3. 0 \in 0 .. RepairMaxValidShift - 1
    BY <2>2, ParserAssumption
  <2>4. DOMAIN freed' = Positions /\ input' \in Seq(Parsers[psr].tokens)
    BY <1>1, EmptySeq
  <2> QED
    BY <1>1, <1>2, <2>1, <2>3, <2>4 DEF IInv, TypeOK
<1> QED
  BY <1>7, <1>8, <1>9, <1>10 DEF IInv

LEMMA StutterKeeps ==
    ASSUME IInv, UNCHANGED vars
    PROVE  IInv'
<1>1. Positions' = Positions /\ NullNode' = NullNode
  BY SameParser DEF vars
<1> QED
  BY <1>1 DEF IInv, TypeOK, StacksOK, NodesFreedOnce, InputOK, Ended, vars, stacks, repair, ghosts

LEMMA StepKeeps ==
    ASSUME IInv, ParserNext
    PROVE  IInv'
<1>1. \/ Shift \/ Reduce \/ Accept \/ OnError \/ Discard \/ EndInRepair
      \/ RecoverReduce \/ RecoverPop \/ RecoverShift \/ RecoverFails
      \/ AddToken \/ GetResult \/ Clear
  BY DEF ParserNext, Loop, Caller
<1>2. CASE Shift
  BY <1>2, ShiftKeeps
<1>3. CASE Reduce \/ RecoverReduce
  BY <1>3, ReduceKeeps
<1>4. CASE Accept
  BY <1>4, AcceptKeeps
<1>5. CASE OnError \/ Discard \/ EndInRepair \/ RecoverFails
  BY <1>5, ErrorKeeps
<1>6. CASE RecoverPop
  BY <1>6, RecoverPopKeeps
<1>7. CASE RecoverShift
  BY <1>7, RecoverShiftKeeps
<1>8. CASE AddToken
  BY <1>8, AddTokenKeeps
<1>9. CASE GetResult
  BY <1>9, GetResultKeeps
<1>10. CASE Clear
  BY <1>10, ClearKeeps
<1> QED
  BY <1>1, <1>2, <1>3, <1>4, <1>5, <1>6, <1>7, <1>8, <1>9, <1>10

-----------------------------------------------------------------------------
(* The theorems.                                                             *)

\* The state stack is a path through the tables and the node stack follows it,
\* in every state Parser_AddToken, Parser_GetResult and Parser_Clear come through.
THEOREM ParserInv == Spec => []IInv
<1>1. Init => IInv
  BY InitHolds
<1>2. IInv /\ [ParserNext]_vars => IInv'
  BY StepKeeps, StutterKeeps
<1> QED
  BY <1>1, <1>2, PTL DEF Spec

\* The variables of a parser's context stay in their types: every state on the
\* stack is one of the tables', and a repair counts fewer than its last shift.
THEOREM ParserTypeCorrect == Spec => []TypeOK
<1>1. IInv => TypeOK
  BY DEF IInv
<1> QED
  BY <1>1, ParserInv, PTL

\* Whichever handlers fail and whatever recovery drops, every leaf leaf_f made
\* is on the node stack once or was freed once, and never both.
THEOREM LeavesFreedOnce == Spec => []NodesFreedOnce
<1>1. IInv => NodesFreedOnce
  BY DEF IInv
<1> QED
  BY <1>1, ParserInv, PTL

\* What parser.c asserts of the stacks in a call and of a result: the body of the
\* rule a reduction takes off is there, over a state that its head leads on from;
\* and an input is accepted on the start symbol alone.
AssertionsHold ==
    /\ pc # "idle" => Len(state_stack) = Len(node_stack)
    /\ pc # "idle" /\ state_stack # <<>> =>
          \A t \in TermNames(Parsers[psr].grammar) :
              LET action == GetAction(Top(state_stack), t)
                  rule == Parsers[psr].grammar.rules[action.rule_num]
              IN  /\ action.type = "reduce" =>
                        /\ Len(rule.body) < Len(node_stack)
                        /\ GetState(state_stack[Len(state_stack) - Len(rule.body)], rule.head)
                               \in DOMAIN Tables[psr].actions
                  /\ action.type = "accept" => Len(state_stack) = 2
    /\ is_accepted => Len(state_stack) = 2

LEMMA InvAsserts == IInv => AssertionsHold
<1> SUFFICES ASSUME IInv PROVE AssertionsHold
  OBVIOUS
<1> DEFINE tables == Tables[psr]
           g == Parsers[psr].grammar
<1>1. pc # "idle" => Len(state_stack) = Len(node_stack)
  BY EqualHeight DEF IInv
<1>2. is_accepted => Len(state_stack) = 2
  BY DEF IInv, InputOK
<1>3. AreLR(tables, g) /\ AreStates(tables, state_stack)
      /\ \A m \in DOMAIN g.rules : Len(g.rules[m].body) \in Nat
  BY OfTheParser DEF IInv, StacksOK
<1>4. ASSUME pc # "idle", state_stack # <<>>, NEW t \in TermNames(g),
             tables.actions[state_stack[Len(state_stack)]][t].type = "accept"
      PROVE  Len(state_stack) = 2
  <2> HIDE DEF tables, g
  <2> QED
    BY <1>3, <1>4, AcceptedOnTwo
<1>5. ASSUME pc # "idle", state_stack # <<>>, NEW t \in TermNames(g), NEW r,
             tables.actions[state_stack[Len(state_stack)]][t].type = "reduce",
             r = tables.actions[state_stack[Len(state_stack)]][t].rule_num
      PROVE  /\ Len(g.rules[r].body) < Len(node_stack)
             /\ tables.goto[state_stack[Len(state_stack) - Len(g.rules[r].body)]][g.rules[r].head]
                    \in DOMAIN tables.actions
  <2>1. r \in DOMAIN g.rules
    <3>1. Len(state_stack) \in 1 .. Len(state_stack)
      <4>1. Len(state_stack) \in Nat /\ Len(state_stack) > 0
        BY <1>3, <1>5, StatesHave
      <4> QED
        BY <4>1
    <3>2. state_stack[Len(state_stack)] \in DOMAIN tables.actions
      BY <1>3, <3>1, StatesHave
    <3> QED
      BY <1>3, <1>5, <3>2 DEF AreLR
  <2>2. Len(g.rules[r].body) \in Nat
    BY <1>3, <2>1
  <2> HIDE DEF tables, g
  <2>3. /\ Len(g.rules[r].body) < Len(state_stack)
        /\ LeadsTo(tables, state_stack[Len(state_stack) - Len(g.rules[r].body)],
                   tables.goto[state_stack[Len(state_stack) - Len(g.rules[r].body)]][g.rules[r].head])
    BY <1>3, <1>5, <2>2, BodyOnStack
  <2>4. Len(state_stack) = Len(node_stack)
    BY <1>1, <1>5
  <2> QED
    BY <2>3, <2>4 DEF LeadsTo
<1>6. \A t : GetAction(Top(state_stack), t) = tables.actions[state_stack[Len(state_stack)]][t]
  BY DEF GetAction, Top, Last
<1>7. \A s, x : GetState(s, x) = tables.goto[s][x]
  BY DEF GetState
<1> QED
  BY <1>1, <1>2, <1>4, <1>5, <1>6, <1>7 DEF AssertionsHold

\* No assertion of parser.c on its stacks fails: whatever was shifted, repaired or
\* refused before, a reduction finds its nodes and a state to go to, and
\* Parser_GetResult two states.
THEOREM StackAssertionsHold == Spec => []AssertionsHold
BY InvAsserts, ParserInv, PTL
=============================================================================
