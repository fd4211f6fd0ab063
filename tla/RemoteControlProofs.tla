------------------------- MODULE RemoteControlProofs -------------------------
(* Proofs about ServerService and RemoteControl.                            *)
EXTENDS RemoteControl, FiniteSetTheorems, FunctionTheorems, TLAPS

-----------------------------------------------------------------------------
(* What a sequence of events makes of the computer's buttons and keys, told *)
(* without applying the events one by one.                                  *)

Silent(s, x) == \A i \in DOMAIN s : x \notin Decides(s[i])

LastDown(s, x) ==
    \E i \in DOMAIN s :
        /\ x \in LeavesDown(s[i])
        /\ \A j \in DOMAIN s : j > i => x \notin Decides(s[j])

\* x is down when the events of s have been applied to h.
WillHold(s, h, x) == LastDown(s, x) \/ (Silent(s, x) /\ x \in h)

Applied(h, m) == (h \ LeavesUp(m)) \cup LeavesDown(m)

\* t is s without its element i.
Without(s, t, i) ==
    /\ Len(s) = Len(t) + 1
    /\ \A j \in 1 .. Len(t) : t[j] = IF j < i THEN s[j] ELSE s[j + 1]

LEMMA DownsAreDecided == \A m : LeavesDown(m) \subseteq Decides(m)
BY DEF Decides

LEMMA UpsAreDecided ==
    \A m : \A x \in Decides(m) : x \notin LeavesDown(m) => x \in LeavesUp(m)
BY DEF Decides

(* An event that comes last decides what it decides.                        *)
LEMMA AppendedDecides ==
    ASSUME NEW s \in Seq(Message), NEW e \in Message, NEW h, NEW x,
           NEW t, t = Append(s, e)
    PROVE  WillHold(t, h, x) <=>
             IF x \in Decides(e) THEN x \in LeavesDown(e) ELSE WillHold(s, h, x)
<1>1. /\ Len(s) \in Nat
      /\ DOMAIN s = 1 .. Len(s)
      /\ DOMAIN t = 1 .. Len(s) + 1
      /\ t[Len(s) + 1] = e
      /\ \A i \in 1 .. Len(s) : t[i] = s[i]
  OBVIOUS
<1>2. CASE x \in Decides(e)
  <2>1. ~Silent(t, x)
    BY <1>1, <1>2 DEF Silent
  <2>2. LastDown(t, x) => x \in LeavesDown(e)
    <3> SUFFICES ASSUME NEW i \in DOMAIN t, x \in LeavesDown(t[i]),
                        \A j \in DOMAIN t : j > i => x \notin Decides(t[j])
                 PROVE  x \in LeavesDown(e)
      BY DEF LastDown
    <3>1. i = Len(s) + 1
      BY <1>1, <1>2
    <3> QED
      BY <3>1, <1>1
  <2>3. x \in LeavesDown(e) => LastDown(t, x)
    <3>1. Len(s) + 1 \in DOMAIN t /\ \A j \in DOMAIN t : ~(j > Len(s) + 1)
      BY <1>1
    <3> QED
      BY <3>1, <1>1 DEF LastDown
  <2> QED
    BY <1>2, <2>1, <2>2, <2>3 DEF WillHold
<1>3. CASE x \notin Decides(e)
  <2>1. Silent(t, x) <=> Silent(s, x)
    <3>1. \A i \in DOMAIN t : i = Len(s) + 1 \/ i \in DOMAIN s
      BY <1>1
    <3>2. \A i \in DOMAIN s : i \in DOMAIN t
      BY <1>1
    <3> QED
      BY <1>1, <1>3, <3>1, <3>2 DEF Silent
  <2>2. ASSUME LastDown(t, x) PROVE LastDown(s, x)
    <3>1. PICK i \in DOMAIN t : /\ x \in LeavesDown(t[i])
                                /\ \A j \in DOMAIN t : j > i => x \notin Decides(t[j])
      BY <2>2 DEF LastDown
    <3>2. i # Len(s) + 1
      BY <3>1, <1>1, <1>3, DownsAreDecided
    <3>3. i \in DOMAIN s /\ \A j \in DOMAIN s : j \in DOMAIN t
      BY <1>1, <3>2
    <3> QED
      BY <1>1, <3>1, <3>3 DEF LastDown
  <2>3. ASSUME LastDown(s, x) PROVE LastDown(t, x)
    <3>1. PICK i \in DOMAIN s : /\ x \in LeavesDown(s[i])
                                /\ \A j \in DOMAIN s : j > i => x \notin Decides(s[j])
      BY <2>3 DEF LastDown
    <3>2. \A j \in DOMAIN t : j > i => x \notin Decides(t[j])
      BY <1>1, <1>3, <3>1
    <3>3. i \in DOMAIN t /\ t[i] = s[i]
      BY <1>1
    <3> QED
      BY <3>1, <3>2, <3>3 DEF LastDown
  <2> QED
    BY <1>3, <2>1, <2>2, <2>3 DEF WillHold
<1> QED
  BY <1>2, <1>3

(* A prefix says the same of an input the rest of the sequence leaves alone. *)
LEMMA PrefixDecides ==
    ASSUME NEW s \in Seq(Message), NEW r \in Seq(Message), NEW h, NEW x,
           x \notin DecidedBy(r)
    PROVE  WillHold(s \o r, h, x) <=> WillHold(s, h, x)
<1> DEFINE t == s \o r
<1>1. /\ Len(s) \in Nat /\ Len(r) \in Nat
      /\ DOMAIN s = 1 .. Len(s)
      /\ DOMAIN r = 1 .. Len(r)
      /\ DOMAIN t = 1 .. Len(s) + Len(r)
      /\ \A i \in 1 .. Len(s) : t[i] = s[i]
      /\ \A i \in DOMAIN t : i > Len(s) => t[i] = r[i - Len(s)] /\ i - Len(s) \in DOMAIN r
  OBVIOUS
<1>2. \A i \in DOMAIN r : x \notin Decides(r[i])
  BY DEF DecidedBy
<1> HIDE DEF t
<1>3. \A i \in DOMAIN t : i > Len(s) => x \notin Decides(t[i])
  BY <1>1, <1>2
<1>4. \A i \in DOMAIN t : i > Len(s) \/ i \in DOMAIN s
  BY <1>1
<1>5. \A i \in DOMAIN s : i \in DOMAIN t /\ t[i] = s[i]
  BY <1>1
<1>6. Silent(t, x) <=> Silent(s, x)
  BY <1>3, <1>4, <1>5 DEF Silent
<1>7. ASSUME LastDown(t, x) PROVE LastDown(s, x)
  <2>1. PICK i \in DOMAIN t : /\ x \in LeavesDown(t[i])
                              /\ \A j \in DOMAIN t : j > i => x \notin Decides(t[j])
    BY <1>7 DEF LastDown
  <2>2. i \in DOMAIN s
    BY <2>1, <1>3, <1>4, DownsAreDecided
  <2> QED
    BY <2>1, <2>2, <1>5 DEF LastDown
<1>8. ASSUME LastDown(s, x) PROVE LastDown(t, x)
  <2>1. PICK i \in DOMAIN s : /\ x \in LeavesDown(s[i])
                              /\ \A j \in DOMAIN s : j > i => x \notin Decides(s[j])
    BY <1>8 DEF LastDown
  <2>2. \A j \in DOMAIN t : j > i => x \notin Decides(t[j])
    BY <2>1, <1>3, <1>4, <1>5
  <2> QED
    BY <2>1, <2>2, <1>5 DEF LastDown
<1> QED
  BY <1>6, <1>7, <1>8 DEF WillHold, t

(* Each element of t is one of s, and each of s but s[i] is one of t.       *)
LEMMA WithoutIndices ==
    ASSUME NEW s \in Seq(Message), NEW t \in Seq(Message), NEW i \in DOMAIN s,
           Without(s, t, i)
    PROVE  /\ \A k \in DOMAIN t : k < i => k \in DOMAIN s /\ t[k] = s[k]
           /\ \A k \in DOMAIN t : ~(k < i) => k + 1 \in DOMAIN s /\ t[k] = s[k + 1]
           /\ \A j \in DOMAIN s : j < i => j \in DOMAIN t /\ t[j] = s[j]
           /\ \A j \in DOMAIN s : j > i => j - 1 \in DOMAIN t /\ t[j - 1] = s[j]
<1>1. /\ Len(s) \in Nat /\ Len(t) \in Nat /\ Len(s) = Len(t) + 1
      /\ DOMAIN s = 1 .. Len(s)
      /\ DOMAIN t = 1 .. Len(t)
      /\ \A k \in 1 .. Len(t) : t[k] = IF k < i THEN s[k] ELSE s[k + 1]
  BY DEF Without
<1>2. i \in 1 .. Len(s)
  BY <1>1
<1>3. \A k \in DOMAIN t : k < i => k \in DOMAIN s /\ t[k] = s[k]
  BY <1>1, <1>2
<1>4. \A k \in DOMAIN t : ~(k < i) => k + 1 \in DOMAIN s /\ t[k] = s[k + 1]
  BY <1>1, <1>2
<1>5. \A j \in DOMAIN s : j < i => j \in DOMAIN t /\ t[j] = s[j]
  BY <1>1, <1>2
<1>6. \A j \in DOMAIN s : j > i => j - 1 \in DOMAIN t /\ t[j - 1] = s[j]
  <2> SUFFICES ASSUME NEW j \in DOMAIN s, j > i
               PROVE  j - 1 \in DOMAIN t /\ t[j - 1] = s[j]
    OBVIOUS
  <2>1. j - 1 \in 1 .. Len(t) /\ ~(j - 1 < i) /\ (j - 1) + 1 = j
    BY <1>1, <1>2
  <2> QED
    BY <1>1, <2>1
<1> QED
  BY <1>3, <1>4, <1>5, <1>6

(* Taking out an element that is not the last word about x changes nothing  *)
(* for x.                                                                   *)
LEMMA LostHarmlessly ==
    ASSUME NEW s \in Seq(Message), NEW t \in Seq(Message), NEW i \in DOMAIN s,
           Without(s, t, i), NEW h, NEW x, x \notin LastWord(s, i)
    PROVE  /\ Silent(t, x) <=> Silent(s, x)
           /\ LastDown(t, x) <=> LastDown(s, x)
           /\ WillHold(t, h, x) <=> WillHold(s, h, x)
<1>1. /\ \A k \in DOMAIN t : k < i => k \in DOMAIN s /\ t[k] = s[k]
      /\ \A k \in DOMAIN t : ~(k < i) => k + 1 \in DOMAIN s /\ t[k] = s[k + 1]
      /\ \A j \in DOMAIN s : j < i => j \in DOMAIN t /\ t[j] = s[j]
      /\ \A j \in DOMAIN s : j > i => j - 1 \in DOMAIN t /\ t[j - 1] = s[j]
  BY WithoutIndices
<1>2. /\ DOMAIN s \subseteq Nat /\ DOMAIN t \subseteq Nat
      /\ i \in Nat
  OBVIOUS
<1>3. x \in Decides(s[i]) => \E j \in DOMAIN s : j > i /\ x \in Decides(s[j])
  BY DEF LastWord
<1>4. Silent(s, x) => Silent(t, x)
  BY <1>1 DEF Silent
<1>5. ASSUME Silent(t, x) PROVE Silent(s, x)
  <2>1. \A j \in DOMAIN s : j # i => x \notin Decides(s[j])
    BY <1>1, <1>2, <1>5 DEF Silent
  <2> QED
    BY <2>1, <1>2, <1>3 DEF Silent
<1>6. ASSUME LastDown(t, x) PROVE LastDown(s, x)
  <2>1. PICK k \in DOMAIN t : /\ x \in LeavesDown(t[k])
                              /\ \A j \in DOMAIN t : j > k => x \notin Decides(t[j])
    BY <1>6 DEF LastDown
  <2>2. CASE k < i
    <3>1. k \in DOMAIN s /\ x \in LeavesDown(s[k])
      BY <1>1, <2>1, <2>2
    <3>2. \A j \in DOMAIN s : j > i => x \notin Decides(s[j])
      <4> SUFFICES ASSUME NEW j \in DOMAIN s, j > i
                   PROVE  x \notin Decides(s[j])
        OBVIOUS
      <4>1. j - 1 \in DOMAIN t /\ t[j - 1] = s[j] /\ j - 1 > k
        BY <1>1, <1>2, <2>2
      <4> QED
        BY <4>1, <2>1
    <3>3. \A j \in DOMAIN s : j > k => x \notin Decides(s[j])
      <4> SUFFICES ASSUME NEW j \in DOMAIN s, j > k
                   PROVE  x \notin Decides(s[j])
        OBVIOUS
      <4>1. CASE j < i
        BY <4>1, <1>1, <2>1
      <4>2. CASE j > i
        BY <4>2, <3>2
      <4>3. CASE j = i
        BY <4>3, <3>2, <1>3
      <4> QED
        BY <4>1, <4>2, <4>3, <1>2
    <3> QED
      BY <3>1, <3>3 DEF LastDown
  <2>3. CASE ~(k < i)
    <3>1. k + 1 \in DOMAIN s /\ x \in LeavesDown(s[k + 1])
      BY <1>1, <2>1, <2>3
    <3>2. \A j \in DOMAIN s : j > k + 1 => x \notin Decides(s[j])
      <4> SUFFICES ASSUME NEW j \in DOMAIN s, j > k + 1
                   PROVE  x \notin Decides(s[j])
        OBVIOUS
      <4>1. j > i /\ j - 1 > k
        BY <1>2, <2>3
      <4> QED
        BY <4>1, <1>1, <2>1
    <3> QED
      BY <3>1, <3>2 DEF LastDown
  <2> QED
    BY <2>2, <2>3
<1>7. ASSUME LastDown(s, x) PROVE LastDown(t, x)
  <2>1. PICK k \in DOMAIN s : /\ x \in LeavesDown(s[k])
                              /\ \A j \in DOMAIN s : j > k => x \notin Decides(s[j])
    BY <1>7 DEF LastDown
  <2>2. k # i
    BY <2>1, <1>3, DownsAreDecided
  <2>3. CASE k < i
    <3>1. k \in DOMAIN t /\ x \in LeavesDown(t[k])
      BY <1>1, <2>1, <2>3
    <3>2. \A j \in DOMAIN t : j > k => x \notin Decides(t[j])
      <4> SUFFICES ASSUME NEW j \in DOMAIN t, j > k
                   PROVE  x \notin Decides(t[j])
        OBVIOUS
      <4>1. CASE j < i
        BY <4>1, <1>1, <2>1
      <4>2. CASE ~(j < i)
        <5>1. j + 1 \in DOMAIN s /\ t[j] = s[j + 1] /\ j + 1 > k
          BY <4>2, <1>1, <1>2
        <5> QED
          BY <5>1, <2>1
      <4> QED
        BY <4>1, <4>2
    <3> QED
      BY <3>1, <3>2 DEF LastDown
  <2>4. CASE k > i
    <3>1. k - 1 \in DOMAIN t /\ x \in LeavesDown(t[k - 1])
      BY <1>1, <2>1, <2>4
    <3>2. \A j \in DOMAIN t : j > k - 1 => x \notin Decides(t[j])
      <4> SUFFICES ASSUME NEW j \in DOMAIN t, j > k - 1
                   PROVE  x \notin Decides(t[j])
        OBVIOUS
      <4>1. ~(j < i) /\ j + 1 > k
        BY <1>2, <2>4
      <4>2. j + 1 \in DOMAIN s /\ t[j] = s[j + 1]
        BY <4>1, <1>1
      <4> QED
        BY <4>1, <4>2, <2>1
    <3> QED
      BY <3>1, <3>2 DEF LastDown
  <2> QED
    BY <2>2, <2>3, <2>4, <1>2
<1> QED
  BY <1>4, <1>5, <1>6, <1>7 DEF WillHold

(* Applying an event before older ones does no harm to what they leave      *)
(* alone, nor to what a younger one settles.                                *)
LEMMA DeliveredHarmlessly ==
    ASSUME NEW s \in Seq(Message), NEW t \in Seq(Message), NEW i \in DOMAIN s,
           Without(s, t, i), NEW h, NEW x,
           x \in LastWord(s, i) => \A j \in DOMAIN s : j < i => x \notin Decides(s[j])
    PROVE  WillHold(t, Applied(h, s[i]), x) <=> WillHold(s, h, x)
<1>1. CASE x \notin LastWord(s, i)
  <2>1. /\ Silent(t, x) <=> Silent(s, x)
        /\ LastDown(t, x) <=> LastDown(s, x)
    BY <1>1, LostHarmlessly
  <2>2. Silent(s, x) => (x \in Applied(h, s[i]) <=> x \in h)
    BY DEF Silent, Applied, Decides
  <2> QED
    BY <2>1, <2>2 DEF WillHold
<1>2. CASE x \in LastWord(s, i)
  <2>1. DOMAIN s \subseteq Nat /\ i \in Nat
    OBVIOUS
  <2>2. \A j \in DOMAIN s : j # i => x \notin Decides(s[j])
    BY <1>2, <2>1 DEF LastWord
  <2>3. x \in Decides(s[i])
    BY <1>2 DEF LastWord
  <2>4. Silent(t, x)
    <3>1. \A k \in DOMAIN t : k < i => k \in DOMAIN s /\ t[k] = s[k]
      BY WithoutIndices
    <3>2. \A k \in DOMAIN t : ~(k < i) => k + 1 \in DOMAIN s /\ t[k] = s[k + 1]
      BY WithoutIndices
    <3>3. \A k \in DOMAIN t : ~(k < i) => k + 1 # i
      BY <2>1
    <3> QED
      BY <3>1, <3>2, <3>3, <2>1, <2>2 DEF Silent
  <2>5. ~LastDown(t, x)
    BY <2>4, DownsAreDecided DEF Silent, LastDown
  <2>6. LastDown(s, x) <=> x \in LeavesDown(s[i])
    <3>1. \A j \in DOMAIN s : x \in LeavesDown(s[j]) => j = i
      BY <2>2, DownsAreDecided
    <3>2. \A j \in DOMAIN s : j > i => x \notin Decides(s[j])
      BY <2>1, <2>2
    <3> QED
      BY <3>1, <3>2 DEF LastDown
  <2>7. ~Silent(s, x)
    BY <2>3 DEF Silent
  <2>8. x \in Applied(h, s[i]) <=> x \in LeavesDown(s[i])
    BY <2>3 DEF Applied, Decides
  <2> QED
    BY <2>4, <2>5, <2>6, <2>7, <2>8 DEF WillHold
<1> QED
  BY <1>1, <1>2

(* Applying the first event and keeping it does no harm at all.             *)
LEMMA DuplicatedHarmlessly ==
    ASSUME NEW s \in Seq(Message), 1 \in DOMAIN s, NEW h, NEW x
    PROVE  WillHold(s, Applied(h, s[1]), x) <=> WillHold(s, h, x)
<1>1. Silent(s, x) => (x \in Applied(h, s[1]) <=> x \in h)
  BY DEF Silent, Applied, Decides
<1> QED
  BY <1>1 DEF WillHold

-----------------------------------------------------------------------------
(* The pipeline: what the steps do to net and queue, seen as one sequence.  *)

LEMMA RemovedFromNet ==
    ASSUME NEW n \in Seq(Message), NEW q \in Seq(Message), NEW i \in DOMAIN n
    PROVE  /\ RemoveAt(n, i) \in Seq(Message)
           /\ RemoveAt(n, i) \o q \in Seq(Message)
           /\ i \in DOMAIN (n \o q)
           /\ (n \o q)[i] = n[i]
           /\ Without(n \o q, RemoveAt(n, i) \o q, i)
<1> DEFINE a == SubSeq(n, 1, i - 1)
           b == SubSeq(n, i + 1, Len(n))
           r == RemoveAt(n, i)
<1>1. i \in 1 .. Len(n) /\ Len(n) \in Nat /\ Len(q) \in Nat
  OBVIOUS
<1>2. /\ a \in Seq(Message)
      /\ Len(a) = i - 1
      /\ \A j \in 1 .. i - 1 : a[j] = n[j]
  BY <1>1
<1>3. /\ b \in Seq(Message)
      /\ Len(b) = Len(n) - i
      /\ \A j \in 1 .. Len(n) - i : b[j] = n[i + j]
  BY <1>1
<1>4. r = a \o b
  BY DEF RemoveAt
<1> HIDE DEF a, b, r
<1>5. /\ r \in Seq(Message)
      /\ Len(r) = Len(n) - 1
      /\ \A j \in 1 .. Len(r) : r[j] = IF j < i THEN n[j] ELSE n[j + 1]
  <2>1. r \in Seq(Message) /\ Len(r) = Len(n) - 1
    BY <1>1, <1>2, <1>3, <1>4
  <2>2. ASSUME NEW j \in 1 .. Len(r), j < i
        PROVE  r[j] = n[j]
    <3>1. j \in 1 .. Len(a) /\ j \in 1 .. i - 1
      BY <1>1, <1>2, <2>1, <2>2
    <3>2. (a \o b)[j] = a[j]
      BY <3>1, <1>2, <1>3
    <3> QED
      BY <3>1, <3>2, <1>2, <1>4
  <2>3. ASSUME NEW j \in 1 .. Len(r), ~(j < i)
        PROVE  r[j] = n[j + 1]
    <3>1. r[j] = b[j - (i - 1)] /\ j - (i - 1) \in 1 .. Len(n) - i
      <4>1. \A u, v \in Seq(Message) : \A k \in 1 .. Len(u) + Len(v) :
              k > Len(u) => (u \o v)[k] = v[k - Len(u)]
        <5> SUFFICES ASSUME NEW u \in Seq(Message), NEW v \in Seq(Message),
                            NEW k \in 1 .. Len(u) + Len(v), k > Len(u)
                     PROVE  (u \o v)[k] = v[k - Len(u)]
          OBVIOUS
        <5>1. Len(u) \in Nat /\ Len(v) \in Nat
          OBVIOUS
        <5> QED
          BY <5>1
      <4>2. j \in 1 .. Len(a) + Len(b) /\ j > Len(a)
        <5>1. Len(a) = i - 1 /\ Len(b) = Len(n) - i /\ Len(r) = Len(n) - 1
          BY <1>2, <1>3, <2>1
        <5>2. i \in Nat /\ Len(n) \in Nat /\ j \in 1 .. Len(n) - 1
          BY <1>1, <5>1
        <5> QED
          BY <5>1, <5>2, <2>3
      <4>3. (a \o b)[j] = b[j - Len(a)]
        <5>1. \A k \in 1 .. Len(a) + Len(b) : k > Len(a) => (a \o b)[k] = b[k - Len(a)]
          <6>1. a \in Seq(Message) /\ b \in Seq(Message)
            BY <1>2, <1>3
          <6> QED
            BY <4>1, <6>1
        <5> QED
          BY <4>2, <5>1
      <4>4. j - (i - 1) \in 1 .. Len(n) - i
        BY <1>1, <2>1, <2>3
      <4> QED
        BY <4>3, <4>4, <1>2, <1>4
    <3>2. i + (j - (i - 1)) = j + 1
      BY <1>1, <2>1
    <3> QED
      BY <3>1, <3>2, <1>3
  <2> QED
    BY <2>1, <2>2, <2>3
<1>6. r \o q \in Seq(Message) /\ Len(r \o q) = Len(n) - 1 + Len(q)
  <2>1. \A u, v \in Seq(Message) : u \o v \in Seq(Message) /\ Len(u \o v) = Len(u) + Len(v)
    OBVIOUS
  <2>2. r \o q \in Seq(Message) /\ Len(r \o q) = Len(r) + Len(q)
    BY <2>1, <1>5
  <2> QED
    BY <2>2, <1>5
<1>7. n \o q \in Seq(Message) /\ Len(n \o q) = Len(n) + Len(q)
  BY <1>1
<1>8. \A j \in 1 .. Len(r \o q) :
        (r \o q)[j] = IF j < i THEN (n \o q)[j] ELSE (n \o q)[j + 1]
  <2> SUFFICES ASSUME NEW j \in 1 .. Len(r \o q)
               PROVE  (r \o q)[j] = IF j < i THEN (n \o q)[j] ELSE (n \o q)[j + 1]
    OBVIOUS
  <2>1. CASE j <= Len(r)
    <3>1. (r \o q)[j] = r[j]
      BY <2>1, <1>5, <1>6
    <3>2. (n \o q)[j] = n[j] /\ (n \o q)[j + 1] = n[j + 1]
      BY <2>1, <1>1, <1>5, <1>6
    <3>3. j \in 1 .. Len(r)
      BY <2>1, <1>5, <1>6
    <3> QED
      BY <3>1, <3>2, <3>3, <1>5
  <2>2. CASE j > Len(r)
    <3>1. (r \o q)[j] = q[j - Len(r)]
      BY <2>2, <1>5, <1>6
    <3>2. (n \o q)[j + 1] = q[(j + 1) - Len(n)]
      BY <2>2, <1>1, <1>5, <1>6
    <3>3. ~(j < i) /\ (j + 1) - Len(n) = j - Len(r)
      BY <2>2, <1>1, <1>5, <1>6
    <3> QED
      BY <3>1, <3>2, <3>3
  <2>3. j <= Len(r) \/ j > Len(r)
    BY <1>5, <1>6
  <2> QED
    BY <2>1, <2>2, <2>3
<1>9. Without(n \o q, r \o q, i)
  BY <1>1, <1>6, <1>7, <1>8 DEF Without
<1>10. i \in DOMAIN (n \o q) /\ (n \o q)[i] = n[i]
  BY <1>1, <1>7
<1> QED
  BY <1>5, <1>6, <1>9, <1>10 DEF r

LEMMA SentFromQueue ==
    ASSUME NEW n \in Seq(Message), NEW q \in Seq(Message), q # <<>>
    PROVE  Append(n, Head(q)) \o Tail(q) = n \o q
OBVIOUS

LEMMA QueuedInPipeline ==
    ASSUME NEW n \in Seq(Message), NEW q \in Seq(Message),
           NEW e \in Message, NEW f \in Message
    PROVE  /\ n \o (q \o <<e>>) = Append(n \o q, e)
           /\ n \o (q \o <<e, f>>) = Append(Append(n \o q, e), f)
           /\ q \o <<e>> \in Seq(Message)
           /\ q \o <<e, f>> \in Seq(Message)
<1>1. n \o q \in Seq(Message)
  OBVIOUS
<1>2. q \o <<e>> = Append(q, e) /\ q \o <<e, f>> = Append(Append(q, e), f)
  BY SMTT(20)
<1>3. /\ n \o Append(q, e) = Append(n \o q, e)
      /\ n \o Append(Append(q, e), f) = Append(Append(n \o q, e), f)
  <2>1. \A r \in Seq(Message), m \in Message : n \o Append(r, m) = Append(n \o r, m)
    OBVIOUS
  <2>2. Append(q, e) \in Seq(Message)
    OBVIOUS
  <2> QED
    BY <2>1, <2>2
<1>4. q \o <<e>> \in Seq(Message) /\ q \o <<e, f>> \in Seq(Message)
  BY <1>2
<1> QED
  BY <1>2, <1>3, <1>4

LEMMA DecidedByEvents ==
    ASSUME NEW e, NEW f
    PROVE  /\ DecidedBy(<<e>>) = Decides(e)
           /\ DecidedBy(<<e, f>>) = Decides(e) \cup Decides(f)
<1>1. DecidedBy(<<e>>) = Decides(e)
  <2>1. DOMAIN <<e>> = {1} /\ <<e>>[1] = e
    OBVIOUS
  <2> QED
    BY <2>1 DEF DecidedBy
<1>2. DecidedBy(<<e, f>>) = Decides(e) \cup Decides(f)
  <2>1. DOMAIN <<e, f>> = {1, 2} /\ <<e, f>>[1] = e /\ <<e, f>>[2] = f
    OBVIOUS
  <2> QED
    BY <2>1 DEF DecidedBy
<1> QED
  BY <1>1, <1>2

-----------------------------------------------------------------------------
(* What the messages of the phone are and decide.                           *)

LEMMA DecidesInputs ==
    ASSUME NEW m \in Message
    PROVE  Decides(m) \subseteq Input
<1>1. CASE m.type = "mouse"
  <2>1. m.what \in MouseType
    BY <1>1 DEF Message
  <2>2. PICK t \in MouseType : t = m.what
    BY <2>1
  <2>3. t \in 1 .. 9 => (t - 1) \div 3 \in 0 .. 2
    BY DEF MouseType
  <2>4. MouseDowns(t) \subseteq Input
    BY <2>3 DEF MouseDowns, IsButtonDown, IsButtonEvent, ButtonOf, Input, Button, RightButton
  <2>5. MouseUps(t) \subseteq Input
    BY <2>3 DEF MouseUps, IsButtonDown, IsButtonEvent, ButtonOf, Input, Button,
                RightButton, LeftButton
  <2> QED
    BY <1>1, <2>2, <2>4, <2>5 DEF Decides, LeavesDown, LeavesUp
<1>2. CASE m.type = "function"
  <2>1. m.what \in FuncKey
    BY <1>2 DEF Message
  <2>2. PICK t \in FuncKey : t = m.what
    BY <2>1
  <2>3. t \div 2 \in 0 .. 16
    BY DEF FuncKey
  <2> QED
    BY <1>2, <2>2, <2>3 DEF Decides, LeavesDown, LeavesUp, KeyDowns, KeyUps, KeyOf, Input, Key
<1>3. CASE m.type = "ascii"
  <2>1. m.what \in Char
    BY <1>3 DEF Message
  <2>2. StrokedBy(m.what) \subseteq Input
    BY <2>1, ServerAssumption DEF StrokedBy, Input
  <2> QED
    BY <1>3, <2>2 DEF Decides, LeavesDown, LeavesUp
<1>4. CASE m.type \notin {"mouse", "function", "ascii"}
  BY <1>4 DEF Decides, LeavesDown, LeavesUp
<1> QED
  BY <1>1, <1>2, <1>3, <1>4

LEMMA ButtonEvents ==
    ASSUME NEW b \in Button, NEW p \in Password,
           NEW d, d = [type |-> "mouse", what |-> 3 * b + 1, pwd |-> p],
           NEW u, u = [type |-> "mouse", what |-> 3 * b + 2, pwd |-> p]
    PROVE  /\ d \in Message /\ u \in Message
           /\ LeavesDown(d) = {<<"button", b>>} /\ LeavesUp(d) = {}
           /\ LeavesDown(u) = {} /\ LeavesUp(u) = {<<"button", b>>}
<1>1. b \in {0, 1, 2}
  BY DEF Button
<1>2. /\ 3 * b + 1 \in 1 .. 9 /\ 3 * b + 2 \in 1 .. 9
      /\ ((3 * b + 1) - 1) \div 3 = b /\ ((3 * b + 2) - 1) \div 3 = b
      /\ ((3 * b + 1) - 1) % 3 = 0 /\ ((3 * b + 2) - 1) % 3 = 1
  BY <1>1
<1>3. d.type = "mouse" /\ d.what = 3 * b + 1 /\ u.type = "mouse" /\ u.what = 3 * b + 2
  OBVIOUS
<1>4. d \in Message /\ u \in Message
  <2>1. 3 * b + 1 \in MouseType /\ 3 * b + 2 \in MouseType
    BY <1>1 DEF MouseType
  <2> QED
    BY <2>1 DEF Message
<1>5. MouseDowns(3 * b + 1) = {<<"button", b>>} /\ MouseDowns(3 * b + 2) = {}
  BY <1>1, <1>2 DEF MouseDowns, IsButtonDown, IsButtonEvent, ButtonOf, MiddleClick
<1>6. MouseUps(3 * b + 1) = {} /\ MouseUps(3 * b + 2) = {<<"button", b>>}
  BY <1>1, <1>2 DEF MouseUps, IsButtonDown, IsButtonEvent, ButtonOf, MiddleClick,
                    LeftClick, RightClick
<1> QED
  BY <1>3, <1>4, <1>5, <1>6 DEF LeavesDown, LeavesUp

LEMMA KeyEvents ==
    ASSUME NEW k \in Key, NEW p \in Password,
           NEW d, d = [type |-> "function", what |-> 2 * k, pwd |-> p],
           NEW u, u = [type |-> "function", what |-> 2 * k + 1, pwd |-> p]
    PROVE  /\ d \in Message /\ u \in Message
           /\ LeavesDown(d) = {<<"key", k>>} /\ LeavesUp(d) = {}
           /\ LeavesDown(u) = {} /\ LeavesUp(u) = {<<"key", k>>}
<1>1. /\ 2 * k \in FuncKey /\ 2 * k + 1 \in FuncKey
      /\ (2 * k) \div 2 = k /\ (2 * k + 1) \div 2 = k
      /\ (2 * k) % 2 = 0 /\ (2 * k + 1) % 2 = 1
  BY DEF Key, FuncKey
<1>2. d \in Message /\ u \in Message
  BY <1>1 DEF Message
<1>3. d.type = "function" /\ d.what = 2 * k /\ u.type = "function" /\ u.what = 2 * k + 1
  OBVIOUS
<1>4. /\ KeyDowns(2 * k) = {<<"key", k>>} /\ KeyDowns(2 * k + 1) = {}
      /\ KeyUps(2 * k) = {} /\ KeyUps(2 * k + 1) = {<<"key", k>>}
  BY <1>1 DEF KeyDowns, KeyUps, KeyOf
<1> QED
  BY <1>2, <1>3, <1>4 DEF LeavesDown, LeavesUp

(* The press and the release of a control decide that control and no other. *)
LEMMA ControlEvents ==
    ASSUME NEW c \in Control, session.pwd \in Password
    PROVE  /\ PressEvent(c) \in Message /\ ReleaseEvent(c) \in Message
           /\ LeavesDown(PressEvent(c)) = {c} /\ LeavesUp(PressEvent(c)) = {}
           /\ LeavesDown(ReleaseEvent(c)) = {} /\ LeavesUp(ReleaseEvent(c)) = {c}
<1>1. CASE c \in {"button"} \X PressedButton
  <2>1. PICK b \in Button : c = <<"button", b>>
    BY <1>1, RemoteAssumption
  <2>2. /\ PressEvent(c) = [type |-> "mouse", what |-> 3 * b + 1, pwd |-> session.pwd]
        /\ ReleaseEvent(c) = [type |-> "mouse", what |-> 3 * b + 2, pwd |-> session.pwd]
    BY <2>1 DEF PressEvent, ReleaseEvent, MouseEvent
  <2> QED
    BY <2>1, <2>2, ButtonEvents
<1>2. CASE c \in {"key"} \X PressedKey
  <2>1. PICK k \in Key : c = <<"key", k>>
    BY <1>2, RemoteAssumption
  <2>2. /\ PressEvent(c) = [type |-> "function", what |-> 2 * k, pwd |-> session.pwd]
        /\ ReleaseEvent(c) = [type |-> "function", what |-> 2 * k + 1, pwd |-> session.pwd]
    BY <2>1 DEF PressEvent, ReleaseEvent, FunctionEvent
  <2> QED
    BY <2>1, <2>2, KeyEvents
<1> QED
  BY <1>1, <1>2 DEF Control

-----------------------------------------------------------------------------
(* The server's handlers keep its state well formed, and every queued reply *)
(* with a notification of its own.                                          *)

ServerInv == ServerTypeOK /\ RepliesHaveNotice

LEMMA ClosedServer ==
    ASSUME NEW p \in Password, NEW r, r = [Closed EXCEPT !.open = TRUE, !.pwd = p]
    PROVE  /\ Closed \in ServerState /\ r \in ServerState
           /\ Len(Closed.output) <= Closed.notices
           /\ Len(r.output) <= r.notices
<1>1. <<>> \in Seq(Peer) /\ Len(<<>>) = 0
  OBVIOUS
<1>2. /\ Closed \in ServerState
      /\ Closed.output = <<>>
      /\ Closed.notices = 0
  BY <1>1, ServerAssumption DEF Closed, ServerState
<1>3. /\ r \in ServerState
      /\ r.output = <<>>
      /\ r.notices = 0
  BY <1>1 DEF Closed, ServerState
<1> QED
  BY <1>1, <1>2, <1>3

LEMMA OnReceiveInv ==
    ASSUME ServerInv, NEW m \in Message, NEW p \in Peer, OnReceive(m, p)
    PROVE  ServerInv' /\ (Ignored(m) => held' = held)
           /\ (~Ignored(m) => held' = Applied(held, m))
<1>1. CASE Ignored(m)
  BY <1>1 DEF OnReceive, serverVars, ServerInv, ServerTypeOK, RepliesHaveNotice
<1>2. CASE ~Ignored(m) /\ m.type = "request"
  <2>1. OnDiscoveryRequest(p)
    BY <1>2 DEF OnReceive, Handle
  <2>2. held' = held /\ answered' = answered /\ asked' \in [Peer -> Nat]
    BY <2>1 DEF OnDiscoveryRequest, ServerInv, ServerTypeOK
  <2>3. held' = Applied(held, m)
    BY <2>2, <1>2 DEF Applied, LeavesDown, LeavesUp
  <2>4. CASE UNCHANGED srv
    BY <2>2, <2>3, <2>4, <1>2 DEF ServerInv, ServerTypeOK, RepliesHaveNotice
  <2>5. CASE QueueReply(p)
    <3>1. Append(srv.output, p) \in Seq(Peer)
          /\ Len(Append(srv.output, p)) = Len(srv.output) + 1
          /\ Len(srv.output) \in Nat
          /\ srv \in ServerState
          /\ srv.notices \in Nat
      BY DEF ServerInv, ServerTypeOK, ServerState
    <3>4. srv' = [srv EXCEPT !.output = Append(srv.output, p), !.notices = srv.notices + 1]
      BY <2>5 DEF QueueReply
    <3>2. /\ srv'.output = Append(srv.output, p)
          /\ srv'.notices = srv.notices + 1
          /\ srv' \in ServerState
      <4>1. srv.notices + 1 \in Nat
        BY <3>1
      <4>2. PICK o \in Seq(Peer) : o = Append(srv.output, p)
        BY <3>1
      <4>3. PICK n \in Nat : n = srv.notices + 1
        BY <4>1
      <4>4. srv' = [srv EXCEPT !.output = o, !.notices = n]
        BY <3>4, <4>2, <4>3
      <4>5. srv' \in ServerState /\ srv'.output = o /\ srv'.notices = n
        BY <4>4, <3>1 DEF ServerState
      <4> QED
        BY <4>2, <4>3, <4>5
    <3>3. Len(srv'.output) <= srv'.notices
      BY <3>1, <3>2 DEF ServerInv, RepliesHaveNotice
    <3> QED
      BY <2>2, <2>3, <3>2, <3>3, <1>2 DEF ServerInv, ServerTypeOK, RepliesHaveNotice
  <2> QED
    BY <2>1, <2>4, <2>5 DEF OnDiscoveryRequest
<1>3. CASE ~Ignored(m) /\ m.type # "request"
  <2>1. Inject(m) /\ UNCHANGED <<srv, asked, answered>>
    BY <1>3 DEF OnReceive, Handle
  <2>2. held' = Applied(held, m)
    BY <2>1 DEF Inject, Applied
  <2>3. held' \subseteq Input
    BY <2>2, DecidesInputs DEF Applied, Decides, ServerInv, ServerTypeOK
  <2> QED
    BY <1>3, <2>1, <2>2, <2>3 DEF ServerInv, ServerTypeOK, RepliesHaveNotice
<1> QED
  BY <1>1, <1>2, <1>3

LEMMA OnSendInv ==
    ASSUME ServerInv, OnSend
    PROVE  ServerInv' /\ held' = held
<1>1. held' = held /\ asked' = asked /\ srv.notices > 0
  BY DEF OnSend
<1>2. srv.output \in Seq(Peer) /\ Len(srv.output) \in Nat /\ srv.notices \in Nat
      /\ Len(srv.output) <= srv.notices
      /\ srv \in ServerState
  BY DEF ServerInv, ServerTypeOK, ServerState, RepliesHaveNotice
<1>3. CASE SendReply
  <2>1. /\ Head(srv.output) \in Peer
        /\ Tail(srv.output) \in Seq(Peer)
        /\ Len(Tail(srv.output)) = Len(srv.output) - 1
    BY <1>2, <1>3 DEF SendReply
  <2>2. /\ srv' \in ServerState
        /\ srv'.output = Tail(srv.output)
        /\ srv'.notices = srv.notices - 1
    <3>1. srv' = [srv EXCEPT !.output = Tail(srv.output), !.notices = srv.notices - 1]
      BY <1>3 DEF SendReply
    <3> QED
      <4>1. srv.notices - 1 \in Nat
        BY <1>1, <1>2
      <4>2. PICK o \in Seq(Peer) : o = Tail(srv.output)
        BY <2>1
      <4>3. PICK n \in Nat : n = srv.notices - 1
        BY <4>1
      <4>4. srv' = [srv EXCEPT !.output = o, !.notices = n]
        BY <3>1, <4>2, <4>3
      <4>5. srv' \in ServerState /\ srv'.output = o /\ srv'.notices = n
        BY <4>4, <1>2 DEF ServerState
      <4> QED
        BY <4>2, <4>3, <4>5
  <2>3. answered' \in [Peer -> Nat]
    <3>1. answered \in [Peer -> Nat]
      BY DEF ServerInv, ServerTypeOK
    <3>2. PICK q \in Peer : q = Head(srv.output)
      BY <2>1
    <3>3. answered' = [answered EXCEPT ![q] = @ + 1] \/ answered' = answered
      BY <1>3, <3>2 DEF SendReply, Reply
    <3>4. [answered EXCEPT ![q] = @ + 1] \in [Peer -> Nat]
      BY <3>1
    <3> QED
      BY <3>1, <3>3, <3>4
  <2> QED
    BY <1>1, <1>2, <2>1, <2>2, <2>3 DEF ServerInv, ServerTypeOK, RepliesHaveNotice
<1>4. CASE NoReplyToSend
  <2>1. /\ srv' \in ServerState
        /\ srv'.output = <<>>
        /\ srv'.notices = srv.notices - 1
        /\ answered' = answered
    <3>1. srv' = [srv EXCEPT !.notices = srv.notices - 1] /\ srv.output = <<>>
          /\ answered' = answered
      BY <1>4 DEF NoReplyToSend
    <3> QED
      BY <1>1, <1>2, <3>1 DEF ServerState
  <2>2. Len(<<>>) = 0
    OBVIOUS
  <2>3. Len(srv'.output) <= srv'.notices
    BY <1>1, <1>2, <2>1, <2>2
  <2> QED
    BY <1>1, <2>1, <2>3 DEF ServerInv, ServerTypeOK, RepliesHaveNotice
<1> QED
  BY <1>1, <1>3, <1>4 DEF OnSend

LEMMA LifecycleInv ==
    ASSUME ServerInv, Lifecycle
    PROVE  ServerInv' /\ held' = held
<1>1. CASE Close
  <2>1. srv' = Closed /\ UNCHANGED <<held, asked, answered>>
    BY <1>1 DEF Close
  <2> QED
    BY <2>1, ClosedServer, ServerAssumption DEF ServerInv, ServerTypeOK, RepliesHaveNotice
<1>2. ASSUME NEW p \in Password, Create(p)
      PROVE  ServerInv' /\ held' = held
  <2>1. srv' = [Closed EXCEPT !.open = TRUE, !.pwd = p] /\ UNCHANGED <<held, asked, answered>>
    BY <1>2 DEF Create
  <2>2. srv' \in ServerState /\ Len(srv'.output) <= srv'.notices
    BY <2>1, ClosedServer
  <2> QED
    BY <2>1, <2>2 DEF ServerInv, ServerTypeOK, RepliesHaveNotice
<1> QED
  BY <1>1, <1>2 DEF Lifecycle

LEMMA ServerInitInv == ServerInit => ServerInv
<1> SUFFICES ASSUME ServerInit
             PROVE  ServerInv
  OBVIOUS
<1>1. srv = Closed /\ held = {} /\ asked \in [Peer -> Nat] /\ answered \in [Peer -> Nat]
  BY DEF ServerInit
<1> QED
  BY <1>1, ClosedServer, ServerAssumption DEF ServerInv, ServerTypeOK, RepliesHaveNotice

LEMMA ServerNextInv == ServerInv /\ [ServerNext]_serverVars => ServerInv'
<1> SUFFICES ASSUME ServerInv, [ServerNext]_serverVars
             PROVE  ServerInv'
  OBVIOUS
<1>1. CASE Receive
  BY <1>1, OnReceiveInv, ServerAssumption DEF Receive
<1>2. CASE OnSend
  BY <1>2, OnSendInv
<1>3. CASE Lifecycle
  BY <1>3, LifecycleInv
<1>4. CASE UNCHANGED serverVars
  BY <1>4 DEF serverVars, ServerInv, ServerTypeOK, RepliesHaveNotice
<1> QED
  BY <1>1, <1>2, <1>3, <1>4 DEF ServerNext

(* The server's state is well formed whatever is sent to it.                *)
THEOREM ServerTypes == ServerSpec => []ServerTypeOK
<1>1. ServerInv => ServerTypeOK
  BY DEF ServerInv
<1> QED
  BY <1>1, ServerInitInv, ServerNextInv, PTL DEF ServerSpec

(* OnSend sends one reply for each FD_WRITE: there is one to come for every *)
(* reply queued.                                                            *)
THEOREM RepliesAreNoticed == ServerSpec => []RepliesHaveNotice
<1>1. ServerInv => RepliesHaveNotice
  BY DEF ServerInv
<1> QED
  BY <1>1, ServerInitInv, ServerNextInv, PTL DEF ServerSpec

-----------------------------------------------------------------------------
(* Counting the replies that wait for an address.                           *)

WaitingIn(s, p) == {i \in DOMAIN s : s[i] = p}

LEMMA WaitingIsFinite ==
    ASSUME NEW s \in Seq(Peer), NEW p
    PROVE  /\ IsFiniteSet(WaitingIn(s, p))
           /\ Cardinality(WaitingIn(s, p)) \in Nat
<1>1. Len(s) \in Nat /\ DOMAIN s = 1 .. Len(s)
  OBVIOUS
<1>2. IsFiniteSet(1 .. Len(s))
  BY <1>1, FS_Interval
<1>3. WaitingIn(s, p) \in SUBSET (1 .. Len(s))
  BY <1>1 DEF WaitingIn
<1> QED
  BY <1>2, <1>3, FS_Subset, FS_CardinalityType

(* Nothing waits in an empty list.                                          *)
LEMMA NoneWaits == \A p : Cardinality(WaitingIn(<<>>, p)) = 0
<1>1. \A p : WaitingIn(<<>>, p) = {}
  BY DEF WaitingIn
<1> QED
  BY <1>1, FS_EmptySet

(* A reply put at the end counts for its own address.                       *)
LEMMA WaitingAppended ==
    ASSUME NEW s \in Seq(Peer), NEW q \in Peer, NEW p
    PROVE  Cardinality(WaitingIn(Append(s, q), p)) =
             Cardinality(WaitingIn(s, p)) + IF p = q THEN 1 ELSE 0
<1> DEFINE n == Len(s) + 1
<1>1. /\ Len(s) \in Nat
      /\ DOMAIN s = 1 .. Len(s)
      /\ DOMAIN Append(s, q) = 1 .. n
      /\ Append(s, q)[n] = q
      /\ \A i \in DOMAIN s : Append(s, q)[i] = s[i]
  OBVIOUS
<1>2. n \notin WaitingIn(s, p)
  BY <1>1 DEF WaitingIn
<1>3. IsFiniteSet(WaitingIn(s, p)) /\ Cardinality(WaitingIn(s, p)) \in Nat
  BY WaitingIsFinite
<1>4. CASE p = q
  <2>1. WaitingIn(Append(s, q), p) = WaitingIn(s, p) \cup {n}
    BY <1>1, <1>4 DEF WaitingIn
  <2> QED
    BY <1>2, <1>3, <1>4, <2>1, FS_AddElement
<1>5. CASE p # q
  <2>1. WaitingIn(Append(s, q), p) = WaitingIn(s, p)
    BY <1>1, <1>5 DEF WaitingIn
  <2> QED
    BY <1>3, <1>5, <2>1
<1> QED
  BY <1>4, <1>5

(* The first reply no longer counts for its address once it is taken out.   *)
LEMMA WaitingTaken ==
    ASSUME NEW s \in Seq(Peer), s # <<>>, NEW p
    PROVE  Cardinality(WaitingIn(Tail(s), p)) + (IF p = Head(s) THEN 1 ELSE 0)
             <= Cardinality(WaitingIn(s, p))
<1> DEFINE t == Tail(s)
           W == WaitingIn(s, p)
           f == [i \in WaitingIn(t, p) |-> i + 1]
<1>1. /\ Len(s) \in Nat /\ Len(s) > 0
      /\ DOMAIN s = 1 .. Len(s)
      /\ t \in Seq(Peer)
      /\ DOMAIN t = 1 .. Len(s) - 1
      /\ Head(s) = s[1]
      /\ \A i \in DOMAIN t : t[i] = s[i + 1]
  OBVIOUS
<1>2. /\ IsFiniteSet(W) /\ Cardinality(W) \in Nat
      /\ Cardinality(WaitingIn(t, p)) \in Nat
  BY <1>1, WaitingIsFinite
<1>3. /\ IsFiniteSet(W \ {1})
      /\ Cardinality(W \ {1}) = IF 1 \in W THEN Cardinality(W) - 1 ELSE Cardinality(W)
  BY <1>2, FS_RemoveElement
<1>4. 1 \in W <=> p = Head(s)
  BY <1>1 DEF WaitingIn
<1>5. f \in Injection(WaitingIn(t, p), W \ {1})
  <2>1. \A i \in WaitingIn(t, p) : i \in Nat \ {0} /\ i + 1 \in W
    BY <1>1 DEF WaitingIn
  <2>2. f \in [WaitingIn(t, p) -> W \ {1}]
    BY <2>1
  <2>3. \A i, j \in WaitingIn(t, p) : f[i] = f[j] => i = j
    BY <2>1
  <2> HIDE DEF f, W, t
  <2> QED
    BY <2>2, <2>3, Fun_IsInj
<1>6. Cardinality(WaitingIn(t, p)) <= Cardinality(W \ {1})
  BY <1>3, <1>5, FS_Injection
<1> QED
  BY <1>2, <1>3, <1>4, <1>6

(* What a handler of the server does to the list and to the two counts.     *)
LEMMA AnsweredStep ==
    ASSUME ServerInv, AnsweredAtMostOnce,
           \/ \E p \in Peer : \E m \in Message : OnReceive(m, p)
           \/ OnSend
           \/ Lifecycle
           \/ UNCHANGED serverVars
    PROVE  AnsweredAtMostOnce'
<1> DEFINE W(s, p) == Cardinality(WaitingIn(s, p))
<1>1. /\ srv.output \in Seq(Peer)
      /\ asked \in [Peer -> Nat] /\ answered \in [Peer -> Nat]
  BY DEF ServerInv, ServerTypeOK, ServerState
<1>2. \A p \in Peer : W(srv.output, p) \in Nat
  BY <1>1, WaitingIsFinite
<1>3. \A p \in Peer : answered[p] + W(srv.output, p) <= asked[p]
  BY DEF AnsweredAtMostOnce, Waiting, WaitingIn
<1>4. SUFFICES \A p \in Peer : answered'[p] + W(srv'.output, p) <= asked'[p]
  BY DEF AnsweredAtMostOnce, Waiting, WaitingIn
<1> HIDE DEF W
<1>5. ASSUME UNCHANGED <<srv, asked, answered>>
      PROVE  \A p \in Peer : answered'[p] + W(srv'.output, p) <= asked'[p]
  BY <1>3, <1>5
<1>6. ASSUME NEW q \in Peer, OnDiscoveryRequest(q)
      PROVE  \A p \in Peer : answered'[p] + W(srv'.output, p) <= asked'[p]
  <2>1. /\ asked' = [asked EXCEPT ![q] = @ + 1] /\ answered' = answered
        /\ QueueReply(q) \/ srv' = srv
    BY <1>6 DEF OnDiscoveryRequest
  <2>2. CASE srv' = srv
    BY <1>1, <1>2, <1>3, <2>1, <2>2
  <2>3. CASE QueueReply(q)
    <3>1. srv'.output = Append(srv.output, q)
      BY <2>3 DEF QueueReply, ServerInv, ServerTypeOK, ServerState
    <3>2. \A p \in Peer : W(srv'.output, p) = W(srv.output, p) + IF p = q THEN 1 ELSE 0
      BY <1>1, <3>1, WaitingAppended DEF W
    <3> QED
      BY <1>1, <1>2, <1>3, <2>1, <3>2
  <2> QED
    BY <2>1, <2>2, <2>3
<1>7. ASSUME srv' = Closed \/ \E c \in Password : srv' = [Closed EXCEPT !.open = TRUE, !.pwd = c],
             UNCHANGED <<asked, answered>>
      PROVE  \A p \in Peer : answered'[p] + W(srv'.output, p) <= asked'[p]
  <2>1. /\ Closed.output = <<>>
        /\ \A c \in Password : [Closed EXCEPT !.open = TRUE, !.pwd = c].output = <<>>
    BY DEF Closed
  <2>2. srv'.output = <<>>
    BY <1>7, <2>1
  <2>3. \A p \in Peer : W(srv'.output, p) = 0
    BY <2>2, NoneWaits DEF W
  <2>4. asked' = asked /\ answered' = answered
    BY <1>7
  <2> SUFFICES ASSUME NEW p \in Peer
               PROVE  answered'[p] + W(srv'.output, p) <= asked'[p]
    OBVIOUS
  <2>5. answered[p] \in Nat /\ W(srv.output, p) \in Nat /\ asked[p] \in Nat
        /\ answered[p] + W(srv.output, p) <= asked[p]
    BY <1>1, <1>2, <1>3
  <2> QED
    BY <2>3, <2>4, <2>5
<1>8. CASE \E p \in Peer : \E m \in Message : OnReceive(m, p)
  <2>1. PICK q \in Peer, m \in Message : OnReceive(m, q)
    BY <1>8
  <2>2. OnDiscoveryRequest(q) \/ UNCHANGED <<srv, asked, answered>>
    BY <2>1 DEF OnReceive, Handle, serverVars
  <2> QED
    BY <1>5, <1>6, <2>2
<1>9. CASE OnSend
  <2>1. asked' = asked
    BY <1>9 DEF OnSend
  <2>2. CASE SendReply
    <3>1. /\ srv.output # <<>> /\ srv'.output = Tail(srv.output)
          /\ Head(srv.output) \in Peer
      BY <1>1, <2>2 DEF SendReply, ServerInv, ServerTypeOK, ServerState
    <3>2. PICK q \in Peer : q = Head(srv.output)
      BY <3>1
    <3>3. answered' = [answered EXCEPT ![q] = @ + 1] \/ answered' = answered
      BY <2>2, <3>2 DEF SendReply, Reply
    <3>4. \A p \in Peer : W(srv'.output, p) + (IF p = q THEN 1 ELSE 0) <= W(srv.output, p)
      BY <1>1, <3>1, <3>2, WaitingTaken DEF W
    <3>5. \A p \in Peer : W(srv'.output, p) \in Nat
      <4>1. srv'.output \in Seq(Peer)
        BY <1>1, <3>1
      <4> QED
        BY <4>1, WaitingIsFinite DEF W
    <3> SUFFICES ASSUME NEW p \in Peer
                 PROVE  answered'[p] + W(srv'.output, p) <= asked'[p]
      OBVIOUS
    <3>6. answered'[p] \in Nat /\ answered'[p] <= answered[p] + IF p = q THEN 1 ELSE 0
      BY <1>1, <3>3
    <3>7. answered[p] \in Nat /\ W(srv.output, p) \in Nat /\ asked[p] \in Nat
          /\ answered[p] + W(srv.output, p) <= asked[p]
      BY <1>1, <1>2, <1>3
    <3> QED
      BY <2>1, <3>4, <3>5, <3>6, <3>7
  <2>3. CASE NoReplyToSend
    <3>1. srv'.output = srv.output /\ answered' = answered
      BY <2>3 DEF NoReplyToSend, ServerInv, ServerTypeOK, ServerState
    <3> QED
      BY <1>3, <2>1, <3>1
  <2> QED
    BY <1>9, <2>2, <2>3 DEF OnSend
<1>10. CASE Lifecycle
  BY <1>7, <1>10 DEF Lifecycle, Close, Create
<1>11. CASE UNCHANGED serverVars
  BY <1>5, <1>11 DEF serverVars
<1> QED
  BY <1>8, <1>9, <1>10, <1>11

(* A request is answered at most once, and to the address it came from,     *)
(* whatever is sent to the server and however often it is stopped.          *)
THEOREM RequestsAnsweredOnce == ServerSpec => []AnsweredAtMostOnce
<1>1. ServerInit => AnsweredAtMostOnce
  <2> SUFFICES ASSUME ServerInit, NEW p \in Peer
               PROVE  answered[p] + Cardinality(Waiting(p)) <= asked[p]
    BY DEF AnsweredAtMostOnce
  <2>1. answered[p] = 0 /\ asked[p] = 0 /\ srv.output = <<>>
    BY DEF ServerInit, Closed
  <2>2. Cardinality(Waiting(p)) = 0
    BY <2>1, NoneWaits DEF Waiting, WaitingIn
  <2> QED
    BY <2>1, <2>2
<1>2. ServerInv /\ AnsweredAtMostOnce /\ [ServerNext]_serverVars => AnsweredAtMostOnce'
  <2>1. Receive => \E p \in Peer : \E m \in Message : OnReceive(m, p)
    BY ServerAssumption DEF Receive
  <2> QED
    BY <2>1, AnsweredStep DEF ServerNext
<1> QED
  BY <1>1, <1>2, ServerInitInv, ServerNextInv, PTL DEF ServerSpec

-----------------------------------------------------------------------------
(* Agreement.  HeldIsPressed speaks of inputs nothing is on its way about,  *)
(* and is not inductive: the invariant says of every input that has not     *)
(* strayed what the computer will hold once everything on its way arrived.  *)

Agreed(s, h, f, amiss) == \A x \in Input \ amiss : WillHold(s, h, x) <=> x \in f

Agreement == Agreed(Pipeline, held, fingers, strayed)

IInv == TypeOK /\ RepliesHaveNotice /\ Agreement

LEMMA ControlsAreInputs == Control \subseteq Input
BY RemoteAssumption DEF Control, Input

LEMMA DecidedAreInputs ==
    ASSUME NEW s \in Seq(Message)
    PROVE  DecidedBy(s) \subseteq Input /\ \A i \in DOMAIN s : LastWord(s, i) \subseteq Input
<1>1. \A i \in DOMAIN s : s[i] \in Message
  OBVIOUS
<1>2. \A i \in DOMAIN s : Decides(s[i]) \subseteq Input
  BY <1>1, DecidesInputs
<1> QED
  BY <1>2 DEF DecidedBy, LastWord

(* An event at the end keeps the agreement, if the fingers and the strayed  *)
(* inputs follow it.                                                        *)
LEMMA AgreedAfterEvent ==
    ASSUME NEW s \in Seq(Message), NEW e \in Message, NEW h,
           NEW f, NEW amiss, NEW f2, NEW amiss2,
           Agreed(s, h, f, amiss),
           \A x \in Input \ amiss2 :
              IF x \in Decides(e) THEN x \in LeavesDown(e) <=> x \in f2
                                  ELSE x \notin amiss /\ (x \in f2 <=> x \in f)
    PROVE  Agreed(Append(s, e), h, f2, amiss2)
<1> SUFFICES ASSUME NEW x \in Input \ amiss2
             PROVE  WillHold(Append(s, e), h, x) <=> x \in f2
  BY DEF Agreed
<1>1. WillHold(Append(s, e), h, x) <=>
        IF x \in Decides(e) THEN x \in LeavesDown(e) ELSE WillHold(s, h, x)
  BY AppendedDecides
<1>2. x \notin amiss => (WillHold(s, h, x) <=> x \in f)
  BY DEF Agreed
<1> QED
  BY <1>1, <1>2

(* What Post leaves of the invariant to each action that calls it.          *)
LEMMA PostOne ==
    ASSUME IInv, NEW e \in Message, NEW amiss, amiss \subseteq Input,
           Post(<<e>>, amiss), fingers' \subseteq Control,
           \A x \in Input \ amiss :
              IF x \in Decides(e) THEN x \in LeavesDown(e) <=> x \in fingers'
                                  ELSE x \in fingers' <=> x \in fingers
    PROVE  IInv'
<1>1. /\ queue' = queue \o <<e>>
      /\ strayed' = (strayed \ Decides(e)) \cup amiss
      /\ UNCHANGED <<serverVars, session, net, view>>
  BY DecidedByEvents DEF Post
<1>2. net \in Seq(Message) /\ queue \in Seq(Message) /\ strayed \subseteq Input
  BY DEF IInv, TypeOK
<1>3. queue' \in Seq(Message) /\ Pipeline' = Append(Pipeline, e)
      /\ Pipeline \in Seq(Message)
  BY <1>1, <1>2, QueuedInPipeline DEF Pipeline
<1>4. Agreed(Append(Pipeline, e), held, fingers', strayed')
  <2>1. \A x \in Input \ strayed' :
          IF x \in Decides(e) THEN x \in LeavesDown(e) <=> x \in fingers'
                              ELSE x \notin strayed /\ (x \in fingers' <=> x \in fingers)
    BY <1>1
  <2>2. Agreed(Pipeline, held, fingers, strayed)
    BY DEF IInv, Agreement
  <2> QED
    BY <1>3, <2>1, <2>2, AgreedAfterEvent
<1>5. Agreement'
  BY <1>1, <1>3, <1>4 DEF Agreement, serverVars
<1>6. TypeOK' /\ RepliesHaveNotice'
  BY <1>1, <1>2, <1>3 DEF IInv, TypeOK, ServerTypeOK, RepliesHaveNotice, serverVars
<1> QED
  BY <1>5, <1>6 DEF IInv

LEMMA SessionPassword == IInv => session.pwd \in Password
BY DEF IInv, TypeOK

LEMMA PressInv == IInv /\ Press => IInv'
<1> SUFFICES ASSUME IInv, NEW c \in Controls(view) \ fingers,
                    fingers' = fingers \cup {c}, Post(<<PressEvent(c)>>, {})
             PROVE  IInv'
  BY DEF Press
<1>1. c \in Control
  BY DEF Controls
<1>2. /\ PressEvent(c) \in Message
      /\ LeavesDown(PressEvent(c)) = {c}
      /\ Decides(PressEvent(c)) = {c}
  BY <1>1, ControlEvents, SessionPassword DEF Decides
<1>3. fingers' \subseteq Control
  BY <1>1 DEF IInv, TypeOK
<1> QED
  BY <1>2, <1>3, PostOne

LEMMA ReleaseInv == IInv /\ Release => IInv'
<1> SUFFICES ASSUME IInv, NEW c \in fingers,
                    fingers' = fingers \ {c}, Post(<<ReleaseEvent(c)>>, {})
             PROVE  IInv'
  BY DEF Release
<1>1. c \in Control /\ fingers' \subseteq Control
  BY DEF IInv, TypeOK
<1>2. /\ ReleaseEvent(c) \in Message
      /\ LeavesDown(ReleaseEvent(c)) = {}
      /\ Decides(ReleaseEvent(c)) = {c}
  BY <1>1, ControlEvents, SessionPassword DEF Decides
<1> QED
  BY <1>1, <1>2, PostOne

LEMMA WheelInv == IInv /\ Wheel => IInv'
<1> SUFFICES ASSUME IInv, NEW t \in {MouseMove, MouseWheel, MouseHWheel},
                    Post(<<MouseEvent(t)>>, {}), fingers' = fingers
             PROVE  IInv'
  BY DEF Wheel
<1>1. t \in MouseType /\ t \notin 1 .. 9 /\ t \notin {LeftClick, RightClick, MiddleClick}
  BY DEF MouseMove, MouseWheel, MouseHWheel, MouseType, LeftClick, RightClick, MiddleClick
<1>2. MouseEvent(t).type = "mouse" /\ MouseEvent(t).what = t /\ MouseEvent(t) \in Message
  BY <1>1, SessionPassword DEF MouseEvent, Message
<1>3. MouseDowns(t) = {} /\ MouseUps(t) = {}
  BY <1>1 DEF MouseDowns, MouseUps, IsButtonDown, IsButtonEvent
<1>4. Decides(MouseEvent(t)) = {}
  BY <1>2, <1>3 DEF Decides, LeavesDown, LeavesUp
<1>5. fingers' \subseteq Control
  BY DEF IInv, TypeOK
<1> QED
  BY <1>2, <1>4, <1>5, PostOne

LEMMA TypeCharInv == IInv /\ TypeChar => IInv'
<1> SUFFICES ASSUME IInv, TypeChar
             PROVE  IInv'
  OBVIOUS
<1>1. fingers' = fingers /\ fingers \subseteq Control /\ fingers \subseteq Input
  BY ControlsAreInputs DEF TypeChar, IInv, TypeOK
<1>2. ASSUME NEW c \in Char, Post(<<CharEvent(c)>>, StrokedBy(c) \cap fingers)
      PROVE  IInv'
  <2>1. CharEvent(c).type = "ascii" /\ CharEvent(c).what = c /\ CharEvent(c) \in Message
    BY SessionPassword DEF CharEvent, Message
  <2>2. LeavesDown(CharEvent(c)) = {} /\ Decides(CharEvent(c)) = StrokedBy(c)
    BY <2>1 DEF Decides, LeavesDown, LeavesUp
  <2> QED
    BY <1>1, <1>2, <2>1, <2>2, PostOne
<1>3. ASSUME Post(<<TextEvent>>, {})
      PROVE  IInv'
  <2>1. TextEvent.type = "text" /\ TextEvent \in Message
    BY SessionPassword DEF TextEvent, Message
  <2>2. Decides(TextEvent) = {}
    BY <2>1 DEF Decides, LeavesDown, LeavesUp
  <2> QED
    BY <1>1, <1>3, <2>1, <2>2, PostOne
<1> QED
  BY <1>2, <1>3 DEF TypeChar

LEMMA TypeBackspaceInv == IInv /\ TypeBackspace => IInv'
<1> SUFFICES ASSUME IInv, Post(BackspaceEvents, {}), fingers' = fingers
             PROVE  IInv'
  BY DEF TypeBackspace
<1> DEFINE b == <<"key", Backspace>>
           d == FunctionEvent(2 * Backspace)
           u == FunctionEvent(2 * Backspace + 1)
<1>1. Backspace \in Key /\ b \notin Control
  BY RemoteAssumption DEF Backspace, Key, Control
<1>2. /\ d \in Message /\ u \in Message
      /\ LeavesDown(d) = {b} /\ Decides(d) = {b}
      /\ LeavesDown(u) = {} /\ Decides(u) = {b}
  BY <1>1, KeyEvents, SessionPassword DEF FunctionEvent, Decides
<1> HIDE DEF b, d, u
<1>3. /\ queue' = queue \o <<d, u>>
      /\ strayed' = strayed \ {b}
      /\ UNCHANGED <<serverVars, session, net, view>>
  <2>1. BackspaceEvents = <<d, u>>
    BY DEF BackspaceEvents, d, u
  <2>2. DecidedBy(<<d, u>>) = {b}
    BY <1>2, DecidedByEvents
  <2> QED
    BY <2>1, <2>2 DEF Post
<1>4. /\ net \in Seq(Message) /\ queue \in Seq(Message)
      /\ strayed \subseteq Input /\ fingers \subseteq Control
  BY DEF IInv, TypeOK
<1>5. queue' \in Seq(Message) /\ Pipeline' = Append(Append(Pipeline, d), u)
      /\ Pipeline \in Seq(Message)
  BY <1>2, <1>3, <1>4, QueuedInPipeline DEF Pipeline
<1>6. Agreed(Append(Pipeline, d), held, fingers, strayed \cup {b})
  <2>1. Agreed(Pipeline, held, fingers, strayed)
    BY DEF IInv, Agreement
  <2> QED
    <3>1. \A x \in Input \ (strayed \cup {b}) :
            IF x \in Decides(d) THEN x \in LeavesDown(d) <=> x \in fingers
                                ELSE x \notin strayed /\ (x \in fingers <=> x \in fingers)
      BY <1>2
    <3> QED
      BY <1>2, <1>5, <2>1, <3>1, AgreedAfterEvent
<1>7. Agreed(Append(Append(Pipeline, d), u), held, fingers, strayed \ {b})
  <2>1. Append(Pipeline, d) \in Seq(Message)
    BY <1>2, <1>5
  <2>2. b \notin fingers
    BY <1>1, <1>4
  <2>3. \A x \in Input \ (strayed \ {b}) :
          IF x \in Decides(u) THEN x \in LeavesDown(u) <=> x \in fingers
                              ELSE x \notin strayed \cup {b} /\ (x \in fingers <=> x \in fingers)
    BY <1>2, <2>2
  <2> QED
    BY <1>2, <1>6, <2>1, <2>3, AgreedAfterEvent
<1>8. Agreement'
  BY <1>3, <1>5, <1>7 DEF Agreement, serverVars
<1>9. TypeOK' /\ RepliesHaveNotice'
  BY <1>3, <1>4, <1>5 DEF IInv, TypeOK, ServerTypeOK, RepliesHaveNotice, serverVars
<1> QED
  BY <1>8, <1>9 DEF IInv

(* The steps that forget the queue, move the fingers or do neither.         *)

LEMMA ForgottenQueue ==
    ASSUME IInv, queue' = <<>>, UNCHANGED <<serverVars, net>>,
           NEW amiss, amiss \subseteq fingers,
           strayed' = strayed \cup amiss \cup DecidedBy(queue),
           fingers' = fingers \ amiss
    PROVE  /\ Agreement'
           /\ strayed' \subseteq Input
           /\ queue' \in Seq(Message)
<1>1. /\ net \in Seq(Message) /\ queue \in Seq(Message)
      /\ strayed \subseteq Input /\ fingers \subseteq Input
  BY ControlsAreInputs DEF IInv, TypeOK
<1>2. strayed' \subseteq Input
  BY <1>1, DecidedAreInputs
<1>3. queue' \in Seq(Message) /\ Pipeline' = net
  <2>1. \A n \in Seq(Message) : n \o <<>> = n
    OBVIOUS
  <2>2. <<>> \in Seq(Message)
    OBVIOUS
  <2> QED
    BY <1>1, <2>1, <2>2 DEF Pipeline
<1>4. ASSUME NEW x \in Input \ strayed'
      PROVE  WillHold(net, held, x) <=> x \in fingers'
  <2>1. x \notin DecidedBy(queue) /\ x \notin strayed
    BY <1>4
  <2>2. WillHold(Pipeline, held, x) <=> WillHold(net, held, x)
    BY <1>1, <2>1, PrefixDecides DEF Pipeline
  <2>3. WillHold(Pipeline, held, x) <=> x \in fingers
    BY <1>4, <2>1 DEF IInv, Agreement, Agreed
  <2> QED
    BY <1>4, <2>2, <2>3
<1>5. Agreement'
  BY <1>3, <1>4 DEF Agreement, Agreed, serverVars
<1> QED
  BY <1>2, <1>3, <1>5

LEMMA ConnectInv == IInv /\ Connect => IInv'
<1> SUFFICES ASSUME IInv, Connect
             PROVE  IInv'
  OBVIOUS
<1>1. /\ queue' = <<>> /\ strayed' = strayed \cup DecidedBy(queue)
      /\ UNCHANGED <<serverVars, fingers, net>>
      /\ view' = "mouse" /\ session' \in [open : BOOLEAN, pwd : Password]
  BY DEF Connect
<1>2. PICK amiss : amiss = {}
  OBVIOUS
<1>3. /\ amiss \subseteq fingers /\ fingers' = fingers \ amiss
      /\ strayed' = strayed \cup amiss \cup DecidedBy(queue)
  BY <1>1, <1>2
<1>4. Agreement' /\ strayed' \subseteq Input /\ queue' \in Seq(Message)
  BY <1>1, <1>3, ForgottenQueue
<1> QED
  BY <1>1, <1>4 DEF IInv, TypeOK, ServerTypeOK, RepliesHaveNotice, serverVars

LEMMA DropSessionInv == IInv /\ DropSession => IInv'
<1> SUFFICES ASSUME IInv, DropSession
             PROVE  IInv'
  OBVIOUS
<1>1. /\ queue' = <<>> /\ UNCHANGED <<serverVars, net>>
      /\ strayed' = strayed \cup (fingers \ fingers') \cup DecidedBy(queue)
      /\ fingers' \in {{}, fingers} /\ session' = NoSession
      /\ view' \in {view, "main"}
  BY DEF DropSession
<1>2. PICK amiss : amiss = fingers \ fingers'
  OBVIOUS
<1>3. /\ amiss \subseteq fingers /\ fingers' = fingers \ amiss
      /\ strayed' = strayed \cup amiss \cup DecidedBy(queue)
  BY <1>1, <1>2
<1>4. Agreement' /\ strayed' \subseteq Input /\ queue' \in Seq(Message)
  BY <1>1, <1>3, ForgottenQueue
<1>5. session' \in [open : BOOLEAN, pwd : Password]
  BY <1>1, ServerAssumption DEF NoSession
<1> QED
  BY <1>1, <1>4, <1>5 DEF IInv, TypeOK, ServerTypeOK, RepliesHaveNotice, serverVars

LEMMA SameAgreement ==
    ASSUME IInv, UNCHANGED <<serverVars, fingers, queue, net, strayed>>
    PROVE  Agreement' /\ ServerTypeOK' /\ RepliesHaveNotice'
BY DEF IInv, TypeOK, ServerTypeOK, RepliesHaveNotice, serverVars,
       Agreement, Pipeline

LEMMA TransToViewInv == IInv /\ TransToView => IInv'
<1> SUFFICES ASSUME IInv, TransToView
             PROVE  IInv'
  OBVIOUS
<1>1. UNCHANGED <<serverVars, fingers, session, queue, net, strayed>>
      /\ view' \in {"mouse", "keyboard"}
  BY DEF TransToView
<1> QED
  BY <1>1, SameAgreement DEF IInv, TypeOK

LEMMA RestoreSessionInv == IInv /\ RestoreSession => IInv'
<1> SUFFICES ASSUME IInv, RestoreSession
             PROVE  IInv'
  OBVIOUS
<1>1. UNCHANGED <<serverVars, view, fingers, queue, net, strayed>>
      /\ session' \in [open : BOOLEAN, pwd : Password]
  BY DEF RestoreSession
<1> QED
  BY <1>1, SameAgreement DEF IInv, TypeOK

LEMMA TouchesCancelledInv == IInv /\ TouchesCancelled => IInv'
<1> SUFFICES ASSUME IInv, TouchesCancelled
             PROVE  IInv'
  OBVIOUS
<1>1. /\ view' \in {view, "main"} /\ fingers' = {} /\ strayed' = strayed \cup fingers
      /\ UNCHANGED <<serverVars, session, queue, net>>
  BY DEF TouchesCancelled
<1>2. Agreement'
  <2>1. \A x \in Input \ strayed' : WillHold(Pipeline, held, x) <=> x \in fingers'
    BY <1>1 DEF IInv, Agreement, Agreed
  <2> QED
    BY <1>1, <2>1 DEF Agreement, Agreed, Pipeline, serverVars
<1>3. strayed' \subseteq Input
  BY <1>1, ControlsAreInputs DEF IInv, TypeOK
<1> QED
  BY <1>1, <1>2, <1>3 DEF IInv, TypeOK, ServerTypeOK, RepliesHaveNotice, serverVars

LEMMA TransmitInv == IInv /\ Transmit => IInv'
<1> SUFFICES ASSUME IInv, Transmit
             PROVE  IInv'
  OBVIOUS
<1>1. /\ queue # <<>> /\ net' = Append(net, Head(queue)) /\ queue' = Tail(queue)
      /\ UNCHANGED <<serverVars, view, fingers, session, strayed>>
  BY DEF Transmit
<1>2. net \in Seq(Message) /\ queue \in Seq(Message)
  BY DEF IInv, TypeOK
<1>3. Pipeline' = Pipeline
  BY <1>1, <1>2, SentFromQueue DEF Pipeline
<1>4. net' \in Seq(Message) /\ queue' \in Seq(Message)
  BY <1>1, <1>2
<1> QED
  BY <1>1, <1>3, <1>4
  DEF IInv, TypeOK, ServerTypeOK, RepliesHaveNotice, serverVars, Agreement, Agreed

-----------------------------------------------------------------------------
(* The network.                                                             *)

LEMMA LoseInv ==
    ASSUME IInv, NEW i \in DOMAIN net, Lose(i)
    PROVE  IInv'
<1>1. /\ net' = RemoveAt(net, i)
      /\ strayed' = strayed \cup LastWord(Pipeline, i)
      /\ UNCHANGED <<serverVars, clientVars>>
  BY DEF Lose
<1>2. /\ net \in Seq(Message) /\ queue \in Seq(Message) /\ Pipeline \in Seq(Message)
      /\ strayed \subseteq Input
  BY DEF IInv, TypeOK, Pipeline
<1>3. /\ net' \in Seq(Message) /\ Pipeline' \in Seq(Message)
      /\ i \in DOMAIN Pipeline
      /\ Without(Pipeline, Pipeline', i)
  BY <1>1, <1>2, RemovedFromNet DEF Pipeline, clientVars
<1>4. strayed' \subseteq Input
  BY <1>1, <1>2, <1>3, DecidedAreInputs
<1>5. Agreed(Pipeline', held, fingers, strayed')
  <2> SUFFICES ASSUME NEW x \in Input \ strayed'
               PROVE  WillHold(Pipeline', held, x) <=> x \in fingers
    BY DEF Agreed
  <2>1. x \notin LastWord(Pipeline, i) /\ x \notin strayed
    BY <1>1
  <2>2. WillHold(Pipeline', held, x) <=> WillHold(Pipeline, held, x)
    BY <1>2, <1>3, <2>1, LostHarmlessly
  <2>3. WillHold(Pipeline, held, x) <=> x \in fingers
    BY <2>1 DEF IInv, Agreement, Agreed
  <2> QED
    BY <2>2, <2>3
<1>6. Agreement'
  BY <1>1, <1>5 DEF Agreement, serverVars, clientVars
<1> QED
  BY <1>1, <1>3, <1>4, <1>6
  DEF IInv, TypeOK, ServerTypeOK, RepliesHaveNotice, serverVars, clientVars

LEMMA LossInv == IInv /\ (DatagramLost \/ Refused) => IInv'
<1> SUFFICES ASSUME IInv, DatagramLost \/ Refused
             PROVE  IInv'
  OBVIOUS
<1>1. Refused => 1 \in DOMAIN net /\ Lose(1)
  BY DEF Refused, IInv, TypeOK
<1> QED
  BY <1>1, LoseInv DEF DatagramLost

LEMMA DeliverInv ==
    ASSUME IInv, NEW i \in DOMAIN net, Deliver(i)
    PROVE  IInv'
<1>1. /\ ~Ignored(net[i]) /\ OnReceive(net[i], Phone)
      /\ net' = RemoveAt(net, i)
      /\ strayed' = strayed \cup Overtaken(i)
      /\ UNCHANGED clientVars
  BY DEF Deliver
<1>2. /\ net \in Seq(Message) /\ queue \in Seq(Message) /\ Pipeline \in Seq(Message)
      /\ strayed \subseteq Input
  BY DEF IInv, TypeOK, Pipeline
<1>3. /\ net' \in Seq(Message) /\ Pipeline' \in Seq(Message)
      /\ i \in DOMAIN Pipeline
      /\ Pipeline[i] = net[i]
      /\ Without(Pipeline, Pipeline', i)
  BY <1>1, <1>2, RemovedFromNet DEF Pipeline, clientVars
<1>4. strayed' \subseteq Input
  BY <1>1, <1>2, <1>3, DecidedAreInputs DEF Overtaken
<1>5. ServerInv' /\ held' = Applied(held, Pipeline[i])
  <2>1. net[i] \in Message /\ Phone \in Peer
    BY <1>2, RemoteAssumption
  <2>2. ServerInv
    BY DEF ServerInv, IInv, TypeOK
  <2> QED
    BY <1>1, <1>3, <2>1, <2>2, OnReceiveInv
<1>6. \A j \in DOMAIN Pipeline : j < i => j \in 1 .. i - 1 /\ Pipeline[j] = net[j]
  BY <1>2 DEF Pipeline
<1>7. Agreed(Pipeline', held', fingers, strayed')
  <2> SUFFICES ASSUME NEW x \in Input \ strayed'
               PROVE  WillHold(Pipeline', held', x) <=> x \in fingers
    BY DEF Agreed
  <2>1. x \notin Overtaken(i) /\ x \notin strayed
    BY <1>1
  <2>2. x \in LastWord(Pipeline, i) =>
          \A j \in DOMAIN Pipeline : j < i => x \notin Decides(Pipeline[j])
    BY <1>6, <2>1 DEF Overtaken
  <2>3. WillHold(Pipeline', Applied(held, Pipeline[i]), x) <=> WillHold(Pipeline, held, x)
    BY <1>2, <1>3, <2>2, DeliveredHarmlessly
  <2>4. WillHold(Pipeline, held, x) <=> x \in fingers
    BY <2>1 DEF IInv, Agreement, Agreed
  <2> QED
    BY <1>5, <2>3, <2>4
<1>8. Agreement'
  BY <1>1, <1>7 DEF Agreement, clientVars
<1> QED
  BY <1>1, <1>3, <1>4, <1>5, <1>8 DEF IInv, TypeOK, ServerInv, clientVars

LEMMA DeliveryInv == IInv /\ (DeliverFirst \/ DeliverLater) => IInv'
<1> SUFFICES ASSUME IInv, DeliverFirst \/ DeliverLater
             PROVE  IInv'
  OBVIOUS
<1>1. net \in Seq(Message)
  BY DEF IInv, TypeOK
<1>2. DeliverFirst => 1 \in DOMAIN net /\ Deliver(1)
  BY <1>1 DEF DeliverFirst
<1>3. \A i \in 2 .. Len(net) : i \in DOMAIN net
  BY <1>1
<1> QED
  BY <1>2, <1>3, DeliverInv DEF DeliverLater

LEMMA DuplicatedInv == IInv /\ Duplicated => IInv'
<1> SUFFICES ASSUME IInv, Duplicated
             PROVE  IInv'
  OBVIOUS
<1>1. /\ net # <<>> /\ ~Ignored(net[1]) /\ OnReceive(net[1], Phone)
      /\ UNCHANGED <<clientVars, net, strayed>>
  BY DEF Duplicated
<1>2. /\ net \in Seq(Message) /\ queue \in Seq(Message) /\ Pipeline \in Seq(Message)
  BY DEF IInv, TypeOK, Pipeline
<1>3. 1 \in DOMAIN Pipeline /\ Pipeline[1] = net[1] /\ net[1] \in Message
  BY <1>1, <1>2 DEF Pipeline
<1>4. ServerInv' /\ held' = Applied(held, Pipeline[1])
  <2>1. Phone \in Peer
    BY RemoteAssumption
  <2>2. ServerInv
    BY DEF ServerInv, IInv, TypeOK
  <2> QED
    BY <1>1, <1>3, <2>1, <2>2, OnReceiveInv
<1>5. Agreed(Pipeline, held', fingers, strayed)
  <2> SUFFICES ASSUME NEW x \in Input \ strayed
               PROVE  WillHold(Pipeline, held', x) <=> x \in fingers
    BY DEF Agreed
  <2>1. WillHold(Pipeline, Applied(held, Pipeline[1]), x) <=> WillHold(Pipeline, held, x)
    BY <1>2, <1>3, DuplicatedHarmlessly
  <2>2. WillHold(Pipeline, held, x) <=> x \in fingers
    BY DEF IInv, Agreement, Agreed
  <2> QED
    BY <1>4, <2>1, <2>2
<1>6. Agreement'
  BY <1>1, <1>5 DEF Agreement, Pipeline, clientVars
<1> QED
  BY <1>1, <1>4, <1>6 DEF IInv, TypeOK, ServerInv, clientVars

LEMMA ServerStepInv == IInv /\ Server => IInv'
<1> SUFFICES ASSUME IInv, Server
             PROVE  IInv'
  OBVIOUS
<1>1. UNCHANGED <<clientVars, net, strayed>>
  BY DEF Server
<1>2. ServerInv
  BY DEF ServerInv, IInv, TypeOK
<1>3. ASSUME Receive
      PROVE  ServerInv' /\ held' = held
  <2>1. PICK p \in Peer, m \in Traffic : OnReceive(m, p)
    BY <1>3 DEF Receive
  <2>2. m \in Message /\ m.type = "request"
    BY ServerAssumption, RemoteAssumption
  <2>3. Applied(held, m) = held
    BY <2>2 DEF Applied, LeavesDown, LeavesUp
  <2> QED
    BY <1>2, <2>1, <2>2, <2>3, OnReceiveInv
<1>4. ServerInv' /\ held' = held
  BY <1>2, <1>3, OnSendInv, LifecycleInv DEF Server
<1>5. Agreement'
  BY <1>1, <1>4 DEF IInv, Agreement, Agreed, Pipeline, clientVars
<1> QED
  BY <1>1, <1>4, <1>5 DEF IInv, TypeOK, ServerInv, clientVars

-----------------------------------------------------------------------------
LEMMA InitInv == Init => IInv
<1> SUFFICES ASSUME Init
             PROVE  IInv
  OBVIOUS
<1>1. /\ held = {} /\ fingers = {} /\ net = <<>> /\ queue = <<>> /\ strayed = {}
      /\ view = "main" /\ session = NoSession
  BY DEF Init, ServerInit
<1>2. <<>> \in Seq(Message) /\ Pipeline = <<>> /\ DOMAIN <<>> = {}
  BY <1>1 DEF Pipeline
<1>3. Agreement
  BY <1>1, <1>2 DEF Agreement, Agreed, WillHold, LastDown
<1>4. session \in [open : BOOLEAN, pwd : Password]
  BY <1>1, ServerAssumption DEF NoSession
<1>5. ServerInv
  BY ServerInitInv DEF Init
<1> QED
  BY <1>1, <1>2, <1>3, <1>4, <1>5 DEF IInv, TypeOK, ServerInv

LEMMA NextInv == IInv /\ [Next]_remoteVars => IInv'
<1> SUFFICES ASSUME IInv, [Next]_remoteVars
             PROVE  IInv'
  OBVIOUS
<1>1. CASE User
  BY <1>1, PressInv, ReleaseInv, WheelInv, TypeCharInv, TypeBackspaceInv,
     ConnectInv, TransToViewInv DEF User
<1>2. CASE Session
  BY <1>2, TouchesCancelledInv, DropSessionInv, RestoreSessionInv, TransmitInv DEF Session
<1>3. CASE Network
  BY <1>3, LossInv, DeliveryInv, DuplicatedInv DEF Network
<1>4. CASE Server
  BY <1>4, ServerStepInv
<1>5. CASE UNCHANGED remoteVars
  BY <1>5, SameAgreement DEF remoteVars, clientVars, IInv, TypeOK
<1> QED
  BY <1>1, <1>2, <1>3, <1>4, <1>5 DEF Next

(* The invariant of the whole path holds of every phone, network and server *)
(* of the model, for any bounds and any alphabet.                           *)
THEOREM RemoteInvariant == Spec => []IInv
BY InitInv, NextInv, PTL DEF Spec

(* Phone, network and server stay well formed together.                     *)
THEOREM RemoteTypes == Spec => []TypeOK
<1>1. IInv => TypeOK
  BY DEF IInv
<1> QED
  BY <1>1, RemoteInvariant, PTL

(* An input nothing is on its way about is down on the computer exactly     *)
(* when a finger holds its control, unless it strayed: handle_write, UDP    *)
(* and CServerService lose the agreement in no other way.                   *)
THEOREM ButtonsFollowFingers == Spec => []HeldIsPressed
<1>1. IInv => HeldIsPressed
  <2> SUFFICES ASSUME IInv, NEW x \in Input \ strayed, Quiet(x)
               PROVE  x \in held <=> x \in fingers
    BY DEF HeldIsPressed
  <2>1. Silent(Pipeline, x)
    BY DEF Quiet, DecidedBy, Silent
  <2>2. ~LastDown(Pipeline, x)
    BY <2>1, DownsAreDecided DEF Silent, LastDown
  <2>3. WillHold(Pipeline, held, x) <=> x \in fingers
    BY DEF IInv, Agreement, Agreed
  <2> QED
    BY <2>1, <2>2, <2>3 DEF WillHold
<1> QED
  BY <1>1, RemoteInvariant, PTL

(* Over the whole path too: what the phone sends is no request, and what    *)
(* the network does to it costs no reply.                                   *)
THEOREM PathAnswersOnce == Spec => []AnsweredAtMostOnce
<1>1. Init => AnsweredAtMostOnce
  <2> SUFFICES ASSUME Init, NEW p \in Peer
               PROVE  answered[p] + Cardinality(Waiting(p)) <= asked[p]
    BY DEF AnsweredAtMostOnce
  <2>1. answered[p] = 0 /\ asked[p] = 0 /\ srv.output = <<>>
    BY DEF Init, ServerInit, Closed
  <2>2. Cardinality(Waiting(p)) = 0
    BY <2>1, NoneWaits DEF Waiting, WaitingIn
  <2> QED
    BY <2>1, <2>2
<1>2. IInv /\ AnsweredAtMostOnce /\ [Next]_remoteVars => AnsweredAtMostOnce'
  <2> SUFFICES ASSUME IInv, AnsweredAtMostOnce, [Next]_remoteVars
               PROVE  AnsweredAtMostOnce'
    OBVIOUS
  <2>1. ServerInv
    BY DEF ServerInv, IInv, TypeOK
  <2>2. Phone \in Peer /\ \A i \in DOMAIN net : net[i] \in Message
    BY RemoteAssumption DEF IInv, TypeOK
  <2>3. UNCHANGED serverVars
          \/ (\E p \in Peer : \E m \in Message : OnReceive(m, p)) \/ OnSend \/ Lifecycle
    <3>1. CASE User
      BY <3>1 DEF User, Press, Release, Wheel, TypeChar, TypeBackspace, Connect,
        TransToView, Post
    <3>2. CASE Session
      BY <3>2 DEF Session, TouchesCancelled, DropSession, RestoreSession, Transmit
    <3>3. CASE DatagramLost \/ Refused
      BY <3>3 DEF DatagramLost, Refused, Lose
    <3>4. CASE DeliverFirst \/ DeliverLater \/ Duplicated
      <4>1. \E i \in DOMAIN net : OnReceive(net[i], Phone)
        <5>1. net \in Seq(Message)
          BY DEF IInv, TypeOK
        <5>2. net # <<>> => 1 \in DOMAIN net
          BY <5>1
        <5>3. \A i \in 2 .. Len(net) : i \in DOMAIN net
          BY <5>1
        <5> QED
          BY <3>4, <5>2, <5>3 DEF DeliverFirst, DeliverLater, Duplicated, Deliver
      <4> QED
        BY <2>2, <4>1
    <3>5. CASE Server
      BY <3>5, ServerAssumption DEF Server, Receive
    <3>6. CASE UNCHANGED remoteVars
      BY <3>6 DEF remoteVars
    <3> QED
      BY <3>1, <3>2, <3>3, <3>4, <3>5, <3>6 DEF Next, Network
  <2> QED
    BY <2>1, <2>3, AnsweredStep
<1> QED
  BY <1>1, <1>2, RemoteInvariant, PTL DEF Spec
=============================================================================
