---------------------------- MODULE ArBufferProofs ---------------------------
(* The buffer keeps its cursors in its memory and is a queue of bytes, for   *)
(* every length of the first allocation and whatever callers put in.         *)
(* BufferOK is inductive as it stands.                                       *)
EXTENDS ArBuffer, SequenceTheorems, TLAPS

Cell == Byte \cup {Unset}

\* From r on the memory holds these bytes.
Holds(memory, r, bytes) == \A k \in 1 .. Len(bytes) : memory[r + k] = bytes[k]

(* A function on 1 .. n is a sequence of length n.                           *)
LEMMA FunSeq ==
    ASSUME NEW S, NEW n \in Nat, NEW f \in [1 .. n -> S]
    PROVE  f \in Seq(S) /\ Len(f) = n
<1>1. f \in Seq(S)
  BY SeqDef
<1>2. Len(f) \in Nat /\ DOMAIN f = 1 .. Len(f)
  BY <1>1, LenProperties
<1>3. 1 .. n = 1 .. Len(f)
  BY <1>2
<1> QED
  BY <1>1, <1>2, <1>3

-----------------------------------------------------------------------------
(* What there is to read is as long as the cursors are apart.                *)
LEMMA ContentsType ==
    ASSUME BufferOK
    PROVE  /\ last \in Nat
           /\ read_cur \in Nat
           /\ write_cur \in Nat
           /\ read_cur <= write_cur
           /\ write_cur <= last
           /\ Len(Contents) = write_cur - read_cur
           /\ \A k \in 1 .. write_cur - read_cur :
                mem[read_cur + k] = Contents[k] /\ Contents[k] \in Byte
<1>1. last \in Nat
  BY LenProperties DEF BufferOK, last
<1>2. read_cur \in Nat /\ write_cur \in Nat /\ read_cur <= write_cur /\ write_cur <= last
  BY <1>1 DEF BufferOK
<1>3. DOMAIN Contents = 1 .. write_cur - read_cur
  BY DEF Contents, GetBufferAvailable
<1>4. Len(Contents) \in Nat /\ DOMAIN Contents = 1 .. Len(Contents)
  BY LenProperties DEF BufferOK
<1>5. write_cur - read_cur \in Nat
  BY <1>2
<1>6. Len(Contents) = write_cur - read_cur
  BY <1>3, <1>4, <1>5
<1>7. \A k \in 1 .. write_cur - read_cur : Contents[k] \in Byte
  BY <1>6, ElementOfSeq DEF BufferOK
<1>8. \A k \in 1 .. write_cur - read_cur : mem[read_cur + k] = Contents[k]
  BY DEF Contents, GetBufferAvailable
<1> QED
  BY <1>1, <1>2, <1>6, <1>7, <1>8

(* New memory begins with what there was to read.                            *)
LEMMA Increased ==
    ASSUME BufferOK, NEW inc \in Nat
    PROVE  /\ IncreaseCapability(inc) \in Seq(Cell)
           /\ Len(IncreaseCapability(inc)) = inc + last
           /\ \A k \in 1 .. write_cur - read_cur :
                IncreaseCapability(inc)[k] = Contents[k]
<1>1. inc + last \in Nat
  BY ContentsType
<1>2. \A k \in 1 .. inc + last : k <= write_cur - read_cur => mem[read_cur + k] \in Cell
  BY <1>1, ContentsType DEF Cell
<1>3. IncreaseCapability(inc) \in [1 .. inc + last -> Cell]
  BY <1>2 DEF IncreaseCapability, GetBufferAvailable, Cell
<1>4. \A k \in 1 .. write_cur - read_cur : k \in 1 .. inc + last /\ k <= write_cur - read_cur
  BY ContentsType
<1>5. \A k \in 1 .. write_cur - read_cur : IncreaseCapability(inc)[k] = mem[read_cur + k]
  BY <1>4 DEF IncreaseCapability, GetBufferAvailable
<1> QED
  BY <1>1, <1>3, <1>5, FunSeq, ContentsType

(* Moving begins the memory with what there was to read.                     *)
LEMMA Moved ==
    ASSUME BufferOK
    PROVE  /\ MoveInternal \in Seq(Cell)
           /\ Len(MoveInternal) = last
           /\ \A k \in 1 .. write_cur - read_cur : MoveInternal[k] = Contents[k]
<1>1. \A k \in 1 .. last : mem[k] \in Cell
  BY ElementOfSeq DEF BufferOK, last, Cell
<1>2. \A k \in 1 .. last : k <= write_cur - read_cur => mem[read_cur + k] \in Cell
  BY ContentsType DEF Cell
<1>3. MoveInternal \in [1 .. last -> Cell]
  BY <1>1, <1>2 DEF MoveInternal, GetBufferAvailable
<1>4. \A k \in 1 .. write_cur - read_cur : k \in 1 .. last /\ k <= write_cur - read_cur
  BY ContentsType
<1>5. \A k \in 1 .. write_cur - read_cur : MoveInternal[k] = mem[read_cur + k]
  BY <1>4 DEF MoveInternal, GetBufferAvailable
<1> QED
  BY <1>3, <1>5, FunSeq, ContentsType

(* The room that is added is enough for what does not fit.                   *)
LEMMA EnoughRoom ==
    ASSUME BufferOK, NEW n \in Nat, n > GetBufferCapacity
    PROVE  /\ IncLen(n) \in Nat
           /\ (write_cur - read_cur) + n <= IncLen(n) + last
BY ContentsType DEF IncLen, Larger, GetBufferCapacity, GetBufferAvailable

(* Once the memory, wide enough, begins at r with what there was to read,    *)
(* writing behind it leaves a good buffer that holds the data too.           *)
LEMMA Filled ==
    ASSUME BufferOK, NEW data \in Seq(Byte),
           NEW memory \in Seq(Cell), NEW r \in Nat, NEW at \in Nat,
           at = r + (write_cur - read_cur), at + Len(data) <= Len(memory),
           \A k \in 1 .. write_cur - read_cur : memory[r + k] = Contents[k],
           Fill(memory, at, data), read_cur' = r
    PROVE  BufferOK' /\ Contents' = Contents \o data
<1>1. PICK old \in Seq(Byte) : old = Contents
  BY DEF BufferOK
<1>2. /\ Len(old) = at - r
      /\ r <= at
      /\ Holds(memory, r, old)
  <2>1. write_cur - read_cur \in Nat /\ at - r = write_cur - read_cur
    BY ContentsType
  <2>2. Len(old) = write_cur - read_cur
    BY <1>1, ContentsType
  <2>3. \A k \in 1 .. write_cur - read_cur : memory[r + k] = old[k]
    BY <1>1
  <2> QED
    BY <2>1, <2>2, <2>3 DEF Holds
<1>3. PICK new : new = mem'
  OBVIOUS
<1>4. new = Written(memory, at, data) /\ write_cur' = at + Len(data)
  BY <1>3 DEF Fill
<1>5. /\ new \in Seq(Cell)
      /\ Len(new) = Len(memory)
      /\ Holds(new, r, old \o data)
  <2>1. /\ Len(memory) \in Nat
        /\ Len(data) \in Nat
        /\ Len(old) \in Nat
    BY LenProperties
  <2>2. \A k \in 1 .. Len(memory) : memory[k] \in Cell
    BY ElementOfSeq
  <2>3. \A k \in 1 .. Len(data) : data[k] \in Byte
    BY ElementOfSeq
  <2>4. ASSUME NEW k \in 1 .. Len(memory)
        PROVE  (IF k \in at + 1 .. at + Len(data) THEN data[k - at] ELSE memory[k]) \in Cell
    <3>1. CASE k \in at + 1 .. at + Len(data)
      <4>1. k - at \in 1 .. Len(data)
        BY <2>1, <3>1
      <4> QED
        BY <2>3, <3>1, <4>1 DEF Cell
    <3>2. CASE k \notin at + 1 .. at + Len(data)
      BY <2>2, <3>2
    <3> QED
      BY <3>1, <3>2
  <2>5. new \in [1 .. Len(memory) -> Cell]
    BY <1>4, <2>4 DEF Written
  <2>6. new \in Seq(Cell) /\ Len(new) = Len(memory)
    BY <2>1, <2>5, FunSeq
  <2>7. /\ old \o data \in Seq(Byte)
        /\ Len(old \o data) = Len(old) + Len(data)
        /\ \A i \in 1 .. Len(old) + Len(data) :
             (old \o data)[i] = IF i <= Len(old) THEN old[i] ELSE data[i - Len(old)]
    BY ConcatProperties
  <2>8. ASSUME NEW k \in 1 .. (at + Len(data)) - r
        PROVE  new[r + k] = (old \o data)[k]
    <3>1. r + k \in 1 .. Len(memory) /\ k \in 1 .. Len(old) + Len(data)
      BY <1>2, <2>1
    <3>2. new[r + k] = IF r + k \in at + 1 .. at + Len(data) THEN data[(r + k) - at]
                       ELSE memory[r + k]
      BY <1>4, <3>1 DEF Written
    <3>3. CASE k <= Len(old)
      <4>1. k \in 1 .. at - r /\ r + k \notin at + 1 .. at + Len(data)
        BY <1>2, <2>1, <3>3
      <4>2. (old \o data)[k] = old[k]
        BY <2>7, <3>1, <3>3
      <4> QED
        BY <1>2, <2>1, <3>2, <3>3, <4>1, <4>2 DEF Holds
    <3>4. CASE ~(k <= Len(old))
      <4>1. r + k \in at + 1 .. at + Len(data) /\ (r + k) - at = k - Len(old)
        BY <1>2, <2>1, <3>4
      <4>2. (old \o data)[k] = data[k - Len(old)]
        BY <2>7, <3>1, <3>4
      <4> QED
        BY <3>2, <4>1, <4>2
    <3> QED
      BY <3>3, <3>4
  <2>9. Len(old \o data) = (at + Len(data)) - r
    BY <1>2, <2>1, <2>7
  <2> QED
    BY <2>6, <2>8, <2>9 DEF Holds
<1>6. Len(data) \in Nat /\ Len(memory) \in Nat /\ Len(old) \in Nat
  BY LenProperties
<1>7. (at + Len(data)) - r = Len(old) + Len(data)
  BY <1>2, <1>6
<1>8. /\ old \o data \in Seq(Byte)
      /\ old \o data \in [1 .. Len(old) + Len(data) -> Byte]
  <2>1. old \o data \in Seq(Byte) /\ Len(old \o data) = Len(old) + Len(data)
    BY ConcatProperties
  <2> QED
    BY <2>1, LenProperties
<1>9. Contents' = [k \in 1 .. (at + Len(data)) - r |-> new[r + k]]
  BY <1>3, <1>4 DEF Contents, GetBufferAvailable
<1>10. Contents' = [k \in 1 .. Len(old) + Len(data) |-> (old \o data)[k]]
  <2>1. Len(old \o data) = Len(old) + Len(data)
    BY ConcatProperties
  <2> QED
    BY <2>1, <1>5, <1>7, <1>9 DEF Holds
<1>11. Contents' = old \o data
  BY <1>8, <1>10
<1>12. write_cur' \in read_cur' .. last'
  BY <1>2, <1>3, <1>4, <1>5, <1>6 DEF last
<1>13. BufferOK'
  BY <1>3, <1>5, <1>8, <1>11, <1>12 DEF BufferOK, Cell
<1> QED
  BY <1>1, <1>11, <1>13

(* AR_InsertBuffer puts its data, whole and once, behind everything that was *)
(* waiting, whichever of its three ways it takes.                            *)
THEOREM InsertAppends ==
    ASSUME BufferOK, NEW data \in Seq(Byte), InsertBuffer(data)
    PROVE  BufferOK' /\ Contents' = Contents \o data
<1>1. Len(data) \in Nat
  BY LenProperties
<1>2. CASE Len(data) <= last - write_cur
  <2>1. Fill(mem, write_cur, data) /\ read_cur' = read_cur
    BY <1>1, <1>2, ContentsType DEF InsertBuffer, GetBufferCapacity, GetBufferAvailable
  <2>2. PICK memory, r, at : memory = mem /\ r = read_cur /\ at = write_cur
    OBVIOUS
  <2>3. /\ memory \in Seq(Cell)
        /\ r \in Nat
        /\ at \in Nat
        /\ at = r + (write_cur - read_cur)
        /\ at + Len(data) <= Len(memory)
        /\ \A k \in 1 .. write_cur - read_cur : memory[r + k] = Contents[k]
    BY <1>1, <1>2, <2>2, ContentsType DEF BufferOK, Cell, last
  <2> QED
    BY <2>1, <2>2, <2>3, Filled
<1>3. CASE Len(data) > last - write_cur /\ Len(data) <= GetBufferCapacity
  <2>1. Fill(MoveInternal, write_cur - read_cur, data) /\ read_cur' = 0
    BY <1>1, <1>3, ContentsType DEF InsertBuffer, GetBufferCapacity, GetBufferAvailable
  <2>2. PICK memory, at : memory = MoveInternal /\ at = write_cur - read_cur
    OBVIOUS
  <2>3. /\ memory \in Seq(Cell)
        /\ at \in Nat
        /\ at = 0 + (write_cur - read_cur)
        /\ at + Len(data) <= Len(memory)
        /\ \A k \in 1 .. write_cur - read_cur : memory[0 + k] = Contents[k]
    BY <1>1, <1>3, <2>2, ContentsType, Moved DEF GetBufferCapacity, GetBufferAvailable
  <2>4. Fill(memory, at, data)
    BY <2>1, <2>2
  <2> QED
    BY <2>1, <2>3, <2>4, Filled
<1>4. CASE Len(data) > GetBufferCapacity
  <2>1. /\ Fill(IncreaseCapability(IncLen(Len(data))), write_cur - read_cur, data)
        /\ read_cur' = 0
    BY <1>1, <1>4, ContentsType DEF InsertBuffer, GetBufferCapacity, GetBufferAvailable
  <2>2. PICK inc : inc = IncLen(Len(data))
    OBVIOUS
  <2>3. inc \in Nat /\ (write_cur - read_cur) + Len(data) <= inc + last
    BY <1>1, <1>4, <2>2, EnoughRoom
  <2>4. PICK memory, at : memory = IncreaseCapability(inc) /\ at = write_cur - read_cur
    OBVIOUS
  <2>5. /\ memory \in Seq(Cell)
        /\ at \in Nat
        /\ at = 0 + (write_cur - read_cur)
        /\ at + Len(data) <= Len(memory)
        /\ \A k \in 1 .. write_cur - read_cur : memory[0 + k] = Contents[k]
    <3>1. /\ memory \in Seq(Cell)
          /\ Len(memory) = inc + last
          /\ \A k \in 1 .. write_cur - read_cur : memory[k] = Contents[k]
      BY <2>3, <2>4, Increased
    <3>2. at \in Nat
      BY <2>4, ContentsType
    <3>3. \A k \in 1 .. write_cur - read_cur : 0 + k = k
      OBVIOUS
    <3> QED
      BY <1>1, <2>3, <2>4, <3>1, <3>2, <3>3
  <2>6. Fill(memory, at, data)
    BY <2>1, <2>2, <2>4
  <2> QED
    BY <2>1, <2>5, <2>6, Filled
<1> QED
  BY <1>1, <1>2, <1>3, <1>4, ContentsType DEF GetBufferCapacity, GetBufferAvailable

(* AR_ReserveBuffer changes nothing of what waits.                           *)
LEMMA ReserveKeeps ==
    ASSUME BufferOK, NEW n \in Nat, ReserveBuffer(n)
    PROVE  BufferOK' /\ Contents' = Contents
<1>1. CASE GetBufferCapacity >= n
  BY <1>1 DEF ReserveBuffer, buffer, BufferOK, Contents, GetBufferAvailable, last
<1>2. CASE ~(GetBufferCapacity >= n)
  <2>1. /\ mem' = IncreaseCapability(IncLen(n))
        /\ read_cur' = 0
        /\ write_cur' = write_cur - read_cur
    BY <1>2 DEF ReserveBuffer, GetBufferAvailable
  <2>2. PICK inc : inc = IncLen(n)
    OBVIOUS
  <2>3. inc \in Nat
    BY <1>2, <2>2, EnoughRoom, ContentsType DEF GetBufferCapacity, GetBufferAvailable
  <2>4. /\ mem' \in Seq(Cell)
        /\ Len(mem') = inc + last
        /\ \A k \in 1 .. write_cur - read_cur : mem'[k] = Contents[k]
    BY <2>1, <2>2, <2>3, Increased
  <2>5. Contents = [k \in 1 .. write_cur - read_cur |-> Contents[k]]
    BY DEF Contents, GetBufferAvailable
  <2>6. Contents' = [k \in 1 .. write_cur - read_cur |-> mem'[k]]
    BY <2>1, ContentsType DEF Contents, GetBufferAvailable
  <2>7. Contents' = Contents
    BY <2>4, <2>5, <2>6
  <2>8. write_cur' \in read_cur' .. last'
    BY <2>1, <2>3, <2>4, ContentsType DEF last
  <2> QED
    BY <2>1, <2>4, <2>7, <2>8 DEF BufferOK, Cell
<1> QED
  BY <1>1, <1>2

(* Whatever the size asked for, AR_EraseBuffer takes from the front only.    *)
LEMMA EraseTakes ==
    ASSUME BufferOK, NEW n \in Nat, EraseBuffer(n)
    PROVE  BufferOK' /\ \E m \in 0 .. Len(Contents) :
                          Contents' = SubSeq(Contents, m + 1, Len(Contents))
<1>1. PICK old \in Seq(Byte) : old = Contents
  BY DEF BufferOK
<1>2. PICK m : m = IF n > 0 /\ n >= write_cur - read_cur THEN write_cur - read_cur ELSE n
  OBVIOUS
<1>3. m \in 0 .. Len(old) /\ Len(old) \in Nat /\ Len(old) = write_cur - read_cur
  BY <1>1, <1>2, ContentsType
<1>4. /\ write_cur' - read_cur' = Len(old) - m
      /\ read_cur' \in Nat
      /\ write_cur' \in read_cur' .. last'
      /\ mem' = mem
  BY <1>2, <1>3, ContentsType DEF EraseBuffer, GetBufferAvailable, last
<1>5. \A k \in 1 .. Len(old) - m : mem'[read_cur' + k] = old[m + k]
  <2>1. CASE m = Len(old)
    BY <2>1, <1>3
  <2>2. CASE m # Len(old)
    <3>1. read_cur' = read_cur + m
      BY <2>2, <1>2, <1>3, ContentsType DEF EraseBuffer, GetBufferAvailable
    <3>2. \A k \in 1 .. Len(old) - m :
            m + k \in 1 .. write_cur - read_cur /\ read_cur' + k = read_cur + (m + k)
      BY <3>1, <1>3, ContentsType
    <3> QED
      BY <3>2, <1>1, <1>4, ContentsType
  <2> QED
    BY <2>1, <2>2
<1>6. \A i \in m + 1 .. Len(old) : old[i] \in Byte
  BY <1>3, ElementOfSeq
<1>7. /\ SubSeq(old, m + 1, Len(old)) \in Seq(Byte)
      /\ Len(SubSeq(old, m + 1, Len(old))) = Len(old) - m
      /\ \A k \in 1 .. Len(old) - m : SubSeq(old, m + 1, Len(old))[k] = old[m + k]
  <2>1. m + 1 \in Int /\ Len(old) \in Int
    BY <1>3
  <2>2. /\ SubSeq(old, m + 1, Len(old)) \in Seq(Byte)
        /\ Len(SubSeq(old, m + 1, Len(old))) =
             IF m + 1 <= Len(old) THEN Len(old) - (m + 1) + 1 ELSE 0
        /\ \A i \in 1 .. Len(old) - (m + 1) + 1 :
             SubSeq(old, m + 1, Len(old))[i] = old[m + 1 + i - 1]
    BY <2>1, <1>6, SubSeqProperties
  <2>3. \A i \in 1 .. Len(old) - m :
          i \in 1 .. Len(old) - (m + 1) + 1 /\ m + 1 + i - 1 = m + i
    BY <1>3
  <2> QED
    BY <2>2, <2>3, <1>3
<1>8. Contents' = [k \in 1 .. Len(old) - m |-> mem'[read_cur' + k]]
  BY <1>4 DEF Contents, GetBufferAvailable
<1>9. Contents' = [k \in 1 .. Len(old) - m |-> old[m + k]]
  BY <1>5, <1>8
<1>10. SubSeq(old, m + 1, Len(old)) = [k \in 1 .. Len(old) - m |-> old[m + k]]
  <2>1. DOMAIN SubSeq(old, m + 1, Len(old)) = 1 .. Len(old) - m
    BY <1>7, LenProperties
  <2>2. SubSeq(old, m + 1, Len(old)) \in [1 .. Len(old) - m -> Byte]
    BY <1>7, LenProperties
  <2> QED
    BY <2>2, <1>7
<1>11. BufferOK'
  BY <1>4, <1>7, <1>9, <1>10 DEF BufferOK
<1> QED
  BY <1>1, <1>3, <1>9, <1>10, <1>11

(* An empty buffer, whatever memory it has.                                  *)
LEMMA Emptied ==
    ASSUME mem' \in Seq(Cell), read_cur' = 0, write_cur' = 0
    PROVE  BufferOK' /\ Contents' = <<>>
<1>1. Len(mem') \in Nat
  BY LenProperties
<1>2. Contents' = [k \in 1 .. 0 |-> mem'[0 + k]]
  BY DEF Contents, GetBufferAvailable
<1>3. Contents' = <<>>
  BY <1>2
<1>4. <<>> \in Seq(Byte)
  BY EmptySeq
<1> QED
  BY <1>1, <1>3, <1>4 DEF BufferOK, Cell, last

(* AR_CreateBuffer gives an empty buffer.                                    *)
LEMMA CreateEmpty ==
    ASSUME NEW n \in Nat, CreateBuffer(n)
    PROVE  BufferOK' /\ Contents' = <<>>
<1>1. CASE n = 0
  <2>1. mem' \in Seq(Cell)
    BY <1>1, EmptySeq DEF CreateBuffer
  <2> QED
    BY <2>1, Emptied DEF CreateBuffer
<1>2. CASE n # 0
  <2>1. Larger(n, InitBufLen) \in Nat
    BY BufferAssumption DEF Larger
  <2>2. mem' \in [1 .. Larger(n, InitBufLen) -> Cell]
    BY <1>2 DEF CreateBuffer, Cell
  <2>3. mem' \in Seq(Cell)
    BY <2>1, <2>2, FunSeq
  <2> QED
    BY <2>3, Emptied DEF CreateBuffer
<1> QED
  BY <1>1, <1>2

-----------------------------------------------------------------------------
(* A step of any caller keeps the buffer good, and is a put, a take or       *)
(* nothing to the queue.                                                     *)
LEMMA StepOfQueue ==
    ASSUME BufferOK, [BufferNext]_buffer
    PROVE  BufferOK' /\ [Queue!Put \/ Queue!Take]_Contents
<1>1. PICK old \in Seq(Byte) : old = Contents
  BY DEF BufferOK
<1>2. Len(old) \in Nat
  BY LenProperties
<1>3. ASSUME BufferOK', Contents' = <<>>
      PROVE  Queue!Take
  <2>1. SubSeq(old, Len(old) + 1, Len(old)) = <<>>
    BY <1>2, SubSeqEmpty
  <2>2. Len(old) \in 0 .. Len(old)
    BY <1>2
  <2>3. \E m \in 0 .. Len(old) : <<>> = SubSeq(old, m + 1, Len(old))
    BY <2>1, <2>2
  <2> QED
    BY <1>1, <1>3, <2>3 DEF Queue!Take
<1>4. ASSUME NEW n \in Sizes, mem = <<>>, CreateBuffer(n)
      PROVE  BufferOK' /\ [Queue!Put \/ Queue!Take]_Contents
  BY <1>3, <1>4, CreateEmpty, BufferAssumption
<1>5. ASSUME NEW data \in Data, InsertBuffer(data)
      PROVE  BufferOK' /\ [Queue!Put \/ Queue!Take]_Contents
  <2>1. data \in Seq(Byte)
    BY BufferAssumption
  <2>2. BufferOK' /\ Contents' = old \o data
    BY <1>1, <1>5, <2>1, InsertAppends
  <2>3. /\ old \o data \in Seq(Byte)
        /\ Len(old \o data) = Len(old) + Len(data)
        /\ \A i \in 1 .. Len(old) + Len(data) :
             (old \o data)[i] = IF i <= Len(old) THEN old[i] ELSE data[i - Len(old)]
        /\ Len(data) \in Nat
    BY <2>1, ConcatProperties, LenProperties
  <2>4. old = SubSeq(old \o data, 1, Len(old))
    <3>1. \A i \in 1 .. Len(old) : (old \o data)[i] = old[i] /\ old[i] \in Byte
      BY <1>2, <2>3, ElementOfSeq
    <3>2. /\ SubSeq(old \o data, 1, Len(old)) \in Seq(Byte)
          /\ Len(SubSeq(old \o data, 1, Len(old))) =
               IF 1 <= Len(old) THEN Len(old) - 1 + 1 ELSE 0
          /\ \A i \in 1 .. Len(old) - 1 + 1 :
               SubSeq(old \o data, 1, Len(old))[i] = (old \o data)[1 + i - 1]
      <4>1. \A i \in 1 .. Len(old) : (old \o data)[i] \in Byte
        BY <3>1
      <4>2. 1 \in Int /\ Len(old) \in Int
        BY <1>2
      <4> QED
        BY <4>1, <4>2, SubSeqProperties
    <3>3. Len(SubSeq(old \o data, 1, Len(old))) = Len(old)
      BY <1>2, <3>2
    <3>4. \A i \in 1 .. Len(old) : i \in 1 .. Len(old) - 1 + 1 /\ 1 + i - 1 = i
      BY <1>2
    <3>5. \A i \in 1 .. Len(old) : SubSeq(old \o data, 1, Len(old))[i] = old[i]
      BY <3>1, <3>2, <3>4
    <3> QED
      BY <3>2, <3>3, <3>5, SeqEqual
  <2> QED
    <3>1. Len(old) <= Len(old \o data)
      BY <1>2, <2>3
    <3>2. /\ Contents' \in Seq(Byte)
          /\ Len(Contents) <= Len(Contents')
          /\ Contents = SubSeq(Contents', 1, Len(Contents))
      BY <1>1, <2>2, <2>3, <2>4, <3>1
    <3> QED
      BY <2>2, <3>2 DEF Queue!Put
<1>6. ASSUME NEW data \in Data, InsertFails(data)
      PROVE  BufferOK' /\ [Queue!Put \/ Queue!Take]_Contents
  BY <1>6 DEF InsertFails, buffer, BufferOK, Contents, GetBufferAvailable, last
<1>7. ASSUME NEW n \in Sizes, ReserveBuffer(n)
      PROVE  BufferOK' /\ [Queue!Put \/ Queue!Take]_Contents
  BY <1>7, ReserveKeeps, BufferAssumption
<1>8. ASSUME NEW n \in Sizes, EraseBuffer(n)
      PROVE  BufferOK' /\ [Queue!Put \/ Queue!Take]_Contents
  BY <1>8, EraseTakes, BufferAssumption DEF Queue!Take
<1>9. CASE ClearBuffer
  <2>1. mem' \in Seq(Cell) /\ read_cur' = 0 /\ write_cur' = 0
    BY <1>9, EmptySeq DEF ClearBuffer
  <2> QED
    BY <1>3, <2>1, Emptied
<1>10. CASE UNCHANGED buffer
  BY <1>10 DEF buffer, BufferOK, Contents, GetBufferAvailable, last
<1> QED
  BY <1>4, <1>5, <1>6, <1>7, <1>8, <1>9, <1>10 DEF BufferNext

(* A new buffer is an empty queue.                                           *)
LEMMA FirstQueue ==
    ASSUME BufferInit
    PROVE  BufferOK /\ Contents = <<>>
<1>1. mem \in Seq(Cell) /\ Len(mem) = 0
  BY EmptySeq DEF BufferInit
<1>2. Contents = [k \in 1 .. 0 |-> mem[0 + k]]
  BY DEF BufferInit, Contents, GetBufferAvailable
<1>3. Contents = <<>> /\ <<>> \in Seq(Byte)
  BY <1>2, EmptySeq
<1> QED
  BY <1>1, <1>3 DEF BufferInit, BufferOK, Cell, last

(* The cursors stay in the memory and between them is only what was written, *)
(* whatever callers insert, reserve, erase and clear.                        *)
THEOREM CursorsCorrect == BufferSpec => []BufferOK
<1>1. BufferInit => BufferOK
  BY FirstQueue
<1>2. BufferOK /\ [BufferNext]_buffer => BufferOK'
  BY StepOfQueue
<1> QED
  BY <1>1, <1>2, PTL DEF BufferSpec

(* The buffer implements a queue of bytes.                                   *)
THEOREM BufferIsByteQueue == BufferSpec => IsByteQueue
<1>1. BufferInit => Queue!QueueInit
  BY FirstQueue DEF Queue!QueueInit
<1>2. BufferOK /\ [BufferNext]_buffer => [Queue!Put \/ Queue!Take]_Contents
  BY StepOfQueue
<1> QED
  BY <1>1, <1>2, CursorsCorrect, PTL DEF BufferSpec, IsByteQueue, Queue!QueueSpec
=============================================================================
