------------------------------ MODULE ArBuffer -------------------------------
(* The byte buffer of Library/Arsenal/Arsenal/Common/buffer.c: one piece of  *)
(* memory with a read and a write cursor, which is moved to the front or     *)
(* reallocated when what is to be put in does not fit behind the writer.     *)
(* Cursors are offsets from "first"; "last" is the length of the memory.     *)
EXTENDS Integers, Sequences

CONSTANTS
    Byte,
    Unset,        \* what new memory holds
    InitBufLen,   \* INIT_BUF_LEN
    Data,         \* what a caller inserts
    Sizes,        \* how much it reserves, creates with, erases or reads
    MaxAvailable  \* bound: no caller keeps more in it

ASSUME BufferAssumption ==
    /\ Unset \notin Byte
    /\ InitBufLen \in Nat
    /\ Data \subseteq Seq(Byte)
    /\ Sizes \subseteq Nat

VARIABLES mem, read_cur, write_cur

buffer == <<mem, read_cur, write_cur>>

last == Len(mem)

GetBufferAvailable == write_cur - read_cur

GetBufferCapacity == last - GetBufferAvailable

\* What is to be read, from AR_GetBufferData on.
Contents == [k \in 1 .. GetBufferAvailable |-> mem[read_cur + k]]

Larger(a, b) == IF a > b THEN a ELSE b

-----------------------------------------------------------------------------
(* Memory.                                                                   *)

\* Mutant: copied from the start of the memory.
IncreaseFromFirst(inc_len) ==
    [k \in 1 .. inc_len + last |->
        IF k <= GetBufferAvailable THEN mem[k] ELSE Unset]

\* New memory with the data at its front.
IncreaseCapability(inc_len) ==
    [k \in 1 .. inc_len + last |->
        IF k <= GetBufferAvailable THEN mem[read_cur + k] ELSE Unset]

\* The data moved to the front, over whatever is there.
MoveInternal ==
    [k \in 1 .. last |->
        IF k <= GetBufferAvailable THEN mem[read_cur + k] ELSE mem[k]]

\* Doubled, or by what is missing if that is more.
IncLen(nbytes) == Larger(nbytes - GetBufferCapacity, last)

Written(memory, at, data) ==
    [k \in 1 .. Len(memory) |->
        IF k \in at + 1 .. at + Len(data) THEN data[k - at] ELSE memory[k]]

Fill(memory, at, data) ==
    /\ mem' = Written(memory, at, data)
    /\ write_cur' = at + Len(data)

-----------------------------------------------------------------------------
(* Operations.  One that allocates may fail instead.                         *)

CreateBuffer(nbytes) ==
    /\ mem' = IF nbytes = 0 THEN <<>>
              ELSE [k \in 1 .. Larger(nbytes, InitBufLen) |-> Unset]
    /\ read_cur' = 0
    /\ write_cur' = 0

\* AR_AllocBuffer and what is copied to the room it gives.
InsertBuffer(data) ==
    \/ /\ Len(data) <= last - write_cur
       /\ Fill(mem, write_cur, data)
       /\ UNCHANGED read_cur
    \/ /\ Len(data) > last - write_cur
       /\ Len(data) <= GetBufferCapacity
       /\ Fill(MoveInternal, GetBufferAvailable, data)
       /\ read_cur' = 0
    \/ /\ Len(data) > GetBufferCapacity
       /\ Fill(IncreaseCapability(IncLen(Len(data))), GetBufferAvailable, data)
       /\ read_cur' = 0

\* There is no memory for more.
InsertFails(data) ==
    /\ Len(data) > GetBufferCapacity
    /\ UNCHANGED buffer

ReserveBuffer(nbytes) ==
    IF GetBufferCapacity >= nbytes THEN UNCHANGED buffer
    ELSE /\ mem' = IncreaseCapability(IncLen(nbytes))
         /\ read_cur' = 0
         /\ write_cur' = GetBufferAvailable

\* At most what there is, and the cursors go back when nothing is left.
EraseBuffer(nbytes) ==
    /\ IF nbytes > 0 /\ nbytes >= GetBufferAvailable
       THEN read_cur' = 0 /\ write_cur' = 0
       ELSE read_cur' = read_cur + nbytes /\ UNCHANGED write_cur
    /\ UNCHANGED mem

ClearBuffer ==
    /\ mem' = <<>>
    /\ read_cur' = 0
    /\ write_cur' = 0

BufferInit == mem = <<>> /\ read_cur = 0 /\ write_cur = 0

\* Any caller, with a buffer of its own.
BufferNext ==
    \/ \E n \in Sizes : mem = <<>> /\ CreateBuffer(n)
    \/ \E data \in Data :
         /\ GetBufferAvailable + Len(data) <= MaxAvailable
         /\ InsertBuffer(data) \/ InsertFails(data)
    \/ \E n \in Sizes : GetBufferAvailable + n <= MaxAvailable /\ ReserveBuffer(n)
    \/ \E n \in Sizes : EraseBuffer(n)
    \/ ClearBuffer

BufferSpec == BufferInit /\ [][BufferNext]_buffer

-----------------------------------------------------------------------------
(* Properties.                                                               *)

\* The cursors stay in the memory, the reader behind the writer, and between
\* them is only what was written.
BufferOK ==
    /\ mem \in Seq(Byte \cup {Unset})
    /\ read_cur \in Nat
    /\ write_cur \in read_cur .. last
    /\ Contents \in Seq(Byte)

Queue == INSTANCE ByteQueue WITH queue <- Contents

\* Moving and growing lose, double and reorder nothing: the buffer is a queue
\* of bytes.
IsByteQueue == Queue!QueueSpec
=============================================================================
