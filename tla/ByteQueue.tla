------------------------------ MODULE ByteQueue ------------------------------
(* What a buffer promises: bytes come out in the order they went in, whole   *)
(* and once.                                                                 *)
EXTENDS Naturals, Sequences

CONSTANT Byte

VARIABLE queue

QueueInit == queue = <<>>

\* More behind what there is.
Put ==
    /\ queue' \in Seq(Byte)
    /\ Len(queue) <= Len(queue')
    /\ queue = SubSeq(queue', 1, Len(queue))

\* Less from the front.
Take == \E n \in 0 .. Len(queue) : queue' = SubSeq(queue, n + 1, Len(queue))

QueueSpec == QueueInit /\ [][Put \/ Take]_queue
=============================================================================
