------------------------------ MODULE EventPipe ------------------------------
(***************************************************************************)
(* What the phone promises about the input events the user makes: every    *)
(* event enters a queue once, leaves it from the front, one datagram per   *)
(* event, and is either sent or forgotten.  An event forgotten with a      *)
(* session never comes back in a later one.                                *)
(***************************************************************************)
EXTENDS Naturals, Sequences

CONSTANT Tag            \* what an event carries besides its number

VARIABLES
    last,               \* number of the last event accepted
    queue,              \* accepted, not yet sent
    sent                \* everything handed to the network, oldest first

pipeVars == <<last, queue, sent>>

Event == [id : Nat, tag : Tag]

Init == last = 0 /\ queue = <<>> /\ sent = <<>>

Accept ==
    \E t \in Tag :
        /\ last' = last + 1
        /\ queue' = Append(queue, [id |-> last + 1, tag |-> t])
        /\ UNCHANGED sent

Transmit ==
    /\ queue # <<>>
    /\ sent' = Append(sent, Head(queue))
    /\ queue' = Tail(queue)
    /\ UNCHANGED last

Forget ==
    /\ queue' = <<>>
    /\ UNCHANGED <<last, sent>>

Next == Accept \/ Transmit \/ Forget

Spec == Init /\ [][Next]_pipeVars

-----------------------------------------------------------------------------
TypeOK ==
    /\ last \in Nat
    /\ queue \in Seq(Event)
    /\ sent \in Seq(Event)

\* Numbers grow along a sequence: no event twice, none out of order.
Ascending(s) == \A i, j \in DOMAIN s : i < j => s[i].id < s[j].id

(* What was sent and what still waits are, together, in the order the user *)
(* made the events, without repetition.                                     *)
InOrderOnce ==
    /\ Ascending(sent)
    /\ Ascending(queue)
    /\ \A i \in DOMAIN sent : sent[i].id <= last
    /\ \A i \in DOMAIN queue : queue[i].id <= last
    /\ \A i \in DOMAIN sent, j \in DOMAIN queue : sent[i].id < queue[j].id

=============================================================================
